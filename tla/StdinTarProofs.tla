--------------------------- MODULE StdinTarProofs ---------------------------
(***************************************************************************)
(* Theorems about compressStdinTar(), for every input, command line and    *)
(* buffer size the assumptions allow.                                      *)
(*                                                                         *)
(* None of the properties is inductive as it stands.  IInv adds to them    *)
(* what the loop relies on from one read to the next: which buffers are    *)
(* empty at which step (Waiting), where the bytes read so far are          *)
(* (Ordered), that an open frame is never full (Limited), and what is left *)
(* of the element whose size was pledged (Pledged).                        *)
(***************************************************************************)
EXTENDS StdinTar, FrameWriterProofs

(***************************************************************************)
(* The inductive invariant.                                                *)
(***************************************************************************)

Running == status = "running"

\* What waits where: `held' and the run of null blocks are empty once they are
\* being compressed, a payload is left only within an entry, and a step that
\* reads a header or ends a frame finds no pushBytesTar() call in progress.
Waiting ==
  /\ pc \in {"nulls", "flushed", "header", "sparse", "payload", "finish"} => heldLen = 0
  /\ pc \in {"flushed", "entry", "header", "sparse", "payload", "finish"} => nullRun = 0
  /\ pc \notin {"header", "sparse", "payload"} => remaining = 0
  /\ pc \in {"read", "flush", "entry", "finish"} => push.n = 0
  /\ pc = "flush" => heldLen + nullRun > 0
  /\ eof => rd = Total(input) /\ pc \in {"flush", "nulls", "flushed", "finish"}
  /\ pc = "finish" => eof
  /\ heldLen <= HeldSize

\* Bytes read that are accounted for: all but the header that is not pushed yet.
Position ==
  IF pc \in {"entry", "header"} \/ (pc \in {"flush", "nulls", "flushed"} /\ ~eof)
  THEN rd - TarBlock ELSE rd

\* They were given to zstd, are being pushed, or wait, in that order.
Ordered ==
  Running =>
    /\ Written(fw) + push.n + heldLen + nullRun = Position
    /\ push.n > 0 => push.from = Written(fw)
    /\ heldLen > 0 => heldFrom = Written(fw)

\* A frame is open while it is not full, and once it is full or its element
\* ends it is not empty.
Limited ==
  /\ fw.open => fw.in = fw.zin
  /\ Running /\ fw.open =>
       /\ fw.in < maxBlockSize(opts)
       /\ fw.in > 0 \/ push.n > 0 \/ pc = "header" \/ (pc = "nulls" /\ nullRun > 0)
  /\ TableFits(fw.table, maxBlockSize(opts))
  /\ Described(fw, opts)
  /\ status = "ok" => Complete(fw) = Total(input)

\* A frame has a known size only without -s and within an element, and that
\* size is what the rest of the element makes it.
Pledged ==
  /\ Running /\ fw.open /\ fw.pledged # Unknown =>
       /\ minBlockSize(opts) = 0
       /\ pc \in {"nulls", "flushed", "header", "payload"}
       /\ pc \in {"header", "payload"} => ~joinsNextEntry(hdr) /\ ~hasSparseExtension(hdr)
       /\ ElementRest <= U64Max =>
            fw.pledged = IF ElementRest > maxBlockSize(opts) THEN maxBlockSize(opts)
                         ELSE ElementRest
  /\ PledgeHonoured

IInv == TypeOK /\ Waiting /\ Ordered /\ Limited /\ Pledged

(***************************************************************************)
(* Facts about the operators the model is built from.                      *)
(***************************************************************************)

\* The sizes of a run, from the assumptions on the constants.
LEMMA Sizes ==
  ASSUME TypeOK
  PROVE  /\ maxBlockSize(opts) \in Nat \ {0} /\ maxBlockSize(opts) < U64Max
         /\ minBlockSize(opts) \in Nat
         /\ TarBlock \in Nat \ {0} /\ U64Max \in Nat /\ Total(input) \in Nat
<1>1. opts \in CommandLine /\ input \in Stream
  BY ConfigAssumption DEF TypeOK
<1>2. Total(input) \in Nat
  BY <1>1, TarAssumption DEF Total, Stream
<1> QED
  BY <1>1, <1>2, BlockSizes, TarAssumption, ConfigAssumption

\* The frame that one turn of pushBytesTar() fills.
Filled == Feed(IF fw.open THEN fw ELSE startFrame(fw, Unknown), canWrite(push.n))

\* One turn of pushBytesTar() pushes at least a byte, and no more than fit in
\* the frame, right after those written.
LEMMA FilledFacts ==
  ASSUME IInv, status = "running", push.n > 0, NEW f, f = Filled, NEW k, k = canWrite(push.n)
  PROVE  /\ k \in 1 .. push.n
         /\ f \in FrameState /\ f.open
         /\ f.in = f.zin /\ f.in \in 1 .. maxBlockSize(opts)
         /\ f.in = k + (IF fw.open THEN fw.in ELSE 0)
         /\ f.pledged = (IF fw.open THEN fw.pledged ELSE Unknown)
         /\ f.ends = fw.ends /\ f.table = fw.table /\ Described(f, opts)
         /\ Complete(f) = Complete(fw) /\ Complete(f) + f.zin = Written(fw) + k
<1>1. fw \in FrameState /\ push.n \in Nat /\ maxBlockSize(opts) \in Nat \ {0}
      /\ U64Max \in 0 .. U64Max
  BY Sizes DEF IInv, TypeOK
<1>2. fw.open => fw.in \in Nat /\ fw.in = fw.zin /\ fw.in < maxBlockSize(opts)
  BY <1>1 DEF IInv, Limited, Running, FrameState
<1>3. k \in 1 .. push.n /\ k + (IF fw.open THEN fw.in ELSE 0) <= maxBlockSize(opts)
  BY <1>1, <1>2 DEF canWrite
<1>4. PICK g : g = IF fw.open THEN fw ELSE startFrame(fw, Unknown)
  OBVIOUS
<1>5. /\ g \in FrameState /\ g.open /\ g.in = g.zin
      /\ g.in = IF fw.open THEN fw.in ELSE 0
      /\ g.pledged = IF fw.open THEN fw.pledged ELSE Unknown
      /\ g.ends = fw.ends /\ g.table = fw.table /\ g.skip = fw.skip /\ g.count = fw.count
  BY <1>1, <1>2, <1>4, StartFacts DEF Unknown
<1>6. f = Feed(g, k) /\ k \in Nat
  BY <1>3, <1>4 DEF Filled
<1>7. /\ f \in FrameState /\ f.open
      /\ f.in = g.in + k /\ f.zin = g.zin + k /\ f.pledged = g.pledged
      /\ f.ends = fw.ends /\ f.table = fw.table /\ f.skip = fw.skip /\ f.count = fw.count
  <2>1. g \in FrameState
    BY <1>5
  <2>2. /\ f \in FrameState
        /\ f.open = g.open /\ f.in = g.in + k /\ f.zin = g.zin + k
        /\ f.pledged = g.pledged /\ f.ends = g.ends /\ f.table = g.table
        /\ f.skip = g.skip /\ f.count = g.count
    BY <1>6, <2>1, FeedFacts
  <2> QED
    BY <1>5, <2>2
<1>8. f.in = f.zin /\ f.in = k + (IF fw.open THEN fw.in ELSE 0) /\ f.in \in 1 .. maxBlockSize(opts)
  <2>1. g.in \in Nat /\ g.in = g.zin
    BY <1>5 DEF FrameState
  <2>2. f.in = k + g.in /\ f.in = f.zin
    BY <1>3, <1>7, <2>1
  <2>3. k + g.in <= maxBlockSize(opts)
    BY <1>3, <1>5
  <2>4. k \in Nat /\ k >= 1
    BY <1>1, <1>3
  <2>5. f.in \in 1 .. maxBlockSize(opts)
    BY <1>1, <2>1, <2>2, <2>3, <2>4
  <2> QED
    BY <1>5, <2>2, <2>5
<1>9. Complete(f) = Complete(fw) /\ Complete(fw) \in Nat
  BY <1>1, <1>7, CompleteType DEF Complete
<1>10. Complete(f) + f.zin = Written(fw) + k
  BY <1>1, <1>2, <1>3, <1>8, <1>9 DEF Written
<1>11. Described(f, opts)
  <2>1. Described(fw, opts)
    BY DEF IInv, Limited
  <2> QED
    BY <1>1, <1>7, <2>1, SameFrames
<1> QED
  BY <1>3, <1>5, <1>7, <1>8, <1>9, <1>10, <1>11

\* What one turn of pushBytesTar() does.
LEMMA PushFacts ==
  ASSUME IInv, Push, NEW f, f = Filled, NEW k, k = canWrite(push.n)
  PROVE  /\ fw' \in FrameState /\ TableFits(fw'.table, maxBlockSize(opts))
         /\ Described(fw', opts)
         /\ push'.n = push.n - k /\ push'.from = push.from + k /\ push' \in [n : Nat, from : Nat]
         /\ \/ status' = "running" /\ fw' = f /\ f.in < maxBlockSize(opts)
            \/ /\ status' = "running" /\ ~fw'.open /\ Complete(fw') = Written(fw) + k
               /\ fw'.ends = Append(fw.ends, Written(fw) + k)
               /\ Written(fw) + k = Complete(fw) + maxBlockSize(opts)
            \/ /\ status' = "zstdError" /\ fw' = f
               /\ Overfed(f) \/ (f.in >= maxBlockSize(opts) /\ PledgeBroken(f))
<1>1. status = "running" /\ push.n > 0 /\ pushBytesTar(push.n)
  BY DEF Push
<1>2. /\ k \in 1 .. push.n /\ f \in FrameState /\ f.in = f.zin /\ f.in \in 1 .. maxBlockSize(opts)
      /\ f.table = fw.table /\ Complete(f) + f.zin = Written(fw) + k
      /\ Described(f, opts) /\ f.ends = fw.ends /\ Complete(f) = Complete(fw)
  BY <1>1, FilledFacts
<1>3. /\ opts \in CommandLine /\ push \in [n : Nat, from : Nat]
      /\ TableFits(fw.table, maxBlockSize(opts))
  BY DEF IInv, TypeOK, Limited, TableFits
<1>4. push'.n = push.n - k /\ push'.from = push.from + k /\ push' \in [n : Nat, from : Nat]
  BY <1>2, <1>3 DEF Push
<1>5. \/ Overfed(f) /\ status' = "zstdError" /\ fw' = f
      \/ f.in < maxBlockSize(opts) /\ status' = status /\ fw' = f
      \/ f.in >= maxBlockSize(opts) /\ EndFrame(f)
  BY <1>1 DEF pushBytesTar, Filled
<1>6. CASE f.in >= maxBlockSize(opts) /\ EndFrame(f)
  <2>1. TableFits(f.table, maxBlockSize(opts))
    BY <1>2, <1>3
  <2>2. /\ fw' \in FrameState /\ TableFits(fw'.table, maxBlockSize(opts))
        /\ Described(fw', opts)
        /\ \/ status' = "zstdError" /\ fw' = f /\ PledgeBroken(f)
           \/ /\ status' = "running" /\ ~fw'.open /\ Complete(fw') = Complete(f) + f.zin
              /\ fw'.ends = Append(f.ends, Complete(f) + f.zin)
    BY <1>1, <1>2, <1>3, <1>6, <2>1, EndFrameFacts
  <2>3. f.in = maxBlockSize(opts)
    BY <1>2, <1>3, <1>6, BlockSizes DEF FrameState
  <2> QED
    BY <1>2, <1>4, <1>6, <2>2, <2>3
<1>7. CASE fw' = f
  <2>1. fw' \in FrameState /\ TableFits(fw'.table, maxBlockSize(opts)) /\ Described(fw', opts)
    BY <1>2, <1>3, <1>7
  <2>2. f.in < maxBlockSize(opts) \/ f.in >= maxBlockSize(opts)
    BY <1>2, <1>3, BlockSizes DEF FrameState
  <2> QED
    BY <1>1, <1>4, <1>5, <1>6, <1>7, <2>1, <2>2
<1> QED
  BY <1>5, <1>6, <1>7

\* Ending the open frame where its element ends.
LEMMA EndElementFacts ==
  ASSUME IInv, status = "running", pc \in {"flushed", "payload", "finish"},
         push.n = 0, remaining = 0, fw.open, EndFrame(fw)
  PROVE  /\ fw' \in FrameState /\ TableFits(fw'.table, maxBlockSize(opts))
         /\ Described(fw', opts)
         /\ status' = "running" /\ ~fw'.open /\ Complete(fw') = Written(fw)
         /\ fw'.ends = Append(fw.ends, Written(fw))
         /\ Written(fw) > Complete(fw) /\ Written(fw) < Complete(fw) + maxBlockSize(opts)
         /\ Written(fw) = Complete(fw) + fw.in
<1>1. /\ opts \in CommandLine /\ fw \in FrameState /\ fw.in \in Nat
      /\ maxBlockSize(opts) \in Nat \ {0} /\ maxBlockSize(opts) < U64Max /\ U64Max \in Nat
  BY Sizes DEF IInv, TypeOK, FrameState
<1>2. /\ fw.in = fw.zin /\ fw.in < maxBlockSize(opts) /\ fw.in > 0
      /\ TableFits(fw.table, maxBlockSize(opts)) /\ Described(fw, opts)
  BY DEF IInv, Limited, Running, TableFits
<1>3. fw.pledged # Unknown => fw.pledged = fw.in
  <2>1. ElementRest = fw.in
    BY <1>1 DEF IInv, Waiting, ElementRest
  <2> QED
    BY <1>1, <1>2, <2>1 DEF IInv, Pledged, Running
<1>4. ~PledgeBroken(fw)
  BY <1>2, <1>3 DEF PledgeBroken
<1>5. fw.in \in 1 .. maxBlockSize(opts)
  BY <1>1, <1>2
<1>6. /\ fw' \in FrameState /\ TableFits(fw'.table, maxBlockSize(opts)) /\ Described(fw', opts)
      /\ status' = "running" /\ ~fw'.open /\ Complete(fw') = Complete(fw) + fw.zin
      /\ fw'.ends = Append(fw.ends, Complete(fw) + fw.zin)
  BY <1>1, <1>2, <1>4, <1>5, EndFrameFacts
<1>7. Written(fw) = Complete(fw) + fw.in /\ Complete(fw) \in Nat
  BY <1>1, <1>2, CompleteType DEF Written
<1> QED
  BY <1>1, <1>2, <1>6, <1>7

\* Opening a frame with an element of `size' bytes.
LEMMA StartElementFacts ==
  ASSUME IInv, NEW size \in Nat, NEW g, g = startElementFrame(fw, opts, size)
  PROVE  /\ g \in FrameState /\ g.table = fw.table /\ g.ends = fw.ends
         /\ Described(g, opts)
         /\ Complete(g) = Complete(fw) /\ Written(g) = Written(fw)
         /\ \/ g = fw
            \/ /\ ~fw.open /\ minBlockSize(opts) = 0
               /\ g.open /\ g.in = 0 /\ g.zin = 0
               /\ g.pledged = IF size > maxBlockSize(opts) THEN maxBlockSize(opts) ELSE size
<1>1. /\ fw \in FrameState /\ minBlockSize(opts) \in Nat
      /\ maxBlockSize(opts) \in Nat \ {0} /\ maxBlockSize(opts) < U64Max /\ U64Max \in Nat
      /\ Described(fw, opts)
  BY Sizes DEF IInv, TypeOK, Limited
<1>2. CASE minBlockSize(opts) > 0 \/ fw.open
  BY <1>1, <1>2 DEF startElementFrame
<1>3. CASE ~(minBlockSize(opts) > 0 \/ fw.open)
  <2>1. PICK p : p = IF size > maxBlockSize(opts) THEN maxBlockSize(opts) ELSE size
    OBVIOUS
  <2>2. g = startFrame(fw, p) /\ p \in 0 .. U64Max
    BY <1>1, <1>3, <2>1 DEF startElementFrame
  <2>3. /\ g \in FrameState /\ g.open /\ g.in = 0 /\ g.pledged = p /\ g.zin = 0
        /\ g.ends = fw.ends /\ g.table = fw.table /\ g.skip = fw.skip /\ g.count = fw.count
    <3>1. fw \in FrameState
      BY <1>1
    <3> QED
      BY <2>2, <3>1, StartFacts
  <2>4. Complete(g) = Complete(fw) /\ Complete(fw) \in Nat
    BY <1>1, <2>3, CompleteType DEF Complete
  <2>5. Written(g) = Written(fw)
    BY <1>3, <2>3, <2>4 DEF Written
  <2>6. Described(g, opts)
    BY <1>1, <2>3, SameFrames
  <2> QED
    BY <1>1, <1>3, <2>1, <2>3, <2>4, <2>5, <2>6
<1> QED
  BY <1>2, <1>3

\* The sizes an action reads.
LEMMA Typed ==
  ASSUME IInv
  PROVE  /\ input \in Stream /\ opts \in CommandLine /\ fw \in FrameState /\ hdr \in Block
         /\ rd \in Nat /\ heldLen \in Nat /\ heldFrom \in Nat /\ nullRun \in Nat
         /\ remaining \in Nat /\ push \in [n : Nat, from : Nat]
         /\ paxNextSize \in 0 .. U64Max
         /\ fileSize \in 0 .. U64Max /\ Padded(fileSize) \in Nat
         /\ PaxLeft(hdr, paxNextSize) \in 0 .. U64Max
         /\ Written(fw) \in Nat
<1>1. TypeOK
  BY DEF IInv
<1>2. input \in Stream
  BY <1>1, ConfigAssumption DEF TypeOK
<1>3. hdr \in Block /\ paxNextSize \in 0 .. U64Max /\ fw \in FrameState
  BY <1>1 DEF TypeOK
<1>4. fileSize \in 0 .. U64Max /\ PaxLeft(hdr, paxNextSize) \in 0 .. U64Max
  BY <1>3, EntrySizeType DEF fileSize
<1>5. Padded(fileSize) \in Nat
  <2>1. fileSize \in Nat
    BY <1>4, TarAssumption
  <2> QED
    BY <2>1, PaddedNat
<1>6. Written(fw) \in Nat
  BY <1>3, WrittenType
<1> QED
  BY <1>1, <1>2, <1>4, <1>5, <1>6 DEF TypeOK

\* The size compressStdinTar() gives to startElementFrame() fits in 64 bits.
LEMMA ElementSizeType ==
  ASSUME IInv
  PROVE  elementSize \in Nat
<1>1. PICK size \in Nat : size = heldLen + TarBlock + Padded(fileSize)
  BY Typed, TarAssumption
<1>2. PICK m \in Nat \ {0} : m = U64Max + 1
  BY TarAssumption
<1>3. size % m \in 0 .. m - 1
  BY ModFacts
<1> QED
  BY <1>1, <1>2, <1>3 DEF elementSize

\* Every step of compressStdinTar() keeps the types.
LEMMA TypeStep ==
  ASSUME IInv, [Next]_vars
  PROVE  TypeOK'
<1> USE DEF TypeOK
<1>1. TypeOK /\ TarBlock \in Nat \ {0}
  BY TarAssumption DEF IInv
<1>2. CASE ReadNull
  BY <1>1, <1>2 DEF ReadNull, given
<1>3. CASE ReadHeader
  <2>1. hdr' \in Block
    BY <1>3, Typed, BlockAtType DEF ReadHeader
  <2> QED
    BY <1>1, <1>3, <2>1 DEF ReadHeader, given, Labels
<1>4. CASE ReadEnd
  BY <1>1, <1>4 DEF ReadEnd, given, Labels
<1>5. CASE \/ RejectPartial \/ RejectHeader \/ RejectTruncated \/ Finish \/ IOError
  BY <1>1, <1>5 DEF RejectPartial, RejectHeader, RejectTruncated, Finish, IOError,
     Exit, given, locals, Statuses
<1>6. CASE FlushHeld
  <2>1. heldLen + nullRun \in Nat
    BY Typed
  <2>2. fw' \in FrameState
    BY <1>6, <2>1, StartElementFacts DEF FlushHeld
  <2> QED
    BY <1>1, <1>6, <2>2 DEF FlushHeld, PushHeld, given, Labels
<1>7. CASE FlushNulls
  <2>1. push'.n \in Nat /\ push'.from \in Nat
    BY <1>7, Typed DEF FlushNulls, IInv, Ordered, Running, At, Position, HeaderFrom, Waiting
  <2> QED
    BY <1>1, <1>7, <2>1 DEF FlushNulls, given, Labels
<1>8. CASE EndFlush
  <2>1. fw' \in FrameState /\ status' = "running"
    BY <1>1, <1>8, EndElementFacts DEF EndFlush, At, IInv, Waiting
  <2> QED
    BY <1>1, <1>8, <2>1 DEF EndFlush, given, Labels, Statuses
<1>9. CASE Hold
  <2>1. paxNextSize' \in 0 .. U64Max
    BY <1>9, Typed, PaxSizeType DEF Hold
  <2>2. heldFrom' \in Nat
    BY <1>9, Typed DEF Hold, IInv, Ordered, Running, At, Position, HeaderFrom, Waiting
  <2> QED
    BY <1>1, <1>9, <2>1, <2>2, Typed DEF Hold, given, Labels
<1>10. CASE BeginEntry
  <2>1. elementSize \in Nat
    BY ElementSizeType
  <2>2. fw' \in FrameState
    BY <1>1, <1>10, <2>1, StartElementFacts DEF BeginEntry
  <2> QED
    BY <1>1, <1>10, <2>2, Typed DEF BeginEntry, PushHeld, given, Labels
<1>11. CASE PushHeader
  <2>1. HeaderFrom \in Nat
    BY <1>11, Typed DEF PushHeader, IInv, Ordered, Running, At, Position, HeaderFrom, Waiting
  <2> QED
    BY <1>1, <1>11, <2>1 DEF PushHeader, given, Labels
<1>12. CASE ReadSparse
  BY <1>1, <1>12 DEF ReadSparse, given, Labels
<1>13. CASE ReadPayload
  <2>1. chunk \in Nat /\ chunk <= remaining
    BY <1>1, StdinTarAssumption DEF chunk
  <2>2. paxNextSize' \in 0 .. U64Max
    <3>1. hdr.size \in Nat
      BY Typed, TarAssumption DEF Block
    <3> QED
      BY <1>13, <3>1, Typed, PaxSizeType DEF ReadPayload
  <2> QED
    BY <1>1, <1>13, <2>1, <2>2 DEF ReadPayload, given
<1>14. CASE EndEntry
  <2>1. fw' \in FrameState /\ status' = "running"
    BY <1>1, <1>14, EndElementFacts DEF EndEntry, At, IInv, Waiting
  <2> QED
    BY <1>1, <1>14, <2>1 DEF EndEntry, given, Labels, Statuses
<1>15. CASE Push
  <2>1. fw' \in FrameState /\ push' \in [n : Nat, from : Nat] /\ status' \in Statuses
    BY <1>15, PushFacts DEF Statuses
  <2> QED
    BY <1>1, <1>15, <2>1 DEF Push, given
<1>16. CASE EndLast
  <2>1. fw' \in FrameState /\ status' = "running"
    BY <1>1, <1>16, EndElementFacts DEF EndLast, At, IInv, Waiting
  <2> QED
    BY <1>1, <1>16, <2>1 DEF EndLast, given, locals, Statuses
<1>17. CASE UNCHANGED vars
  BY <1>1, <1>17 DEF vars, given, locals
<1> QED
  BY <1>2, <1>3, <1>4, <1>5, <1>6, <1>7, <1>8, <1>9, <1>10, <1>11, <1>12, <1>13, <1>14,
     <1>15, <1>16, <1>17 DEF Next, Step

\* Every step keeps what waits where it belongs: `held' is emptied before its
\* entry is compressed, and never overflows.
LEMMA WaitingStep ==
  ASSUME IInv, [Next]_vars
  PROVE  Waiting'
<1> USE DEF Waiting, At
<1>1. /\ Waiting /\ TarBlock \in Nat \ {0} /\ HeldSize \in Nat
      /\ heldLen \in Nat /\ nullRun \in Nat /\ rd \in Nat /\ Padded(fileSize) \in Nat
      /\ push \in [n : Nat, from : Nat] /\ InChunk \in Nat \ {0}
  BY Typed, TarAssumption, StdinTarAssumption DEF IInv
<1>2. CASE ReadNull
  BY <1>1, <1>2 DEF ReadNull, given
<1>3. CASE ReadHeader
  BY <1>1, <1>3 DEF ReadHeader, given
<1>4. CASE ReadEnd
  BY <1>1, <1>4 DEF ReadEnd, given
<1>5. CASE \/ RejectPartial \/ RejectHeader \/ RejectTruncated \/ Finish \/ IOError
  BY <1>1, <1>5 DEF RejectPartial, RejectHeader, RejectTruncated, Finish, IOError,
     Exit, given, locals
<1>6. CASE FlushHeld
  BY <1>1, <1>6 DEF FlushHeld, PushHeld, given
<1>7. CASE FlushNulls
  BY <1>1, <1>7 DEF FlushNulls, given
<1>8. CASE EndFlush
  BY <1>1, <1>8 DEF EndFlush, given
<1>9. CASE Hold
  BY <1>1, <1>9 DEF Hold, IsHeld, given
<1>10. CASE BeginEntry
  BY <1>1, <1>10 DEF BeginEntry, PushHeld, given
<1>11. CASE PushHeader
  BY <1>1, <1>11 DEF PushHeader, given
<1>12. CASE ReadSparse
  BY <1>1, <1>12 DEF ReadSparse, given
<1>13. CASE ReadPayload
  BY <1>1, <1>13 DEF ReadPayload, given
<1>14. CASE EndEntry
  BY <1>1, <1>14 DEF EndEntry, given
<1>15. CASE Push
  BY <1>1, <1>15 DEF Push, given
<1>16. CASE EndLast
  BY <1>1, <1>16 DEF EndLast, given, locals
<1>17. CASE UNCHANGED vars
  BY <1>1, <1>17 DEF vars, given, locals
<1> QED
  BY <1>2, <1>3, <1>4, <1>5, <1>6, <1>7, <1>8, <1>9, <1>10, <1>11, <1>12, <1>13, <1>14,
     <1>15, <1>16, <1>17 DEF Next, Step

\* Every step accounts for the bytes it moves from standard input to `held', to
\* the run of null blocks, to pushBytesTar() and to zstd.
LEMMA OrderedStep ==
  ASSUME IInv, [Next]_vars
  PROVE  Ordered'
<1> USE DEF Waiting, Ordered, Position, At, Running
<1>1. /\ Waiting /\ Ordered /\ TarBlock \in Nat \ {0} /\ Written(fw) \in Nat
      /\ heldLen \in Nat /\ heldFrom \in Nat /\ nullRun \in Nat /\ rd \in Nat
      /\ Padded(fileSize) \in Nat /\ remaining \in Nat
      /\ push \in [n : Nat, from : Nat] /\ InChunk \in Nat \ {0}
  BY Typed, TarAssumption, StdinTarAssumption DEF IInv
<1>2. CASE ReadNull
  BY <1>1, <1>2 DEF ReadNull, given
<1>3. CASE ReadHeader
  BY <1>1, <1>3 DEF ReadHeader, given
<1>4. CASE ReadEnd
  BY <1>1, <1>4 DEF ReadEnd, given
<1>5. CASE \/ RejectPartial \/ RejectHeader \/ RejectTruncated \/ Finish \/ IOError
  BY <1>1, <1>5 DEF RejectPartial, RejectHeader, RejectTruncated, Finish, IOError, Exit
<1>6. CASE FlushHeld
  <2>1. Written(fw)' = Written(fw)
    BY <1>1, <1>6, StartElementFacts DEF FlushHeld
  <2> QED
    BY <1>1, <1>6, <2>1 DEF FlushHeld, PushHeld, given
<1>7. CASE FlushNulls
  BY <1>1, <1>7 DEF FlushNulls, HeaderFrom, given
<1>8. CASE EndFlush
  <2>1. Written(fw)' = Written(fw)
    BY <1>1, <1>8, EndElementFacts DEF EndFlush, Written
  <2> QED
    BY <1>1, <1>8, <2>1 DEF EndFlush, given
<1>9. CASE Hold
  BY <1>1, <1>9 DEF Hold, HeaderFrom, given
<1>10. CASE BeginEntry
  <2>1. elementSize \in Nat
    BY ElementSizeType
  <2>2. Written(fw)' = Written(fw)
    BY <1>1, <1>10, <2>1, StartElementFacts DEF BeginEntry
  <2> QED
    BY <1>1, <1>10, <2>2 DEF BeginEntry, PushHeld, given
<1>11. CASE PushHeader
  BY <1>1, <1>11 DEF PushHeader, HeaderFrom, given
<1>12. CASE ReadSparse
  BY <1>1, <1>12 DEF ReadSparse, given
<1>13. CASE ReadPayload
  <2>1. chunk \in Nat
    BY <1>1 DEF chunk
  <2> QED
    BY <1>1, <1>13, <2>1 DEF ReadPayload, given
<1>14. CASE EndEntry
  <2>1. Written(fw)' = Written(fw)
    BY <1>1, <1>14, EndElementFacts DEF EndEntry, Written
  <2> QED
    BY <1>1, <1>14, <2>1 DEF EndEntry, given
<1>15. CASE Push
  <2>1. PICK f : f = Filled
    OBVIOUS
  <2>2. PICK k : k = canWrite(push.n)
    OBVIOUS
  <2>3. /\ k \in 1 .. push.n /\ f \in FrameState /\ f.open
        /\ Complete(f) + f.zin = Written(fw) + k
    BY <1>15, <2>1, <2>2, FilledFacts DEF Push
  <2>4. /\ push'.n = push.n - k /\ push'.from = push.from + k
        /\ \/ fw' = f
           \/ ~fw'.open /\ Complete(fw') = Written(fw) + k
    BY <1>15, <2>1, <2>2, PushFacts
  <2>5. Written(fw)' = Written(fw) + k
    BY <1>1, <2>3, <2>4 DEF Written
  <2>6. heldLen = 0 /\ status = "running" /\ push.n > 0
    BY <1>1, <1>15 DEF Push, IInv, TypeOK, Labels
  <2>7. heldLen' = heldLen /\ nullRun' = nullRun /\ Position' = Position
    BY <1>15 DEF Push
  <2>8. Written(fw)' + push'.n + heldLen' + nullRun' = Position'
    BY <1>1, <2>3, <2>4, <2>5, <2>6, <2>7
  <2>9. push'.from = Written(fw)'
    BY <1>1, <2>3, <2>4, <2>5, <2>6
  <2> QED
    BY <2>6, <2>7, <2>8, <2>9
<1>16. CASE EndLast
  <2>1. Written(fw)' = Written(fw)
    BY <1>1, <1>16, EndElementFacts DEF EndLast, Written
  <2> QED
    BY <1>1, <1>16, <2>1 DEF EndLast, given, locals
<1>17. CASE UNCHANGED vars
  BY <1>1, <1>17 DEF vars, given, locals
<1> QED
  BY <1>2, <1>3, <1>4, <1>5, <1>6, <1>7, <1>8, <1>9, <1>10, <1>11, <1>12, <1>13, <1>14,
     <1>15, <1>16, <1>17 DEF Next, Step

\* Every step keeps frames within maxBlockSize, and none is recorded empty.
LEMMA LimitedStep ==
  ASSUME IInv, [Next]_vars
  PROVE  Limited'
<1> USE DEF Waiting, Limited, At, Running
<1>1. /\ Waiting /\ Limited /\ TarBlock \in Nat \ {0} /\ fw \in FrameState /\ fw.in \in Nat
      /\ maxBlockSize(opts) \in Nat \ {0} /\ opts \in CommandLine
      /\ heldLen \in Nat /\ nullRun \in Nat /\ rd \in Nat /\ Padded(fileSize) \in Nat
      /\ remaining \in Nat /\ push \in [n : Nat, from : Nat] /\ InChunk \in Nat \ {0}
      /\ pc \in Labels
  BY Typed, TarAssumption, StdinTarAssumption, BlockSizes DEF IInv, FrameState, TypeOK
<1>2. CASE ReadNull
  BY <1>1, <1>2 DEF ReadNull, given
<1>3. CASE ReadHeader
  BY <1>1, <1>3 DEF ReadHeader, given
<1>4. CASE ReadEnd
  BY <1>1, <1>4 DEF ReadEnd, given
<1>5. CASE RejectPartial \/ RejectHeader \/ RejectTruncated \/ IOError
  BY <1>1, <1>5 DEF RejectPartial, RejectHeader, RejectTruncated, IOError,
     Exit, given, locals
<1>6. CASE Finish
  <2>1. pc = "finish" /\ ~fw.open /\ status = "running" /\ push.n = 0
    BY <1>6 DEF Finish
  <2>2. Written(fw) = Total(input)
    BY <1>1, <2>1, Typed DEF IInv, Ordered, Position
  <2>3. Complete(fw) = Total(input)
    BY <1>1, <2>1, <2>2, CompleteType DEF Written
  <2> QED
    BY <1>1, <1>6, <2>3 DEF Finish, Exit, given, locals
<1>7. CASE FlushHeld
  <2>1. PICK g : g = startElementFrame(fw, opts, heldLen + nullRun)
    OBVIOUS
  <2>2. /\ g.table = fw.table /\ Described(g, opts)
        /\ g = fw \/ (g.open /\ g.in = 0 /\ g.zin = 0)
    BY <1>1, <2>1, StartElementFacts
  <2>3. heldLen > 0 \/ nullRun > 0
    BY <1>1, <1>7 DEF FlushHeld
  <2>4. fw' = g
    BY <1>7, <2>1 DEF FlushHeld
  <2> QED
    BY <1>1, <1>7, <2>2, <2>3, <2>4 DEF FlushHeld, PushHeld, given
<1>8. CASE FlushNulls
  BY <1>1, <1>8 DEF FlushNulls, given
<1>9. CASE EndFlush
  <2>1. CASE fw.open /\ fw.in >= minBlockSize(opts)
    <3>1. /\ status' = "running" /\ ~fw'.open /\ Described(fw', opts)
          /\ TableFits(fw'.table, maxBlockSize(opts))
      BY <1>1, <1>9, <2>1, EndElementFacts DEF EndFlush
    <3> QED
      BY <1>1, <1>9, <3>1 DEF EndFlush, given
  <2>2. CASE ~(fw.open /\ fw.in >= minBlockSize(opts))
    BY <1>1, <1>9, <2>2 DEF EndFlush, given
  <2> QED
    BY <2>1, <2>2
<1>10. CASE Hold
  BY <1>1, <1>10 DEF Hold, given
<1>11. CASE BeginEntry
  <2>1. elementSize \in Nat
    BY ElementSizeType
  <2>2. PICK g : g = startElementFrame(fw, opts, elementSize)
    OBVIOUS
  <2>3. /\ g.table = fw.table /\ Described(g, opts)
        /\ g = fw \/ (g.open /\ g.in = 0 /\ g.zin = 0)
    BY <2>1, <2>2, StartElementFacts
  <2>4. fw' = fw \/ fw' = g
    BY <1>11, <2>2 DEF BeginEntry
  <2> QED
    BY <1>1, <1>11, <2>3, <2>4 DEF BeginEntry, given
<1>12. CASE PushHeader
  BY <1>1, <1>12 DEF PushHeader, given
<1>13. CASE ReadSparse
  BY <1>1, <1>13 DEF ReadSparse, given
<1>14. CASE ReadPayload
  <2>1. chunk \in Nat /\ chunk > 0
    BY <1>1, <1>14 DEF ReadPayload, chunk
  <2> QED
    BY <1>1, <1>14, <2>1 DEF ReadPayload, given
<1>15. CASE EndEntry
  <2>1. CASE ~joinsNextEntry(hdr) /\ fw.open /\ fw.in >= minBlockSize(opts)
    <3>1. /\ status' = "running" /\ ~fw'.open /\ Described(fw', opts)
          /\ TableFits(fw'.table, maxBlockSize(opts))
      BY <1>1, <1>15, <2>1, EndElementFacts DEF EndEntry
    <3> QED
      BY <1>1, <1>15, <3>1 DEF EndEntry, given
  <2>2. CASE ~(~joinsNextEntry(hdr) /\ fw.open /\ fw.in >= minBlockSize(opts))
    BY <1>1, <1>15, <2>2 DEF EndEntry, given
  <2> QED
    BY <2>1, <2>2
<1>16. CASE Push
  <2>1. PICK f : f = Filled
    OBVIOUS
  <2>2. /\ f.in = f.zin /\ f.in \in 1 .. maxBlockSize(opts) /\ f.table = fw.table
    BY <1>16, <2>1, FilledFacts DEF Push
  <2>3. /\ TableFits(fw'.table, maxBlockSize(opts)) /\ Described(fw', opts)
        /\ \/ status' = "running" /\ fw' = f /\ f.in < maxBlockSize(opts)
           \/ status' = "running" /\ ~fw'.open
           \/ status' = "zstdError" /\ fw' = f
    BY <1>16, <2>1, PushFacts
  <2>4. opts' = opts /\ f.in > 0
    BY <1>1, <1>16, <2>2 DEF Push, given
  <2> QED
    BY <2>2, <2>3, <2>4
<1>17. CASE EndLast
  <2>1. /\ status' = "running" /\ ~fw'.open /\ TableFits(fw'.table, maxBlockSize(opts))
        /\ Described(fw', opts)
    BY <1>1, <1>17, EndElementFacts DEF EndLast
  <2> QED
    BY <1>1, <1>17, <2>1 DEF EndLast, given, locals
<1>18. CASE UNCHANGED vars
  BY <1>1, <1>18 DEF vars, given, locals
<1> QED
  BY <1>2, <1>3, <1>4, <1>5, <1>6, <1>7, <1>8, <1>9, <1>10, <1>11, <1>12, <1>13, <1>14,
     <1>15, <1>16, <1>17, <1>18 DEF Next, Step

\* Every step keeps a pledged size that of the rest of the element, so that
\* ending the frame never breaks the pledge.
LEMMA PledgedStep ==
  ASSUME IInv, [Next]_vars
  PROVE  Pledged'
<1> DEFINE Known(f) == f.open /\ f.pledged # Unknown
           max == maxBlockSize(opts)
<1> USE DEF Waiting, At, Running
<1>1. /\ Waiting /\ TarBlock \in Nat \ {0} /\ fw \in FrameState /\ fw.in \in Nat
      /\ max \in Nat \ {0} /\ max < U64Max /\ minBlockSize(opts) \in Nat /\ U64Max \in Nat
      /\ heldLen \in Nat /\ nullRun \in Nat /\ rd \in Nat /\ Padded(fileSize) \in Nat
      /\ remaining \in Nat /\ push \in [n : Nat, from : Nat] /\ InChunk \in Nat \ {0}
      /\ pc \in Labels
  BY Typed, Sizes, StdinTarAssumption DEF IInv, FrameState, TypeOK
<1>2. Running /\ Known(fw) =>
        /\ minBlockSize(opts) = 0
        /\ pc \in {"nulls", "flushed", "header", "payload"}
        /\ pc \in {"header", "payload"} => ~joinsNextEntry(hdr) /\ ~hasSparseExtension(hdr)
        /\ ElementRest <= U64Max => fw.pledged = IF ElementRest > max THEN max ELSE ElementRest
  BY DEF IInv, Pledged
\* Steps after which no frame has a known size.
<1>3. ASSUME ~Known(fw'), status' # "zstdError" PROVE Pledged'
  BY <1>3 DEF Pledged, PledgeHonoured
\* Steps that only move bytes of the element on.
<1>4. ASSUME status = "running", fw' = fw, opts' = opts, hdr' = hdr,
             status' # "zstdError", ElementRest' = ElementRest,
             \/ pc' = pc \/ pc' = "flushed"
             \/ pc = "header" /\ (pc' = "payload" \/ hasSparseExtension(hdr))
      PROVE  Pledged'
  BY <1>2, <1>4 DEF Pledged, PledgeHonoured
<1>5. CASE ReadNull \/ ReadHeader \/ ReadEnd \/ Hold \/ ReadSparse
  <2>1. ~Known(fw) /\ fw' = fw /\ status' = "running"
    BY <1>2, <1>5 DEF ReadNull, ReadHeader, ReadEnd, Hold, ReadSparse
  <2> QED
    BY <1>3, <2>1
<1>6. CASE \/ RejectPartial \/ RejectHeader \/ RejectTruncated \/ Finish \/ IOError
  BY <1>6 DEF RejectPartial, RejectHeader, RejectTruncated, Finish, IOError, Exit,
     Pledged, PledgeHonoured
<1>7. CASE FlushHeld
  <2>1. PICK g : g = startElementFrame(fw, opts, heldLen + nullRun)
    OBVIOUS
  <2>2. \/ g = fw
        \/ /\ ~fw.open /\ minBlockSize(opts) = 0 /\ g.open /\ g.in = 0
           /\ g.pledged = IF heldLen + nullRun > max THEN max ELSE heldLen + nullRun
    BY <1>1, <2>1, StartElementFacts
  <2>3. fw' = g /\ status' = "running" /\ opts' = opts /\ pc' = "nulls" /\ ~Known(fw)
    BY <1>2, <1>7, <2>1 DEF FlushHeld, given
  <2>4. g.in = 0 => ElementRest' = heldLen + nullRun
    BY <1>1, <1>7, <2>3 DEF FlushHeld, PushHeld, ElementRest
  <2>5. CASE g = fw
    BY <1>3, <2>3, <2>5
  <2>6. CASE g # fw
    BY <2>2, <2>3, <2>4, <2>6 DEF Pledged, PledgeHonoured
  <2> QED
    BY <2>5, <2>6
<1>8. CASE FlushNulls
  <2>1. ElementRest' = ElementRest
    BY <1>1, <1>8 DEF FlushNulls, ElementRest
  <2> QED
    BY <1>4, <1>8, <2>1 DEF FlushNulls, given
<1>9. CASE EndFlush
  <2>1. CASE fw.open /\ fw.in >= minBlockSize(opts)
    <3>1. status' = "running" /\ ~fw'.open
      BY <1>1, <1>9, <2>1, EndElementFacts DEF EndFlush
    <3> QED
      BY <1>3, <3>1
  <2>2. CASE ~(fw.open /\ fw.in >= minBlockSize(opts))
    <3>1. ~Known(fw) /\ fw' = fw /\ status' = "running"
      BY <1>1, <1>2, <1>9, <2>2 DEF EndFlush
    <3> QED
      BY <1>3, <3>1
  <2> QED
    BY <2>1, <2>2
<1>10. CASE BeginEntry
  <2> DEFINE size == heldLen + TarBlock + Padded(fileSize)
  <2>1. size \in Nat /\ U64Max + 1 \in Nat \ {0}
    BY <1>1
  <2>2. elementSize \in Nat /\ (size <= U64Max => elementSize = size)
    <3> HIDE DEF size
    <3>1. PICK m \in Nat \ {0} : m = U64Max + 1
      BY <2>1
    <3>2. size % m \in 0 .. m - 1 /\ (size < m => size % m = size)
      BY <2>1, ModFacts
    <3>3. size <= U64Max => size < m
      BY <1>1, <2>1, <3>1
    <3>4. elementSize = size % m
      BY <3>1 DEF elementSize, size
    <3> QED
      BY <3>1, <3>2, <3>3, <3>4
  <2>3. PICK g : g = startElementFrame(fw, opts, elementSize)
    OBVIOUS
  <2>4. \/ g = fw
        \/ /\ ~fw.open /\ minBlockSize(opts) = 0 /\ g.open /\ g.in = 0
           /\ g.pledged = IF elementSize > max THEN max ELSE elementSize
    BY <2>2, <2>3, StartElementFacts
  <2>5. /\ status' = "running" /\ opts' = opts /\ pc' = "header" /\ ~Known(fw) /\ hdr' = hdr
        /\ fw' = IF joinsNextEntry(hdr) \/ hasSparseExtension(hdr) THEN fw ELSE g
    BY <1>2, <1>10, <2>3 DEF BeginEntry, given
  <2>6. fw'.in = 0 => ElementRest' = size
    BY <1>1, <1>10, <2>5 DEF BeginEntry, PushHeld, ElementRest
  <2>7. CASE fw' = fw
    BY <1>3, <2>5, <2>7
  <2>8. CASE fw' # fw
    <3> HIDE DEF size
    <3> QED
      BY <2>1, <2>2, <2>4, <2>5, <2>6, <2>8 DEF Pledged, PledgeHonoured
  <2> QED
    BY <2>7, <2>8
<1>11. CASE PushHeader
  <2>1. ElementRest' = ElementRest
    BY <1>1, <1>11 DEF PushHeader, ElementRest
  <2> QED
    BY <1>4, <1>11, <2>1 DEF PushHeader, given
<1>12. CASE ReadPayload
  <2>1. chunk \in Nat /\ chunk <= remaining
    BY <1>1 DEF chunk
  <2>2. ElementRest' = ElementRest
    BY <1>1, <1>12, <2>1 DEF ReadPayload, ElementRest
  <2> QED
    BY <1>4, <1>12, <2>2 DEF ReadPayload, given
<1>13. CASE EndEntry
  <2>1. CASE ~joinsNextEntry(hdr) /\ fw.open /\ fw.in >= minBlockSize(opts)
    <3>1. status' = "running" /\ ~fw'.open
      BY <1>1, <1>13, <2>1, EndElementFacts DEF EndEntry
    <3> QED
      BY <1>3, <3>1
  <2>2. CASE ~(~joinsNextEntry(hdr) /\ fw.open /\ fw.in >= minBlockSize(opts))
    <3>1. ~Known(fw) /\ fw' = fw /\ status' = "running"
      BY <1>1, <1>2, <1>13, <2>2 DEF EndEntry
    <3> QED
      BY <1>3, <3>1
  <2> QED
    BY <2>1, <2>2
<1>14. CASE Push
  <2>1. PICK f : f = Filled
    OBVIOUS
  <2>2. PICK k : k = canWrite(push.n)
    OBVIOUS
  <2>3. /\ k \in 1 .. push.n /\ f.open /\ f.in = f.zin /\ f.in \in 1 .. max
        /\ f.in = k + (IF fw.open THEN fw.in ELSE 0)
        /\ f.pledged = (IF fw.open THEN fw.pledged ELSE Unknown)
    BY <1>14, <2>1, <2>2, FilledFacts DEF Push
  <2>4. /\ push'.n = push.n - k
        /\ \/ status' = "running" /\ fw' = f
           \/ status' = "running" /\ ~fw'.open
           \/ /\ status' = "zstdError" /\ fw' = f
              /\ Overfed(f) \/ (f.in >= max /\ PledgeBroken(f))
    BY <1>14, <2>1, <2>2, PushFacts
  <2>5. /\ status = "running" /\ pc' = pc /\ opts' = opts /\ hdr' = hdr
        /\ nullRun' = nullRun /\ remaining' = remaining
    BY <1>14 DEF Push, given
  <2>6. CASE ~fw'.open
    BY <1>3, <2>3, <2>4, <2>6
  <2>7. CASE fw'.open /\ ~Known(f)
    <3>1. status' = "running" /\ fw' = f
      BY <2>4, <2>7, <2>3 DEF Overfed, PledgeBroken
    <3> QED
      BY <1>3, <2>7, <3>1
  <2>8. CASE fw'.open /\ Known(f)
    <3>1. fw' = f /\ Known(fw) /\ fw.pledged = f.pledged /\ f.in = fw.in + k
      BY <1>1, <2>3, <2>4, <2>8
    <3>2. ElementRest' = ElementRest /\ ElementRest \in Nat /\ f.in <= ElementRest
      BY <1>1, <2>3, <2>4, <2>5, <3>1 DEF ElementRest
    <3>3. ElementRest <= U64Max => ~Overfed(f) /\ ~(f.in >= max /\ PledgeBroken(f))
      BY <1>1, <1>2, <2>3, <2>5, <3>1, <3>2 DEF Overfed, PledgeBroken
    <3>4. PledgeHonoured'
      BY <1>1, <2>4, <3>2, <3>3, <2>3 DEF PledgeHonoured
    <3> QED
      BY <1>2, <2>5, <3>1, <3>2, <3>4 DEF Pledged
  <2> QED
    BY <2>6, <2>7, <2>8
<1>15. CASE EndLast
  <2>1. status' = "running" /\ ~fw'.open
    BY <1>1, <1>15, EndElementFacts DEF EndLast
  <2> QED
    BY <1>3, <2>1
<1>16. CASE UNCHANGED vars
  BY <1>16 DEF vars, given, locals, IInv, Pledged, PledgeHonoured, ElementRest
<1> QED
  BY <1>5, <1>6, <1>7, <1>8, <1>9, <1>10, <1>11, <1>12, <1>13, <1>14,
     <1>15, <1>16 DEF Next, Step

(***************************************************************************)
(* The invariant holds at the start, and a step preserves it.              *)
(***************************************************************************)

\* Nothing was read, and nothing waits.
LEMMA InitInv ==
  ASSUME Init
  PROVE  IInv
<1>1. /\ input \in Stream /\ opts \in CommandLine /\ ~opts.raw
      /\ TarBlock \in Nat \ {0} /\ U64Max \in Nat /\ HeldSize \in Nat
  BY ConfigAssumption, TarAssumption, StdinTarAssumption DEF Init
<1>2. Total(input) \in Nat
  BY <1>1 DEF Total, Stream
<1>3. /\ fw \in FrameState /\ ~fw.open /\ fw.ends = <<>> /\ fw.table = <<>>
      /\ Described(fw, opts)
  BY <1>1, NoFramesFacts DEF Init
<1>4. Written(fw) = 0
  BY <1>3 DEF Written, Complete
<1>5. hdr \in Block
  BY <1>1 DEF Init, NullBlock, Block, Types, NoSize
<1>6. TypeOK
  <2>1. status \in Statuses /\ pc \in Labels
    BY DEF Init, Statuses, Labels
  <2>2. push \in [n : Nat, from : Nat] /\ paxNextSize \in 0 .. U64Max
    BY <1>1 DEF Init, Idle, NoSize
  <2> QED
    BY <1>1, <1>3, <1>5, <2>1, <2>2 DEF Init, TypeOK
<1>7. Waiting
  BY <1>1 DEF Init, Waiting, Idle
<1>8. Ordered
  BY <1>4 DEF Init, Ordered, Position, Idle
<1>9. Limited
  BY <1>3 DEF Init, Limited, TableFits
<1>10. Pledged
  BY <1>3 DEF Init, Pledged, PledgeHonoured
<1> QED
  BY <1>6, <1>7, <1>8, <1>9, <1>10 DEF IInv

\* The invariant holds in every state of every run.
LEMMA Inductive == Spec => []IInv
<1>1. Init => IInv
  BY InitInv
<1>2. IInv /\ [Next]_vars => IInv'
  BY TypeStep, WaitingStep, OrderedStep, LimitedStep, PledgedStep DEF IInv
<1> QED
  BY <1>1, <1>2, PTL DEF Spec

(***************************************************************************)
(* What follows from it, for every archive, command line and buffer size.  *)
(***************************************************************************)

\* The locals of compressStdinTar() and the Context keep their types.
THEOREM TypeCorrect == Spec => []TypeOK
<1>1. IInv => TypeOK
  BY DEF IInv
<1> QED
  BY <1>1, Inductive, PTL

\* compressStdinTar() compresses the bytes in the order it read them, and each
\* of them once: none is lost, repeated or overtaken while entries wait in
\* `held' and null blocks in `nullRun'.
THEOREM KeepsOrder == Spec => []InOrder
<1>1. IInv => InOrder
  <2> SUFFICES ASSUME IInv PROVE InOrder
    OBVIOUS
  <2>1. TypeOK /\ Ordered /\ Waiting
    BY DEF IInv
  <2>2. push.n > 0 /\ Running => push.from = Written(fw)
    BY <2>1 DEF Ordered
  <2>3. At("read") => Written(fw) + heldLen + nullRun = rd
    <3>1. Written(fw) \in Nat /\ heldLen \in Nat /\ nullRun \in Nat
      BY Typed
    <3> QED
      BY <2>1, <3>1 DEF Ordered, At, Running, Position
  <2> QED
    BY <2>2, <2>3 DEF InOrder, Running
<1> QED
  BY <1>1, Inductive, PTL

\* No frame ends with another size than startElementFrame() pledged to libzstd,
\* so that libzstd fails no run for that, unless the element has 2^64 bytes.
THEOREM KeepsPledge == Spec => []PledgeHonoured
<1>1. IInv => PledgeHonoured
  BY DEF IInv, Pledged
<1> QED
  BY <1>1, Inductive, PTL

\* Every frame pushBytesTar() and endFrameAndRecord() complete is recorded with
\* at least a byte and no more than maxBlockSize, and a run that succeeds has
\* the whole input in its frames.
THEOREM FramesFit == Spec => []FrameLimit
<1>1. IInv => FrameLimit
  BY DEF IInv, Limited, FrameLimit, TableFits, Running
<1> QED
  BY <1>1, Inductive, PTL

\* The entries that wait never overflow the buffer `held'.
THEOREM HeldNeverOverflows == Spec => []HeldFits
<1>1. IInv => HeldFits
  BY DEF IInv, Waiting, HeldFits
<1> QED
  BY <1>1, Inductive, PTL

\* A run that succeeds has a seek table that describes every frame it wrote, or
\* none, with -j or when there are too many frames, whatever the order in which
\* frames were opened, pledged, filled and ended.
THEOREM TableDescribesFrames == Spec => []SeekTableDescribesFrames
<1>1. IInv => SeekTableDescribesFrames
  BY DEF IInv, Limited, Described, SeekTableDescribesFrames
<1> QED
  BY <1>1, Inductive, PTL

(***************************************************************************)
(* compressStdinTar() writes the frames of Framing.                        *)
(***************************************************************************)

\* The loop is within an entry: after its header was taken, until its end.
InEntry == pc \in {"header", "sparse", "payload"}

\* The parser knows the layout up to byte `idx', with the frames at `from'.
Seen(idx, pax, from) ==
  /\ <<idx, pax>> \in Places(input)
  /\ ParsedTo(idx, pax, idx \notin layout.ends, from)

\* An element that ended at `idx' did not make the frame large enough.
Settled(idx, from) ==
  idx \in layout.ends /\ from < idx => idx < from + minBlockSize(opts)

\* Between two entries.  A run of null blocks goes on while the next block is
\* one, and is compressed once an element ended with it.
Between(from) ==
  /\ Seen(Position, paxNextSize, from)
  /\ pc \in {"read", "entry"} /\ nullRun = 0 => Settled(Position, from)
  /\ pc = "read" /\ nullRun > 0 =>
       (Position \in layout.ends <=> ~IsNullBlock(input, Position))
  /\ pc # "read" /\ ~eof =>
       /\ HasBlock(input, Position) /\ hdr = BlockAt(input, Position)
       /\ ~isZeroTarBlock(hdr)
       /\ pc # "entry" => Position \in layout.ends

\* Within the entry whose header, at byte `h', was given the size `pax' if any:
\* what was read of it, and what paxSize() found.
Reading(h, pax) ==
  /\ HasBlock(input, h) /\ hdr = BlockAt(input, h)
  /\ isTarHeader(hdr) /\ ~TooLarge(tarEntrySize(hdr, pax)) /\ rd <= Total(input)
  /\ pc # "payload" => remaining = Padded(tarEntrySize(hdr, pax))
  /\ pc = "header" => rd = h + TarBlock
  /\ pc = "sparse" => /\ hasSparseExtension(hdr)
                      /\ \E j \in 1 .. Extents(input, h) : rd = h + j * TarBlock
  /\ pc = "payload" => rd + remaining = EntryEnd(input, h, pax)
  /\ hdr.type = "x" =>
       Padded(hdr.size) \in 1 .. InChunk /\ remaining \in {0, Padded(hdr.size)}
  /\ paxNextSize = IF hdr.type = "x" /\ remaining = 0 THEN PaxNext(input, h, pax)
                   ELSE PaxLeft(hdr, pax)

Within(h, pax, from) == Seen(h, pax, from) /\ Settled(h, from) /\ Reading(h, pax)

\* A pax header that does not wait in `held' has data, which one chunk holds:
\* compressStdinTar() looks for a size in no other.
PaxSearched ==
  At("entry") /\ ValidHeader /\ ~IsHeld /\ hdr.type = "x" => Padded(hdr.size) \in 1 .. InChunk

\* What the loop knows of the layout.
Known ==
  Running => IF InEntry THEN \E h, pax : Within(h, pax, Complete(fw))
             ELSE Between(Complete(fw))

PInv ==
  /\ Given /\ Total(input) + TarBlock <= U64Max
  /\ fw.ends # <<>> => Complete(fw) > 0
  /\ Known

\* How a step gets to the next place between entries ...
LEMMA BetweenNext ==
  ASSUME UNCHANGED given, ~InEntry', NEW p, p = Position', NEW pax, pax = paxNextSize',
         NEW from, from = Complete(fw'), Seen(p, pax, from),
         pc' \in {"read", "entry"} /\ nullRun' = 0 => Settled(p, from),
         pc' = "read" /\ nullRun' > 0 => (p \in layout.ends <=> ~IsNullBlock(input, p)),
         pc' # "read" /\ ~eof' =>
           /\ HasBlock(input, p) /\ hdr' = BlockAt(input, p) /\ ~isZeroTarBlock(hdr')
           /\ pc' # "entry" => p \in layout.ends
  PROVE  Known'
<1>1. input' = input /\ layout' = layout /\ opts' = opts
  BY DEF given
<1>2. Seen(Position, paxNextSize, Complete(fw))'
  BY <1>1 DEF Seen, ParsedTo
<1>3. (pc \in {"read", "entry"} /\ nullRun = 0 => Settled(Position, Complete(fw)))'
  BY <1>1 DEF Settled
<1> QED
  BY <1>1, <1>2, <1>3 DEF Known, Between

\* ... and within one.
LEMMA WithinNext ==
  ASSUME UNCHANGED given, InEntry', NEW h, NEW pax,
         NEW from, from = Complete(fw'), Seen(h, pax, from), Settled(h, from),
         Reading(h, pax)'
  PROVE  Known'
<1>1. input' = input /\ layout' = layout /\ opts' = opts
  BY DEF given
<1>2. Seen(h, pax, Complete(fw))' /\ Settled(h, Complete(fw))'
  BY <1>1 DEF Seen, ParsedTo, Settled
<1> QED
  BY <1>2 DEF Known, Within

\* A frame that ends after the last element that could end it lets the parser
\* know what it knew.
LEMMA SeenFrom ==
  ASSUME Given, NEW idx, NEW pax, NEW from \in Nat, NEW to \in Nat, Seen(idx, pax, from),
         to = from \/ to >= from + minBlockSize(opts) \/ to >= idx
  PROVE  /\ Seen(idx, pax, to) /\ idx \in Nat
         /\ to = from \/ to >= from + minBlockSize(opts) =>
              (Settled(idx, from) => Settled(idx, to))
<1>1. idx \in Nat /\ minBlockSize(opts) \in Nat
  BY PlaceFacts, TotalType, BlockSizes DEF Seen, Given
<1>2. Seen(idx, pax, to)
  BY <1>1, ParsedFrom DEF Seen
<1>3. to = from \/ to >= from + minBlockSize(opts) => (Settled(idx, from) => Settled(idx, to))
  BY <1>1 DEF Settled
<1> QED
  BY <1>1, <1>2, <1>3

\* The parser goes on over an entry or a null block.
LEMMA SeenOn ==
  ASSUME Given, NEW idx, NEW pax, NEW from \in Nat, Seen(idx, pax, from), Settled(idx, from),
         NEW end, NEW next, NEW join, Leads(input, idx, pax, end, next, join)
  PROVE  /\ Seen(end, next, from) /\ end \in Nat /\ end > idx
         /\ end \in layout.ends <=> ~join
<1>1. idx \in Nat /\ minBlockSize(opts) \in Nat
  BY PlaceFacts, TotalType, BlockSizes DEF Seen, Given
<1>2. end \in Nat /\ end > idx /\ <<end, next>> \in Places(input)
  <2>1. input \in Stream
    BY DEF Given
  <2>2. end \in idx + 1 .. Total(input) /\ end \in Nat /\ <<end, next>> \in Places(input)
    BY <2>1, LeadsOn DEF Seen
  <2>3. Total(input) \in Nat
    BY <2>1, TotalType
  <2> QED
    BY <1>1, <2>2, <2>3
<1>3. ParsedTo(end, next, join, from)
  <2>1. from < idx /\ ~(idx \notin layout.ends) => idx < from + minBlockSize(opts)
    BY DEF Settled
  <2> QED
    BY <1>1, <2>1, ParsedOn DEF Seen
<1>4. end \in layout.ends <=> ~join
  <2>1. end > 0
    BY <1>1, <1>2
  <2> QED
    BY <1>3, <2>1, Zenon DEF ParsedTo
<1>5. ParsedTo(end, next, end \notin layout.ends, from)
  BY <1>3, <1>4 DEF ParsedTo
<1> QED
  BY <1>2, <1>4, <1>5 DEF Seen

\* The entry being read: where it ends, that no element ends within it, and
\* that the archive is not whole when it is cut short.
LEMMA ReadingFacts ==
  ASSUME IInv, Given, InEntry, NEW h, NEW pax, NEW from, Within(h, pax, from),
         NEW end, end = EntryEnd(input, h, pax)
  PROVE  /\ h \in Nat /\ pax \in 0 .. U64Max /\ hdr \in Block
         /\ end \in Nat /\ rd + remaining <= end /\ rd <= end /\ Position <= end
         /\ pc = "sparse" => rd + TarBlock <= end
         /\ end = h + TarBlock + SparseExt(input, h) + Padded(tarEntrySize(hdr, pax))
         /\ \A x \in layout.ends : x > h => x >= end
         /\ end > Total(input) => ~layout.whole
         /\ end <= Total(input) =>
              Leads(input, h, pax, end, PaxNext(input, h, pax), joinsNextEntry(hdr))
<1>1. /\ input \in Stream /\ Total(input) \in Nat /\ TarBlock \in Nat \ {0}
      /\ rd \in Nat /\ remaining \in Nat
  BY TotalType, Typed DEF Given
<1>2. /\ h \in Nat /\ pax \in 0 .. U64Max /\ Seen(h, pax, from) /\ Reading(h, pax)
      /\ <<h, pax>> \in Places(input) /\ hdr \in Block
  BY <1>1, PlaceFacts, Typed DEF Within, Seen
<1>3. PICK size \in Nat : size = Padded(tarEntrySize(hdr, pax))
  <2>1. tarEntrySize(hdr, pax) \in Nat
    BY <1>2, EntrySizeType, TarAssumption
  <2> QED
    BY <2>1, PaddedNat
<1>4. PICK ext \in Nat : ext = SparseExt(input, h)
  BY <1>1, <1>2, SparseExtNat
<1>5. end = h + TarBlock + ext + size /\ end \in Nat
  BY <1>1, <1>2, <1>3, <1>4 DEF EntryEnd, Reading
<1>6. /\ rd + remaining <= end /\ rd <= end /\ Position <= end
      /\ pc = "sparse" => rd + TarBlock <= end
  <2>1. CASE pc = "header"
    BY <1>1, <1>2, <1>3, <1>5, <2>1 DEF Reading, Position
  <2>2. CASE pc = "payload"
    BY <1>1, <1>2, <1>5, <2>2 DEF Reading, Position
  <2>3. CASE pc = "sparse"
    <3>1. PICK n \in Nat : n = Extents(input, h)
      BY <1>1, <1>2, ExtentsFacts
    <3>2. PICK j \in 1 .. n : rd = h + j * TarBlock
      BY <1>2, <2>3, <3>1 DEF Reading
    <3>3. ext = TarBlock * n /\ remaining = size
      BY <1>1, <1>2, <1>3, <1>4, <2>3, <3>1, ExtentsFacts DEF Reading
    <3>4. j * TarBlock <= TarBlock * n
      BY <1>1, <3>1
    <3>5. j * TarBlock \in Nat /\ TarBlock * n \in Nat
      BY <1>1, <3>1
    <3>6. rd + TarBlock + remaining <= end
      BY <1>1, <1>2, <1>3, <1>5, <3>2, <3>3, <3>4, <3>5
    <3> QED
      BY <1>1, <1>5, <2>3, <3>6 DEF Position
  <2> QED
    BY <2>1, <2>2, <2>3 DEF InEntry
<1>7. /\ HasBlock(input, h) /\ ~IsNullBlock(input, h)
      /\ IsWholeEntry(input, h, pax) <=> end <= Total(input)
  BY <1>2 DEF Reading, IsWholeEntry, IsNullBlock, isTarHeader, isZeroTarBlock
<1>8. CASE end <= Total(input)
  <2>1. Leads(input, h, pax, end, PaxNext(input, h, pax), joinsNextEntry(hdr))
    BY <1>2, <1>7, <1>8 DEF Leads, Reading
  <2>2. \A x \in layout.ends : x > h => x >= end
    <3>1. PICK later : later = Rest(input)[<<end, PaxNext(input, h, pax)>>]
      OBVIOUS
    <3>2. AddsEnd(Rest(input)[<<h, pax>>], later, end, joinsNextEntry(hdr))
      BY <1>1, <1>2, <2>1, <3>1, RestLeads
    <3>3. later.ends \subseteq end + 1 .. Total(input)
      <4>1. <<end, PaxNext(input, h, pax)>> \in Places(input)
        BY <1>1, <1>2, <2>1, LeadsOn
      <4> QED
        BY <1>1, <3>1, <4>1, RestType DEF Layouts
    <3>4. ASSUME NEW x \in layout.ends, x > h
          PROVE  x >= end
      <4>1. x \in Nat
        BY LayoutType, TotalType DEF Given, Layouts
      <4>2. x \in Rest(input)[<<h, pax>>].ends
        BY <1>2, <3>4, <4>1 DEF Seen, ParsedTo
      <4>3. x \in later.ends \/ x = end
        BY <3>2, <4>2 DEF AddsEnd
      <4> QED
        BY <1>1, <1>5, <3>3, <4>3
    <3> QED
      BY <3>4
  <2> QED
    BY <1>1, <1>2, <1>3, <1>4, <1>5, <1>6, <1>8, <2>1, <2>2
<1>9. CASE ~(end <= Total(input))
  <2>1. /\ layout.whole <=> h = Total(input)
        /\ \A x \in Nat : x > h => x \notin layout.ends
    <3>1. ~IsNullBlock(input, h) /\ ~IsWholeEntry(input, h, pax)
      BY <1>7, <1>9
    <3>2. ParsedTo(h, pax, h \notin layout.ends, from)
      BY <1>2 DEF Seen
    <3> QED
      BY <1>2, <3>1, <3>2, ParserStops
  <2>2. h # Total(input)
    BY <1>1, <1>2, <1>7 DEF HasBlock
  <2>3. \A x \in layout.ends : x \in Nat
    BY LayoutType, TotalType DEF Given, Layouts
  <2> QED
    BY <1>2, <1>3, <1>4, <1>5, <1>6, <1>9, <2>1, <2>2, <2>3
<1> QED
  BY <1>8, <1>9

\* No element that ended among the bytes given to zstd made the frame large
\* enough.
LEMMA Passed ==
  ASSUME IInv, PInv, Running
  PROVE  \A x \in layout.ends :
           Complete(fw) < x /\ x < Position => x < Complete(fw) + minBlockSize(opts)
<1>1. \A x \in layout.ends : x \in Nat
  BY LayoutType, TotalType DEF PInv, Given, Layouts
<1>2. CASE ~InEntry
  BY <1>2 DEF PInv, Known, Between, Seen, ParsedTo
<1>3. CASE InEntry
  <2>1. PICK h, pax : Within(h, pax, Complete(fw))
    BY <1>3 DEF PInv, Known
  <2>2. PICK end : end = EntryEnd(input, h, pax)
    OBVIOUS
  <2>3. /\ h \in Nat /\ end \in Nat /\ Position <= end
        /\ \A x \in layout.ends : x > h => x >= end
    BY <1>3, <2>1, <2>2, ReadingFacts DEF PInv
  <2>4. rd \in Nat /\ TarBlock \in Nat
    BY Typed, TarAssumption
  <2>5. ASSUME NEW x \in layout.ends, Complete(fw) < x, x < Position
        PROVE  x < Complete(fw) + minBlockSize(opts)
    <3>1. ~(x > h)
      BY <1>1, <2>3, <2>4, <2>5 DEF Position
    <3>2. CASE x = h
      BY <2>1, <2>5, <3>2 DEF Within, Settled
    <3>3. CASE x < h
      BY <2>1, <2>5, <3>3 DEF Within, Seen, ParsedTo
    <3> QED
      BY <1>1, <2>3, <3>1, <3>2, <3>3
  <2> QED
    BY <2>5
<1> QED
  BY <1>2, <1>3

\* Between two entries the parser is at byte Position.
LEMMA BetweenFacts ==
  ASSUME IInv, PInv, Running, ~InEntry
  PROVE  /\ Given /\ Between(Complete(fw)) /\ Complete(fw) \in Nat
         /\ Position \in Nat /\ rd \in Nat /\ TarBlock \in Nat \ {0}
         /\ Seen(Position, paxNextSize, Complete(fw))
         /\ <<Position, paxNextSize>> \in Places(input)
         /\ ParsedTo(Position, paxNextSize, Position \notin layout.ends, Complete(fw))
         /\ paxNextSize \in 0 .. U64Max /\ hdr \in Block /\ input \in Stream
         /\ Total(input) \in Nat
<1>1. Given /\ Between(Complete(fw))
  BY DEF PInv, Known
<1>2. Seen(Position, paxNextSize, Complete(fw))
  BY <1>1 DEF Between
<1>3. /\ Complete(fw) \in Nat /\ rd \in Nat /\ paxNextSize \in 0 .. U64Max /\ hdr \in Block
      /\ input \in Stream
  BY Typed, CompleteType
<1>4. Position \in Nat /\ Total(input) \in Nat /\ TarBlock \in Nat \ {0}
  BY <1>1, <1>2, PlaceFacts, TotalType DEF Seen, Given
<1> QED
  BY <1>1, <1>2, <1>3, <1>4 DEF Seen

\* A read of a header, of a null block or of the end of the input.
LEMMA KnownReads ==
  ASSUME IInv, PInv, ReadNull \/ ReadHeader \/ ReadEnd
  PROVE  Known'
<1> DEFINE C == Complete(fw)
<1>1. /\ Running /\ ~InEntry /\ pc = "read" /\ Position = rd /\ UNCHANGED given /\ fw' = fw
      /\ nullRun \in Nat /\ ~eof /\ paxNextSize' = paxNextSize
  BY Typed DEF ReadNull, ReadHeader, ReadEnd, At, Running, InEntry, Position, IInv, Waiting
<1>2. /\ Given /\ Between(C) /\ C \in Nat /\ rd \in Nat /\ TarBlock \in Nat \ {0}
      /\ Seen(rd, paxNextSize, C) /\ input \in Stream
      /\ Complete(fw') = C /\ rd + TarBlock - TarBlock = rd
  BY <1>1, BetweenFacts
<1> HIDE DEF C
<1>3. /\ nullRun = 0 => Settled(rd, C)
      /\ nullRun > 0 => (rd \in layout.ends <=> ~IsNullBlock(input, rd))
  BY <1>1, <1>2 DEF Between
<1>4. CASE ReadNull
  <2> DEFINE end == rd + TarBlock
             join == IsNullBlock(input, end)
  <2>1. /\ IsNullBlock(input, rd) /\ rd' = end /\ pc' = "read" /\ nullRun' = nullRun + TarBlock
    BY <1>1, <1>4 DEF ReadNull, IsNullBlock
  <2>2. Settled(rd, C)
    <3>1. CASE nullRun = 0
      BY <1>3, <3>1
    <3>2. CASE nullRun > 0
      BY <1>3, <2>1, <3>2 DEF Settled
    <3> QED
      BY <1>1, <3>1, <3>2
  <2>3. Leads(input, rd, paxNextSize, end, paxNextSize, join)
    BY <2>1 DEF Leads
  <2>4. Seen(end, paxNextSize, C) /\ (end \in layout.ends <=> ~join)
    BY <1>2, <2>2, <2>3, SeenOn
  <2>5. Position' = end /\ ~InEntry' /\ ~(nullRun' = 0)
    BY <1>1, <1>2, <2>1 DEF Position, InEntry
  <2> HIDE DEF end
  <2> QED
    BY <1>1, <1>2, <2>1, <2>4, <2>5, BetweenNext
<1>5. CASE ReadHeader
  <2>1. /\ HasBlock(input, rd) /\ ~isZeroTarBlock(BlockAt(input, rd)) /\ rd' = rd + TarBlock
        /\ hdr' = BlockAt(input, rd) /\ nullRun' = nullRun /\ eof' = eof
        /\ pc' = IF nullRun > 0 THEN "flush" ELSE "entry"
    BY <1>5 DEF ReadHeader
  <2>2. Position' = rd /\ ~InEntry'
    BY <1>1, <1>2, <2>1 DEF Position, InEntry
  <2>3. pc' # "entry" => rd \in layout.ends
    BY <1>1, <1>3, <2>1 DEF IsNullBlock
  <2>4. pc' = "entry" => nullRun = 0
    BY <1>1, <2>1
  <2>5. pc' # "read"
    BY <2>1
  <2> QED
    BY <1>1, <1>2, <1>3, <2>1, <2>2, <2>3, <2>4, <2>5, BetweenNext
<1>6. CASE ReadEnd
  <2>1. rd' = rd /\ eof' = TRUE /\ pc' \in {"flush", "finish"}
    BY <1>6 DEF ReadEnd
  <2>2. Position' = rd /\ ~InEntry' /\ pc' # "read" /\ pc' # "entry" /\ eof'
    BY <2>1 DEF Position, InEntry
  <2> QED
    BY <1>1, <1>2, <2>2, BetweenNext
<1> QED
  BY <1>4, <1>5, <1>6

\* The null blocks, and the entries held before them, are compressed.
LEMMA KnownFlushes ==
  ASSUME IInv, PInv, FlushHeld \/ FlushNulls \/ EndFlush
  PROVE  Known' /\ Complete(fw') \in Nat
<1> DEFINE C == Complete(fw)
           D == Complete(fw')
<1>1. /\ Running /\ ~InEntry /\ pc \in {"flush", "nulls", "flushed"} /\ UNCHANGED given
      /\ nullRun \in Nat /\ heldLen \in Nat /\ UNCHANGED <<rd, eof, hdr, paxNextSize>>
      /\ push.n = 0 /\ Waiting /\ Ordered /\ eof \in BOOLEAN
  BY Typed DEF FlushHeld, FlushNulls, EndFlush, At, Running, InEntry, IInv, TypeOK
<1>2. /\ Given /\ Between(C) /\ C \in Nat /\ Position \in Nat
      /\ Seen(Position, paxNextSize, C) /\ minBlockSize(opts) \in Nat
  BY <1>1, BetweenFacts, BlockSizes DEF Given
<1>3. ~eof => /\ HasBlock(input, Position) /\ hdr = BlockAt(input, Position)
              /\ ~isZeroTarBlock(hdr) /\ Position \in layout.ends
  BY <1>1, <1>2 DEF Between
<1>4. PICK p \in Nat : p = Position
  BY <1>2
<1>5. CASE FlushHeld \/ FlushNulls
  <2>1. D = C
    <3>1. heldLen + nullRun \in Nat
      BY <1>1
    <3> QED
      BY <1>5, <3>1, StartElementFacts DEF FlushHeld, FlushNulls
  <2>2. pc' \in {"nulls", "flushed"} /\ Position' = p /\ ~InEntry'
    BY <1>1, <1>4, <1>5 DEF FlushHeld, FlushNulls, Position, InEntry
  <2> HIDE DEF C, D
  <2>3. pc' # "read" /\ pc' # "entry" /\ (eof' <=> eof)
    BY <1>1, <2>2
  <2> USE DEF D
  <2>4. Known'
    BY <1>1, <1>2, <1>3, <1>4, <2>1, <2>2, <2>3, BetweenNext
  <2> QED
    BY <1>2, <2>1, <2>4
<1>6. CASE EndFlush
  <2>1. /\ pc = "flushed" /\ pc' = (IF eof THEN "finish" ELSE "entry") /\ nullRun = 0
        /\ heldLen = 0 /\ remaining = 0
        /\ IF fw.open /\ fw.in >= minBlockSize(opts) THEN EndFrame(fw) ELSE UNCHANGED <<fw, status>>
    BY <1>1, <1>6 DEF EndFlush, At, Waiting
  <2>2. Position' = p /\ ~InEntry' /\ Written(fw) = p
    <3>1. Position' = p /\ ~InEntry'
      BY <1>1, <1>4, <2>1 DEF Position, InEntry
    <3>2. Written(fw) \in Nat /\ Written(fw) + push.n + heldLen + nullRun = Position
      BY <1>1, Typed DEF Ordered
    <3> QED
      BY <1>1, <1>4, <2>1, <3>1, <3>2
  <2>3. /\ D \in Nat /\ (D = C \/ D >= C + minBlockSize(opts))
        /\ D < p => p < D + minBlockSize(opts)
    <3>1. CASE fw.open /\ fw.in >= minBlockSize(opts)
      <4>1. D = p /\ p = C + fw.in /\ fw.in \in Nat
        BY <1>1, <2>1, <2>2, <3>1, EndElementFacts, Typed DEF Running, FrameState
      <4> QED
        BY <1>2, <1>4, <3>1, <4>1
    <3>2. CASE ~(fw.open /\ fw.in >= minBlockSize(opts))
      <4>1. D = C
        BY <2>1, <3>2
      <4>2. fw.open => p = C + fw.in /\ fw.in \in Nat
        BY <1>1, <2>2, Typed DEF Written, IInv, Limited, FrameState
      <4>3. ~fw.open => p = C
        BY <1>2, <2>2 DEF Written
      <4> QED
        BY <1>2, <1>4, <3>2, <4>1, <4>2, <4>3
    <3> QED
      BY <3>1, <3>2
  <2> HIDE DEF C, D
  <2>4. Seen(p, paxNextSize, D) /\ Settled(p, D)
    BY <1>2, <1>4, <2>3, SeenFrom DEF Settled
  <2>5. pc' # "read" /\ (pc' = "entry" => ~eof) /\ (eof' <=> eof) /\ (pc' # "entry" => eof)
    BY <1>1, <2>1
  <2> USE DEF D
  <2>6. Known'
    BY <1>1, <1>3, <1>4, <2>2, <2>4, <2>5, BetweenNext
  <2> QED
    BY <2>3, <2>6
<1> QED
  BY <1>5, <1>6

\* A header is taken: the entry waits in `held', or is compressed.
LEMMA KnownEntries ==
  ASSUME IInv, PInv, PaxSearched, Hold \/ BeginEntry
  PROVE  Known'
<1> DEFINE C == Complete(fw)
<1>1. /\ Running /\ ~InEntry /\ pc = "entry" /\ Position = rd - TarBlock /\ UNCHANGED given
      /\ hdr' = hdr /\ nullRun = 0 /\ ~eof /\ At("entry") /\ ValidHeader
      /\ UNCHANGED <<nullRun, eof>>
  BY DEF Hold, BeginEntry, At, Running, InEntry, Position, IInv, Waiting
<1>2. /\ Given /\ Between(C) /\ C \in Nat /\ Position \in Nat /\ rd \in Nat
      /\ TarBlock \in Nat \ {0} /\ Seen(Position, paxNextSize, C)
      /\ <<Position, paxNextSize>> \in Places(input)
      /\ input \in Stream /\ Total(input) \in Nat /\ hdr \in Block
      /\ paxNextSize \in 0 .. U64Max
  BY <1>1, BetweenFacts
<1>3. PICK h \in Nat : h = Position
  BY <1>2
<1>4. /\ rd = h + TarBlock /\ HasBlock(input, h) /\ hdr = BlockAt(input, h)
      /\ ~isZeroTarBlock(hdr) /\ Settled(h, C) /\ Seen(h, paxNextSize, C)
  BY <1>1, <1>2, <1>3 DEF Between
<1>5. /\ isTarHeader(hdr) /\ ~TooLarge(tarEntrySize(hdr, paxNextSize))
      /\ fileSize = tarEntrySize(hdr, paxNextSize)
  BY <1>1 DEF ValidHeader, fileSize
<1>6. PICK size \in Nat : size = Padded(fileSize)
  BY Typed
<1>7. CASE Hold
  <2>1. /\ joinsNextEntry(hdr) /\ ~hasSparseExtension(hdr) /\ rd + size <= Total(input)
        /\ rd' = rd + size /\ fw' = fw /\ pc' = "read"
        /\ paxNextSize' = IF hdr.type = "x" THEN paxSize(input, rd, fileSize)
                          ELSE PaxLeft(hdr, paxNextSize)
    BY <1>6, <1>7 DEF Hold, IsHeld, Available
  <2>2. /\ EntryEnd(input, h, paxNextSize) = rd'
        /\ PaxNext(input, h, paxNextSize) = paxNextSize'
    <3>1. SparseExt(input, h) = 0
      BY <1>4, <2>1 DEF SparseExt
    <3>2. EntryEnd(input, h, paxNextSize) = h + TarBlock + 0 + size
      BY <1>4, <1>5, <1>6, <3>1 DEF EntryEnd
    <3>3. hdr.type = "x" => fileSize = hdr.size
      BY DEF fileSize, tarEntrySize, isExtensionHeader
    <3>4. PaxNext(input, h, paxNextSize) = paxNextSize'
      BY <1>4, <2>1, <3>3 DEF PaxNext
    <3> QED
      BY <1>2, <1>4, <2>1, <3>2, <3>4
  <2>3. PICK end \in Nat : end = rd'
    BY <1>2, <2>1
  <2>4. Leads(input, h, paxNextSize, end, paxNextSize', TRUE)
    <3>1. end <= Total(input)
      BY <2>1, <2>3
    <3>2. IsWholeEntry(input, h, paxNextSize)
      BY <1>4, <1>5, <2>2, <2>3, <3>1 DEF IsWholeEntry
    <3>3. ~IsNullBlock(input, h)
      BY <1>4 DEF IsNullBlock
    <3>4. joinsNextEntry(BlockAt(input, h)) = TRUE
      <4>1. joinsNextEntry(hdr) \in BOOLEAN
        BY <1>2 DEF joinsNextEntry, isExtensionHeader, Block
      <4> QED
        BY <1>4, <2>1, <4>1
    <3> QED
      BY <1>4, <2>2, <2>3, <3>2, <3>3, <3>4 DEF Leads
  <2>5. Seen(end, paxNextSize', C) /\ end \notin layout.ends
    BY <1>2, <1>3, <1>4, <2>4, SeenOn
  <2>6. Position' = end /\ ~InEntry' /\ ~(nullRun' > 0) /\ Settled(end, C)
    BY <1>1, <2>1, <2>3, <2>5 DEF Position, InEntry, Settled
  <2>7. Complete(fw') = C
    BY <2>1
  <2> HIDE DEF C
  <2> QED
    BY <1>1, <2>1, <2>5, <2>6, <2>7, BetweenNext
<1>8. CASE BeginEntry
  <2>1. /\ ~IsHeld /\ rd' = rd /\ pc' = "header" /\ remaining' = size
        /\ paxNextSize' = PaxLeft(hdr, paxNextSize)
    BY <1>6, <1>8 DEF BeginEntry
  <2>2. Complete(fw') = C
    <3>1. elementSize \in Nat
      BY ElementSizeType
    <3> QED
      BY <1>8, <3>1, StartElementFacts DEF BeginEntry
  <2>3. hdr.type = "x" => fileSize = hdr.size /\ size \in 1 .. InChunk
    <3>1. hdr.type = "x" => fileSize = hdr.size
      BY DEF fileSize, tarEntrySize, isExtensionHeader
    <3> QED
      BY <1>1, <1>6, <2>1, <3>1 DEF PaxSearched
  <2>4. PICK pax : pax = paxNextSize
    OBVIOUS
  <2>5. /\ hdr.type = "x" => size # 0 /\ size = Padded(hdr.size)
        /\ input' = input /\ rd <= Total(input)
    BY <1>1, <1>4, <1>6, <2>3 DEF given, HasBlock
  <2>6. Reading(h, pax)'
    BY <1>1, <1>4, <1>5, <1>6, <2>1, <2>3, <2>4, <2>5 DEF Reading
  <2>7. InEntry'
    BY <2>1 DEF InEntry
  <2>8. Seen(h, pax, C) /\ Settled(h, C)
    BY <1>4, <2>4
  <2> HIDE DEF C
  <2> QED
    BY <1>1, <2>2, <2>6, <2>7, <2>8, WithinNext
<1> QED
  BY <1>7, <1>8

\* The entry is read on: its header, a sparse map block or a chunk.
LEMMA KnownReadsOn ==
  ASSUME IInv, PInv, PushHeader \/ ReadSparse \/ ReadPayload
  PROVE  Known'
<1> DEFINE C == Complete(fw)
<1>1. /\ Running /\ InEntry /\ InEntry' /\ UNCHANGED given /\ hdr' = hdr /\ input' = input
      /\ Complete(fw') = C
  BY DEF PushHeader, ReadSparse, ReadPayload, At, Running, InEntry, given
<1>2. PICK h, pax : Within(h, pax, C)
  BY <1>1 DEF PInv, Known
<1> HIDE DEF C
<1>3. /\ h \in Nat /\ pax \in 0 .. U64Max /\ rd \in Nat /\ remaining \in Nat
      /\ TarBlock \in Nat \ {0} /\ input \in Stream /\ hdr \in Block
      /\ Seen(h, pax, C) /\ Settled(h, C)
  BY <1>1, <1>2, Typed, TarAssumption, TotalType, PlaceFacts DEF Within, Seen
<1>4. /\ HasBlock(input, h) /\ hdr = BlockAt(input, h)
      /\ isTarHeader(hdr) /\ ~TooLarge(tarEntrySize(hdr, pax)) /\ rd <= Total(input)
      /\ pc # "payload" => remaining = Padded(tarEntrySize(hdr, pax))
      /\ pc = "header" => rd = h + TarBlock
      /\ pc = "sparse" => /\ hasSparseExtension(hdr)
                          /\ \E j \in 1 .. Extents(input, h) : rd = h + j * TarBlock
      /\ pc = "payload" => rd + remaining = EntryEnd(input, h, pax)
      /\ hdr.type = "x" =>
           Padded(hdr.size) \in 1 .. InChunk /\ remaining \in {0, Padded(hdr.size)}
      /\ paxNextSize = IF hdr.type = "x" /\ remaining = 0 THEN PaxNext(input, h, pax)
                       ELSE PaxLeft(hdr, pax)
  BY <1>2 DEF Within, Reading
<1>5. PICK size \in Nat : size = Padded(tarEntrySize(hdr, pax))
  BY <1>3, EntrySizeType, PaddedNat, TarAssumption
<1>6. PICK n \in Nat \ {0} : n = Extents(input, h)
  BY <1>3, ExtentsFacts
<1>7. PICK ext \in Nat : ext = SparseExt(input, h)
  BY <1>3, SparseExtNat
<1>8. PICK end \in Nat : end = EntryEnd(input, h, pax) /\ end = h + TarBlock + ext + size
  BY <1>3, <1>4, <1>5, <1>7 DEF EntryEnd
<1>9. ext = IF hasSparseExtension(hdr) THEN TarBlock * n ELSE 0
  BY <1>3, <1>4, <1>6, <1>7, ExtentsFacts
<1>10. CASE PushHeader
  <2>1. /\ pc = "header" /\ UNCHANGED <<rd, remaining, paxNextSize>>
        /\ pc' = IF hasSparseExtension(hdr) THEN "sparse" ELSE "payload"
    BY <1>10 DEF PushHeader, At
  <2>2. rd = h + 1 * TarBlock /\ 1 \in 1 .. n /\ remaining = size
    BY <1>3, <1>4, <1>5, <1>6, <2>1
  <2>3. pc' = "payload" => rd + remaining = end
    BY <1>3, <1>5, <1>8, <1>9, <2>1, <2>2
  <2>4. Reading(h, pax)'
    BY <1>1, <1>4, <1>6, <1>8, <2>1, <2>2, <2>3 DEF Reading
  <2> QED
    BY <1>1, <1>3, <2>4, WithinNext
<1>11. CASE ReadSparse
  <2>1. /\ pc = "sparse" /\ UNCHANGED <<remaining, paxNextSize>> /\ rd' = rd + TarBlock
        /\ HasBlock(input, rd) /\ rd' <= Total(input)
        /\ pc' = IF BlockAt(input, rd).more THEN "sparse" ELSE "payload"
    BY <1>11 DEF ReadSparse, At, Available, HasBlock
  <2>2. PICK j \in 1 .. n : rd = h + j * TarBlock
    BY <1>4, <1>6, <2>1
  <2>3. j = n <=> ~BlockAt(input, rd).more
    BY <1>3, <1>6, <2>1, <2>2, ExtentsFacts
  <2>4. rd' = h + (j + 1) * TarBlock
    BY <1>3, <1>6, <2>1, <2>2
  <2>5. pc' = "sparse" => j + 1 \in 1 .. n
    BY <1>6, <2>1, <2>2, <2>3
  <2>6. pc' = "payload" => rd' + remaining = end
    <3>1. SUFFICES ASSUME pc' = "payload" PROVE rd' + remaining = end
      OBVIOUS
    <3>2. j = n /\ ext = TarBlock * n /\ remaining = size
      BY <1>4, <1>5, <1>9, <2>1, <2>3, <3>1
    <3>3. PICK m \in Nat : m = TarBlock * n
      BY <1>3, <1>6
    <3>4. rd = h + m
      BY <1>3, <1>6, <2>2, <3>2, <3>3
    <3> QED
      BY <1>3, <1>5, <1>8, <2>1, <3>2, <3>3, <3>4
  <2>7. Reading(h, pax)'
    BY <1>1, <1>4, <1>6, <1>8, <2>1, <2>4, <2>5, <2>6 DEF Reading
  <2> QED
    BY <1>1, <1>3, <2>7, WithinNext
<1>12. CASE ReadPayload
  <2>1. PICK k : k = chunk
    OBVIOUS
  <2>2. /\ pc = "payload" /\ pc' = "payload" /\ rd' = rd + k /\ rd' <= Total(input)
        /\ remaining' = remaining - k
        /\ remaining > 0 /\ k = (IF remaining > InChunk THEN InChunk ELSE remaining)
        /\ paxNextSize' = IF hdr.type = "x" /\ k = Padded(hdr.size)
                          THEN paxSize(input, rd, hdr.size) ELSE paxNextSize
    BY <1>12, <2>1 DEF ReadPayload, At, chunk, Available
  <2>3. k \in Nat /\ rd' + remaining' = end
    BY <1>3, <1>4, <1>8, <2>2, StdinTarAssumption
  <2>4. CASE hdr.type = "x"
    <3>1. tarEntrySize(hdr, pax) = hdr.size /\ ~hasSparseExtension(hdr)
      BY <2>4 DEF tarEntrySize, isExtensionHeader, hasSparseExtension
    <3>2. remaining = size /\ size = Padded(hdr.size) /\ size <= InChunk
      BY <1>4, <1>5, <2>2, <2>4, <3>1
    <3>3. k = size /\ remaining' = 0 /\ rd = h + TarBlock
      BY <1>3, <1>4, <1>5, <1>8, <1>9, <2>2, <3>1, <3>2, StdinTarAssumption
    <3>4. paxNextSize' = PaxNext(input, h, pax)
      BY <1>4, <2>2, <2>4, <3>2, <3>3 DEF PaxNext
    <3> QED
      BY <1>1, <1>3, <1>4, <1>8, <2>2, <2>3, <2>4, <3>3, <3>4, WithinNext DEF Reading
  <2>5. CASE hdr.type # "x"
    <3>1. paxNextSize' = PaxLeft(hdr, pax)
      BY <1>4, <2>2, <2>5
    <3> QED
      BY <1>1, <1>3, <1>4, <1>8, <2>2, <2>3, <2>5, <3>1, WithinNext DEF Reading
  <2> QED
    BY <2>4, <2>5
<1> QED
  BY <1>10, <1>11, <1>12

\* The entry ends, and with it the frame if it is large enough.
LEMMA KnownEndsEntry ==
  ASSUME IInv, PInv, EndEntry
  PROVE  /\ Known' /\ Complete(fw') \in Nat
         /\ rd = Written(fw) /\ rd <= Total(input)
         /\ rd \in layout.ends <=> ~joinsNextEntry(hdr)
<1> DEFINE C == Complete(fw)
           D == Complete(fw')
<1>1. /\ Running /\ InEntry /\ pc = "payload" /\ remaining = 0 /\ UNCHANGED given
      /\ nullRun = 0 /\ heldLen = 0 /\ push.n = 0
      /\ UNCHANGED <<rd, hdr, paxNextSize, nullRun>> /\ pc' = "read"
      /\ IF ~joinsNextEntry(hdr) /\ fw.open /\ fw.in >= minBlockSize(opts)
         THEN EndFrame(fw) ELSE UNCHANGED <<fw, status>>
  BY DEF EndEntry, At, Running, InEntry, IInv, Waiting
<1>2. PICK h, pax : Within(h, pax, C)
  BY <1>1 DEF PInv, Known
<1>3. PICK end : end = EntryEnd(input, h, pax)
  OBVIOUS
<1>4. PICK join : join = joinsNextEntry(hdr)
  OBVIOUS
<1>5. /\ Given /\ C \in Nat /\ minBlockSize(opts) \in Nat /\ rd = end /\ rd <= Total(input)
      /\ Seen(h, pax, C) /\ Settled(h, C) /\ end \in Nat
      /\ Leads(input, h, pax, end, paxNextSize, join)
  <2>1. /\ Given /\ C \in Nat /\ minBlockSize(opts) \in Nat /\ rd \in Nat
    BY CompleteType, BlockSizes, Typed DEF PInv
  <2>2. /\ rd + 0 = end /\ rd <= Total(input) /\ hdr = BlockAt(input, h)
        /\ paxNextSize = IF hdr.type = "x" THEN PaxNext(input, h, pax) ELSE PaxLeft(hdr, pax)
        /\ Seen(h, pax, C) /\ Settled(h, C)
    BY <1>1, <1>2, <1>3 DEF Within, Reading
  <2>3. paxNextSize = PaxNext(input, h, pax)
    BY <2>2 DEF PaxNext
  <2>4. end <= Total(input) => Leads(input, h, pax, end, PaxNext(input, h, pax), joinsNextEntry(hdr))
    BY <1>1, <1>2, <1>3, <2>1, ReadingFacts
  <2> QED
    BY <1>4, <2>1, <2>2, <2>3, <2>4
<1>6. Seen(end, paxNextSize, C) /\ (end \in layout.ends <=> ~join)
  BY <1>5, SeenOn
<1>7. Written(fw) = end
  <2>1. Written(fw) \in Nat /\ Written(fw) + push.n + heldLen + nullRun = rd
    BY <1>1, Typed DEF IInv, Ordered, Position
  <2> QED
    BY <1>1, <1>5, <2>1
<1>8. /\ D \in Nat /\ (D = C \/ D >= C + minBlockSize(opts))
      /\ ~join => (D < end => end < D + minBlockSize(opts))
  <2>1. CASE ~join /\ fw.open /\ fw.in >= minBlockSize(opts)
    <3>1. EndFrame(fw)
      BY <1>1, <1>4, <2>1
    <3>2. D = end /\ end = C + fw.in /\ fw.in \in Nat
      BY <1>1, <1>7, <2>1, <3>1, EndElementFacts, Typed DEF Running, FrameState
    <3> QED
      BY <1>5, <2>1, <3>2
  <2>2. CASE ~(~join /\ fw.open /\ fw.in >= minBlockSize(opts))
    <3>1. D = C
      BY <1>1, <1>4, <2>2
    <3>2. fw.open => end = C + fw.in /\ fw.in \in Nat
      BY <1>7, Typed DEF Written, IInv, Limited, FrameState
    <3>3. ~fw.open => end = C
      BY <1>5, <1>7 DEF Written
    <3> QED
      BY <1>5, <2>2, <3>1, <3>2, <3>3
  <2> QED
    BY <2>1, <2>2
<1> HIDE DEF C, D
<1>9. Seen(end, paxNextSize, D) /\ Settled(end, D)
  BY <1>5, <1>6, <1>8, SeenFrom DEF Settled
<1>10. Position' = end /\ ~InEntry' /\ ~(nullRun' > 0)
  BY <1>1, <1>5 DEF Position, InEntry
<1> USE DEF D
<1>11. Known'
  BY <1>1, <1>9, <1>10, BetweenNext
<1> QED
  BY <1>4, <1>5, <1>6, <1>7, <1>8, <1>11

\* So does the input, with all that was read in frames.
LEMMA KnownEnds ==
  ASSUME IInv, PInv, EndLast
  PROVE  Known' /\ Complete(fw') \in Nat
<1> DEFINE C == Complete(fw)
           D == Complete(fw')
<1>1. /\ Running /\ ~InEntry /\ pc = "finish" /\ eof /\ remaining = 0 /\ UNCHANGED given
      /\ nullRun = 0 /\ heldLen = 0 /\ push.n = 0 /\ fw.open /\ EndFrame(fw)
      /\ UNCHANGED <<pc, eof, rd, hdr, paxNextSize, nullRun>>
  BY DEF EndLast, At, Running, InEntry, IInv, Waiting, locals
<1>2. Given /\ C \in Nat /\ Position \in Nat /\ Seen(Position, paxNextSize, C)
  BY <1>1, BetweenFacts
<1>3. PICK p \in Nat : p = Position
  BY <1>2
<1>4. D = p /\ D \in Nat
  <2>1. Written(fw) \in Nat /\ Written(fw) + push.n + heldLen + nullRun = p
    BY <1>1, <1>3, Typed DEF IInv, Ordered
  <2>2. D = Written(fw)
    BY <1>1, EndElementFacts DEF Running
  <2> QED
    BY <1>1, <1>3, <2>1, <2>2
<1>5. Position' = p /\ ~InEntry' /\ pc' # "read" /\ pc' # "entry" /\ eof'
  BY <1>1, <1>3 DEF Position, InEntry
<1> HIDE DEF C, D
<1>6. Seen(p, paxNextSize, D)
  BY <1>2, <1>3, <1>4, SeenFrom
<1> USE DEF D
<1>7. Known'
  BY <1>1, <1>5, <1>6, BetweenNext
<1> QED
  BY <1>4, <1>7

\* A frame may end while bytes are pushed: it is as large as allowed.
LEMMA KnownPush ==
  ASSUME IInv, PInv, Push
  PROVE  Known' /\ Complete(fw') \in Nat
<1> DEFINE C == Complete(fw)
           D == Complete(fw')
<1>1. /\ Running /\ pc \notin {"read", "flush", "entry", "finish"} /\ UNCHANGED given
      /\ UNCHANGED <<pc, rd, eof, hdr, paxNextSize, nullRun, remaining>>
      /\ input' = input /\ layout' = layout /\ opts' = opts
  BY DEF Push, Running, IInv, Waiting, given
<1>2. /\ Given /\ C \in Nat /\ minBlockSize(opts) \in Nat /\ maxBlockSize(opts) \in Nat
      /\ minBlockSize(opts) <= maxBlockSize(opts)
  BY CompleteType, BlockSizes, Typed, ConfigAssumption
     DEF PInv, IInv, TypeOK, CommandLine, minBlockSize, maxBlockSize
<1>3. D \in Nat /\ (D = C \/ D >= C + minBlockSize(opts))
  <2>1. PICK f : f = Filled
    OBVIOUS
  <2>2. PICK k : k = canWrite(push.n)
    OBVIOUS
  <2>3. Complete(f) = C
    BY <1>1, <2>1, <2>2, FilledFacts DEF Push, Running
  <2>4. fw' = f \/ D = C + maxBlockSize(opts)
    BY <2>1, <2>2, PushFacts
  <2> QED
    BY <1>2, <2>3, <2>4
<1> HIDE DEF C, D
<1>4. CASE InEntry
  <2>1. PICK h, pax : Within(h, pax, C)
    BY <1>1, <1>4 DEF PInv, Known, C
  <2>2. Seen(h, pax, D) /\ Settled(h, D) /\ Reading(h, pax)
    BY <1>2, <1>3, <2>1, SeenFrom DEF Within
  <2>3. Reading(h, pax)' /\ InEntry'
    BY <1>1, <1>4, <2>2 DEF Reading, InEntry
  <2> USE DEF D
  <2> QED
    BY <1>1, <1>3, <2>2, <2>3, WithinNext
<1>5. CASE ~InEntry
  <2>1. PICK p \in Nat : p = Position
    BY <1>1, <1>5, BetweenFacts
  <2>2. /\ Seen(p, paxNextSize, C)
        /\ ~eof => /\ HasBlock(input, p) /\ hdr = BlockAt(input, p) /\ ~isZeroTarBlock(hdr)
                   /\ p \in layout.ends
    BY <1>1, <1>5, <2>1, BetweenFacts DEF Between, C
  <2>3. Seen(p, paxNextSize, D)
    BY <1>2, <1>3, <2>2, SeenFrom
  <2>4. Position' = p /\ ~InEntry' /\ pc' # "read" /\ pc' # "entry"
    BY <1>1, <1>5, <2>1 DEF Position, InEntry
  <2> USE DEF D
  <2>5. Known'
    BY <1>1, <2>2, <2>3, <2>4, BetweenNext
  <2> QED
    BY <1>3, <2>5
<1> QED
  BY <1>4, <1>5

\* `e' is where Framing ends the next frame.
EndsNextAt(e) ==
  LET C == Complete(fw)
  IN  /\ e > C /\ e <= C + maxBlockSize(opts) /\ e <= Total(input)
      /\ \/ e = C + maxBlockSize(opts)
         \/ e \in layout.ends /\ e >= C + minBlockSize(opts)
         \/ e = Total(input) /\ layout.whole
      /\ \A x \in layout.ends : C < x /\ x < e => x < C + minBlockSize(opts)

\* One frame more, or as many.
Frames ==
  \/ fw'.ends = fw.ends
  \/ /\ status = "running" /\ status' = "running"
     /\ \E e \in Nat : fw'.ends = Append(fw.ends, e) /\ EndsNextAt(e)

\* Bytes accounted for were read.
LEMMA PositionRead ==
  ASSUME IInv, PInv, Running
  PROVE  Position \in Nat /\ Position <= Total(input)
<1>1. input \in Stream /\ rd \in Nat /\ TarBlock \in Nat /\ Total(input) \in Nat
  BY Typed, TotalType
<1>2. Written(fw) \in Nat /\ push.n \in Nat /\ heldLen \in Nat /\ nullRun \in Nat
  BY Typed
<1>3. Position \in Nat
  BY <1>2 DEF IInv, Ordered
<1>4. CASE ~InEntry
  BY <1>1, <1>4, BetweenFacts, PlaceFacts
<1>5. CASE InEntry
  <2>1. rd <= Total(input)
    BY <1>5 DEF PInv, Known, Within, Reading
  <2> QED
    BY <1>1, <1>3, <2>1 DEF Position
<1> QED
  BY <1>3, <1>4, <1>5

\* At the end of the input the parser has taken the whole of it.
LEMMA WholeAtEnd ==
  ASSUME IInv, PInv, Running, eof
  PROVE  Position = Total(input) /\ layout.whole
<1>1. Position = Total(input) /\ ~InEntry
  BY DEF IInv, Waiting, Position, InEntry
<1>2. /\ Given /\ <<Position, paxNextSize>> \in Places(input)
      /\ ParsedTo(Position, paxNextSize, Position \notin layout.ends, Complete(fw))
  BY <1>1, BetweenFacts
<1> QED
  BY <1>1, <1>2, ParserStops

\* A frame that pushBytesTar() ends is as large as allowed.
LEMMA PushFrames ==
  ASSUME IInv, PInv, Push
  PROVE  Frames
<1> DEFINE C == Complete(fw)
<1>1. Running /\ push.n > 0
  BY DEF Push, Running
<1>2. PICK k : k = canWrite(push.n)
  OBVIOUS
<1>3. PICK f : f = Filled
  OBVIOUS
<1>4. PICK m \in Nat \ {0} : m = maxBlockSize(opts)
  BY BlockSizes, Typed
<1>5. PICK e : e = Written(fw) + k
  OBVIOUS
<1>6. k \in 1 .. push.n /\ f.ends = fw.ends
  BY <1>1, <1>2, <1>3, FilledFacts DEF Running
<1>7. e \in Nat /\ e <= Position
  <2>1. /\ Written(fw) \in Nat /\ push.n \in Nat /\ heldLen \in Nat /\ nullRun \in Nat
        /\ Written(fw) + push.n + heldLen + nullRun = Position
    BY <1>1, Typed DEF IInv, Ordered
  <2> QED
    BY <1>5, <1>6, <2>1
<1>8. fw' = f \/ (status' = "running" /\ fw'.ends = Append(fw.ends, e) /\ e = C + m)
  BY <1>2, <1>3, <1>4, <1>5, PushFacts
<1>9. CASE fw' = f
  BY <1>6, <1>9 DEF Frames
<1>10. CASE status' = "running" /\ fw'.ends = Append(fw.ends, e) /\ e = C + m
  <2>1. C \in Nat /\ Position \in Nat /\ Position <= Total(input)
    BY <1>1, PositionRead, Typed, CompleteType
  <2>2. \A x \in layout.ends : C < x /\ x < e => x < C + minBlockSize(opts)
    <3>1. \A x \in layout.ends : x \in Nat
      BY LayoutType, TotalType DEF PInv, Given, Layouts
    <3>2. \A x \in layout.ends : C < x /\ x < Position => x < C + minBlockSize(opts)
      BY <1>1, Passed
    <3> QED
      BY <1>7, <2>1, <3>1, <3>2
  <2>3. Total(input) \in Nat
    BY TotalType DEF PInv, Given
  <2>4. e > C /\ e <= C + m /\ e <= Total(input)
    BY <1>4, <1>7, <1>10, <2>1, <2>3
  <2> HIDE DEF C
  <2>5. EndsNextAt(e)
    BY <1>4, <1>10, <2>2, <2>4 DEF EndsNextAt, C
  <2> QED
    BY <1>1, <1>7, <1>10, <2>5 DEF Frames, Running
<1> QED
  BY <1>8, <1>9, <1>10

\* Any other ends with an element, or with the input.
LEMMA EndFrames ==
  ASSUME IInv, PInv, EndFlush \/ EndEntry \/ EndLast
  PROVE  Frames
<1> DEFINE C == Complete(fw)
<1>1. Running /\ push.n = 0 /\ remaining = 0 /\ heldLen = 0 /\ nullRun = 0
  BY DEF EndFlush, EndEntry, EndLast, At, Running, IInv, Waiting
<1>2. CASE UNCHANGED <<fw, status>>
  BY <1>2 DEF Frames
<1>3. CASE ~UNCHANGED <<fw, status>>
  <2>1. EndFrame(fw) /\ fw.open /\ pc \in {"flushed", "payload", "finish"}
    BY <1>3 DEF EndFlush, EndEntry, EndLast, At
  <2>2. PICK e : e = Written(fw)
    OBVIOUS
  <2>3. e \in Nat /\ e = Position
    BY <1>1, <2>2, Typed DEF IInv, Ordered
  <2>4. /\ status' = "running" /\ fw'.ends = Append(fw.ends, e)
        /\ e > C /\ e < C + maxBlockSize(opts) /\ e = C + fw.in
    BY <1>1, <2>1, <2>2, EndElementFacts DEF Running
  <2>5. C \in Nat /\ maxBlockSize(opts) \in Nat /\ minBlockSize(opts) \in Nat
    BY CompleteType, BlockSizes, Typed
  <2>6. e <= Total(input)
    BY <1>1, <2>3, PositionRead
  <2>7. \A x \in layout.ends : C < x /\ x < e => x < C + minBlockSize(opts)
    BY <1>1, <2>3, Passed
  <2>8. \/ e \in layout.ends /\ e >= C + minBlockSize(opts)
        \/ e = Total(input) /\ layout.whole
    <3>1. CASE EndLast
      <4>1. eof
        BY <3>1 DEF EndLast, At, IInv, Waiting
      <4> QED
        BY <1>1, <2>3, <4>1, WholeAtEnd
    <3>2. CASE EndEntry
      <4>1. ~joinsNextEntry(hdr) /\ fw.in >= minBlockSize(opts) /\ fw.in \in Nat
        BY <1>3, <3>2, Typed DEF EndEntry, FrameState
      <4>2. e \in layout.ends
        BY <2>2, <3>2, <4>1, KnownEndsEntry
      <4> QED
        BY <2>4, <2>5, <4>1, <4>2
    <3>3. CASE EndFlush
      <4>1. fw.in >= minBlockSize(opts) /\ fw.in \in Nat
        BY <1>3, <3>3, Typed DEF EndFlush, FrameState
      <4>2. CASE eof
        BY <1>1, <2>3, <4>2, WholeAtEnd
      <4>3. CASE ~eof
        <5>1. pc = "flushed" /\ ~InEntry
          BY <3>3 DEF EndFlush, At, InEntry
        <5>2. e \in layout.ends
          BY <1>1, <2>3, <4>3, <5>1, BetweenFacts DEF Between
        <5> QED
          BY <2>4, <2>5, <4>1, <5>2
      <4> QED
        BY <4>2, <4>3
    <3> QED
      BY <3>1, <3>2, <3>3
  <2>9. e <= C + maxBlockSize(opts)
    BY <2>3, <2>4, <2>5
  <2>10. EndsNextAt(e)
    BY <2>4, <2>6, <2>7, <2>8, <2>9 DEF EndsNextAt
  <2> QED
    BY <1>1, <2>3, <2>4, <2>10 DEF Frames, Running
<1> QED
  BY <1>2, <1>3

\* No other step ends a frame.
LEMMA FramesStep ==
  ASSUME IInv, PInv, [Next]_vars
  PROVE  Frames
<1>1. elementSize \in Nat /\ heldLen + nullRun \in Nat
  BY ElementSizeType, Typed
<1>2. CASE FlushHeld \/ BeginEntry
  <2>1. fw'.ends = fw.ends
    BY <1>1, <1>2, StartElementFacts DEF FlushHeld, BeginEntry
  <2> QED
    BY <2>1 DEF Frames
<1>3. CASE \/ ReadNull \/ ReadHeader \/ ReadEnd \/ RejectPartial \/ FlushNulls
           \/ RejectHeader \/ Hold \/ PushHeader \/ ReadSparse \/ ReadPayload
           \/ RejectTruncated \/ Finish \/ IOError \/ UNCHANGED vars
  <2>1. fw' = fw
    BY <1>3 DEF ReadNull, ReadHeader, ReadEnd, RejectPartial, FlushNulls, RejectHeader,
       Hold, PushHeader, ReadSparse, ReadPayload, RejectTruncated, Finish, IOError, Exit, vars
  <2> QED
    BY <2>1 DEF Frames
<1> QED
  BY <1>2, <1>3, PushFrames, EndFrames DEF Next, Step

\* What the loop knows of the layout it keeps knowing.
LEMMA KnownStep ==
  ASSUME IInv, PInv, PaxSearched, [Next]_vars
  PROVE  PInv'
<1>1. /\ UNCHANGED given /\ input' = input /\ layout' = layout /\ opts' = opts
  BY DEF Next, Step, ReadNull, ReadHeader, ReadEnd, RejectPartial, FlushHeld, FlushNulls,
     EndFlush, RejectHeader, Hold, BeginEntry, PushHeader, ReadSparse, ReadPayload,
     RejectTruncated, EndEntry, Push, EndLast, Finish, IOError, Exit, vars, given
<1>2. Given' /\ (Total(input) + TarBlock <= U64Max)'
  BY <1>1 DEF PInv, Given
<1>3. (fw.ends # <<>> => Complete(fw) > 0)'
  <2>1. Frames
    BY FramesStep
  <2>2. CASE fw'.ends = fw.ends
    BY <2>2 DEF PInv, Complete
  <2>3. CASE fw'.ends # fw.ends
    <3>1. PICK e \in Nat : fw'.ends = Append(fw.ends, e) /\ EndsNextAt(e)
      BY <2>1, <2>3 DEF Frames
    <3>2. fw.ends \in Seq(Nat) /\ Complete(fw) \in Nat
      BY Typed, CompleteType DEF FrameState
    <3>3. e > 0
      BY <3>1, <3>2 DEF EndsNextAt
    <3>4. fw'.ends # <<>> /\ fw'.ends[Len(fw'.ends)] = e
      BY <3>1, <3>2, LastOfAppend
    <3> QED
      BY <3>3, <3>4 DEF Complete
  <2> QED
    BY <2>2, <2>3
<1>4. Known'
  <2>1. CASE ReadNull \/ ReadHeader \/ ReadEnd
    BY <2>1, KnownReads
  <2>2. CASE FlushHeld \/ FlushNulls \/ EndFlush
    BY <2>2, KnownFlushes
  <2>3. CASE Hold \/ BeginEntry
    BY <2>3, KnownEntries
  <2>4. CASE PushHeader \/ ReadSparse \/ ReadPayload
    BY <2>4, KnownReadsOn
  <2>5. CASE EndEntry \/ EndLast \/ Push
    BY <2>5, KnownEndsEntry, KnownEnds, KnownPush
  <2>6. CASE RejectPartial \/ RejectHeader \/ RejectTruncated \/ Finish \/ IOError
    BY <2>6 DEF RejectPartial, RejectHeader, RejectTruncated, Finish, IOError, Exit, Known,
       Running
  <2>7. CASE UNCHANGED vars
    <3>1. /\ UNCHANGED <<status, pc, rd, eof, hdr, paxNextSize, nullRun, remaining>>
          /\ Complete(fw') = Complete(fw)
      BY <2>7 DEF vars, locals
    <3>2. CASE Running /\ InEntry
      <4>1. PICK h, pax : Within(h, pax, Complete(fw))
        BY <3>2 DEF PInv, Known
      <4>2. Reading(h, pax)' /\ InEntry'
        BY <1>1, <3>1, <3>2, <4>1 DEF Within, Reading, InEntry
      <4> QED
        BY <1>1, <3>1, <4>1, <4>2, WithinNext DEF Within
    <3>3. CASE Running /\ ~InEntry
      <4>1. PICK p : p = Position
        OBVIOUS
      <4>2. p = Position' /\ ~InEntry'
        BY <3>1, <3>3, <4>1 DEF Position, InEntry
      <4>3. Between(Complete(fw))
        BY <3>3 DEF PInv, Known
      <4> QED
        BY <1>1, <3>1, <4>1, <4>2, <4>3, BetweenNext DEF Between
    <3>4. CASE ~Running
      BY <3>1, <3>4 DEF Known, Running
    <3> QED
      BY <3>2, <3>3, <3>4
  <2> QED
    BY <2>1, <2>2, <2>3, <2>4, <2>5, <2>6, <2>7 DEF Next, Step
<1> QED
  BY <1>2, <1>3, <1>4 DEF PInv

\* At the start the parser knows the whole layout.
LEMMA InitKnown ==
  ASSUME Init
  PROVE  PInv
<1>1. /\ Given /\ Total(input) + TarBlock <= U64Max
      /\ status = "running" /\ pc = "read" /\ rd = 0 /\ nullRun = 0
      /\ paxNextSize = NoSize
  BY ConfigAssumption, InputsAssumption DEF Init, Given
<1>2. fw.ends = <<>> /\ Complete(fw) = 0
  BY <1>1, NoFramesFacts DEF Init, Complete, Given
<1>3. Position = 0 /\ ~InEntry
  BY <1>1 DEF Position, InEntry
<1>4. <<0, NoSize>> \in Places(input) /\ \A x \in layout.ends : x \in Nat
  BY <1>1, LayoutType, TotalType DEF Given, Layouts
<1>5. 0 \notin layout.ends
  BY <1>1, LayoutType, TotalType DEF Given, Layouts
<1>6. ParsedTo(0, NoSize, 0 \notin layout.ends, 0)
  BY <1>1, <1>4 DEF ParsedTo, Given, Layout
<1>7. Between(0)
  BY <1>1, <1>3, <1>4, <1>6 DEF Between, Seen, Settled
<1> QED
  BY <1>1, <1>2, <1>3, <1>7 DEF PInv, Known

\* What Framing sees of the state.
LEMMA SameState ==
  ASSUME IInv, PInv
  PROVE  /\ Abstract!Covered = Complete(fw) /\ Abstract!Total(input) = Total(input)
         /\ Abstract!WellFormed <=> Total(input) > 0 /\ layout.whole
         /\ ~opts.raw
<1>1. Abstract!Covered = Complete(fw)
  BY DEF Abstract!Covered, Complete
<1>2. ~opts.raw
  BY DEF IInv, TypeOK
<1>3. Abstract!WellFormed <=> Total(input) > 0 /\ layout.whole
  BY <1>2, SameOperators DEF Abstract!WellFormed
<1> QED
  BY <1>1, <1>2, <1>3, SameOperators

\* A run fails only when the archive is not whole.
LEMMA RejectsPartial ==
  ASSUME IInv, PInv, RejectPartial \/ RejectHeader \/ RejectTruncated
  PROVE  ~layout.whole
<1>1. Running
  BY DEF RejectPartial, RejectHeader, RejectTruncated, At, Running
<1>2. CASE InEntry
  <2>1. PICK h, pax : Within(h, pax, Complete(fw))
    BY <1>1, <1>2 DEF PInv, Known
  <2>2. PICK end : end = EntryEnd(input, h, pax)
    OBVIOUS
  <2>3. /\ end \in Nat /\ rd + remaining <= end /\ (pc = "sparse" => rd + TarBlock <= end)
        /\ end > Total(input) => ~layout.whole
    BY <1>2, <2>1, <2>2, ReadingFacts DEF PInv
  <2>4. /\ rd \in Nat /\ remaining \in Nat /\ TarBlock \in Nat /\ Total(input) \in Nat
        /\ InChunk \in Nat
    BY Typed, TotalType, StdinTarAssumption
  <2>5. CASE pc = "sparse"
    BY <1>2, <2>3, <2>4, <2>5 DEF RejectPartial, RejectHeader, RejectTruncated, At, Available
  <2>6. CASE pc # "sparse"
    <3>1. remaining > 0 /\ ~(rd + chunk <= Total(input))
      BY <1>2, <2>6
         DEF RejectPartial, RejectHeader, RejectTruncated, At, Available, InEntry
    <3>2. chunk \in Nat /\ chunk <= remaining
      BY <2>4 DEF chunk
    <3> QED
      BY <2>3, <2>4, <3>1, <3>2
  <2> QED
    BY <2>5, <2>6
<1>3. CASE ~InEntry
  <2>1. PICK p \in Nat : p = Position
    BY <1>1, <1>3, BetweenFacts
  <2>2. /\ <<p, paxNextSize>> \in Places(input) /\ Given
        /\ ParsedTo(p, paxNextSize, p \notin layout.ends, Complete(fw))
        /\ Between(Complete(fw)) /\ rd \in Nat /\ TarBlock \in Nat \ {0} /\ Total(input) \in Nat
    BY <1>1, <1>3, <2>1, BetweenFacts
  <2>3. CASE RejectPartial
    <3>1. p = rd /\ ~HasBlock(input, rd) /\ rd < Total(input)
      BY <2>1, <2>3 DEF RejectPartial, At, Position
    <3> QED
      BY <2>1, <2>2, <3>1, ParserStops
  <2>4. CASE RejectHeader \/ RejectTruncated
    <3>1. pc = "entry" /\ p = rd - TarBlock /\ ~eof
      BY <1>3, <2>1, <2>4 DEF RejectHeader, RejectTruncated, At, InEntry, Position, IInv, Waiting
    <3>2. HasBlock(input, p) /\ hdr = BlockAt(input, p) /\ ~isZeroTarBlock(hdr)
      BY <2>1, <2>2, <3>1 DEF Between
    <3>3. ~IsWholeEntry(input, p, paxNextSize)
      <4>1. CASE RejectHeader
        BY <3>2, <4>1 DEF RejectHeader, fileSize, IsWholeEntry
      <4>2. CASE RejectTruncated
        <5>1. PICK size \in Nat : size = Padded(fileSize)
          BY Typed
        <5>2. IsHeld /\ ~(rd + size <= Total(input))
          BY <3>1, <4>2, <5>1 DEF RejectTruncated, At, Available
        <5>3. SparseExt(input, p) = 0
          BY <3>2, <5>2 DEF IsHeld, SparseExt
        <5>4. EntryEnd(input, p, paxNextSize) = p + TarBlock + 0 + size
          BY <3>2, <5>1, <5>3 DEF EntryEnd, fileSize
        <5>5. EntryEnd(input, p, paxNextSize) = rd + size
          BY <2>1, <2>2, <3>1, <5>1, <5>4
        <5> QED
          BY <5>2, <5>5 DEF IsWholeEntry
      <4> QED
        BY <2>4, <4>1, <4>2
    <3>4. ~IsNullBlock(input, p) /\ p # Total(input)
      BY <2>1, <2>2, <3>2 DEF IsNullBlock, HasBlock
    <3> QED
      BY <2>2, <3>3, <3>4, ParserStops
  <2> QED
    BY <1>3, <2>3, <2>4
<1> QED
  BY <1>2, <1>3

\* libzstd never fails a run on a whole archive: no element has 2^64 bytes.
LEMMA FailsPartial ==
  ASSUME IInv, PInv, Push, status' = "zstdError", IInv'
  PROVE  ~layout.whole /\ fw'.ends = fw.ends
<1>1. Running /\ push.n > 0
  BY DEF Push, Running
<1>2. PICK k : k = canWrite(push.n)
  OBVIOUS
<1>3. PICK f : f = Filled
  OBVIOUS
<1>4. fw' = f /\ push'.n = push.n - k
  BY <1>2, <1>3, PushFacts
<1>5. /\ k \in 1 .. push.n /\ f.ends = fw.ends /\ f.in = f.zin /\ f \in FrameState
      /\ Complete(f) + f.zin = Written(fw) + k
  BY <1>1, <1>2, <1>3, FilledFacts DEF Running
<1>6. PICK tb \in Nat : tb = IF pc = "header" THEN TarBlock ELSE 0
  BY TarAssumption
<1>7. /\ Written(fw) \in Nat /\ push.n \in Nat /\ heldLen \in Nat /\ nullRun \in Nat
      /\ remaining \in Nat /\ U64Max \in Nat /\ rd \in Nat
      /\ Written(fw) + push.n + heldLen + nullRun = Position
  BY <1>1, Typed, TarAssumption DEF IInv, Ordered
<1>8. Complete(f) \in Nat /\ f.zin \in Nat
  BY <1>5, CompleteType DEF FrameState
<1>9. f.in + (push.n - k) + nullRun + remaining + tb > U64Max
  <2>1. ElementRest' > U64Max
    BY DEF IInv, Pledged, PledgeHonoured
  <2>2. UNCHANGED <<nullRun, remaining, pc>>
    BY DEF Push
  <2> QED
    BY <1>4, <1>6, <2>1, <2>2 DEF ElementRest
<1>10. Position + remaining + tb > U64Max /\ Position \in Nat
  BY <1>5, <1>6, <1>7, <1>8, <1>9
<1>11. Total(input) <= U64Max /\ Total(input) \in Nat /\ Position <= Total(input)
  BY <1>1, PositionRead, TotalType, TarAssumption DEF PInv, Given
<1>12. CASE ~InEntry
  <2>1. remaining = 0 /\ tb = 0
    BY <1>6, <1>12 DEF IInv, Waiting, InEntry
  <2> QED
    BY <1>7, <1>10, <1>11, <2>1
<1>13. CASE InEntry
  <2>1. PICK h, pax : Within(h, pax, Complete(fw))
    BY <1>1, <1>13 DEF PInv, Known
  <2>2. PICK end : end = EntryEnd(input, h, pax)
    OBVIOUS
  <2>3. end \in Nat /\ rd + remaining <= end /\ (end > Total(input) => ~layout.whole)
    BY <1>13, <2>1, <2>2, ReadingFacts DEF PInv
  <2>4. Position + tb <= rd
    BY <1>6, <1>7, <1>10, <1>13, TarAssumption DEF Position, InEntry
  <2> QED
    BY <1>4, <1>5, <1>6, <1>7, <1>10, <1>11, <2>3, <2>4
<1> QED
  BY <1>12, <1>13

\* Every step is one of Framing, or changes nothing that Framing has.
LEMMA FramingStep ==
  ASSUME IInv, PInv, PaxSearched, [Next]_vars, IInv'
  PROVE  [Abstract!Next]_(Abstract!vars)
<1>1. /\ UNCHANGED given /\ Frames
  BY FramesStep DEF Next, Step, ReadNull, ReadHeader, ReadEnd, RejectPartial, FlushHeld,
     FlushNulls, EndFlush, RejectHeader, Hold, BeginEntry, PushHeader, ReadSparse,
     ReadPayload, RejectTruncated, EndEntry, Push, EndLast, Finish, IOError, Exit, vars, given
<1>2. CASE fw'.ends = fw.ends /\ status' = status
  BY <1>1, <1>2 DEF Abstract!vars, Abstract!given, given
<1>3. CASE fw'.ends # fw.ends
  <2>1. PICK e \in Nat : fw'.ends = Append(fw.ends, e) /\ EndsNextAt(e)
    BY <1>1, <1>3 DEF Frames
  <2>2. status = "running" /\ status' = "running"
    BY <1>1, <1>3 DEF Frames
  <2>3. PICK C \in Nat : C = Complete(fw)
    BY Typed, CompleteType
  <2>4. Given /\ Total(input) \in Nat
    BY TotalType DEF PInv, Given
  <2>5. /\ e > C /\ e <= C + maxBlockSize(opts) /\ e <= Total(input)
        /\ \/ e = C + maxBlockSize(opts)
           \/ e \in layout.ends /\ e >= C + minBlockSize(opts)
           \/ e = Total(input) /\ layout.whole
        /\ \A x \in layout.ends : C < x /\ x < e => x < C + minBlockSize(opts)
    BY <2>1, <2>3 DEF EndsNextAt
  <2>6. e \in Abstract!FrameEnds /\ Abstract!IsFrameEnd(e)
    BY <2>3, <2>4, <2>5, SameState, NextFrameEnd
  <2>7. C < Total(input)
    BY <2>4, <2>5
  <2>8. Abstract!Emit
    BY <1>1, <2>1, <2>2, <2>3, <2>5, <2>6, <2>7, SameState
       DEF Abstract!Emit, Abstract!given, given
  <2> QED
    BY <2>8 DEF Abstract!Next
<1>4. CASE fw'.ends = fw.ends /\ status' # status
  <2>1. CASE RejectPartial \/ RejectHeader \/ RejectTruncated
    <3>1. ~layout.whole /\ status = "running" /\ status' = "rejected"
      BY <2>1, RejectsPartial DEF RejectPartial, RejectHeader, RejectTruncated, At, Exit
    <3>2. Abstract!Reject
      BY <1>1, <1>4, <3>1, SameState DEF Abstract!Reject, Abstract!given, given
    <3> QED
      BY <3>2 DEF Abstract!Next
  <2>2. CASE Push
    <3>1. status = "running" /\ status' = "zstdError"
      <4>1. PICK f : f = Filled
        OBVIOUS
      <4>2. PICK k : k = canWrite(push.n)
        OBVIOUS
      <4> QED
        BY <1>4, <2>2, <4>1, <4>2, PushFacts DEF Push
    <3>2. ~layout.whole
      BY <2>2, <3>1, FailsPartial
    <3>3. Abstract!Reject
      BY <1>1, <1>4, <3>1, <3>2, SameState DEF Abstract!Reject, Abstract!given, given
    <3> QED
      BY <3>3 DEF Abstract!Next
  <2>3. CASE Finish
    <3>1. /\ Running /\ eof /\ pc = "finish" /\ push.n = 0 /\ ~fw.open
          /\ heldLen = 0 /\ nullRun = 0
          /\ status = "running" /\ status' = IF fw.count = 0 THEN "rejected" ELSE "ok"
      BY <2>3 DEF Finish, At, Exit, Running, IInv, Waiting
    <3>2. Position = Total(input) /\ layout.whole
      BY <3>1, WholeAtEnd
    <3>3. Complete(fw) = Total(input)
      <4>1. Complete(fw) \in Nat
        BY Typed, CompleteType
      <4>2. Written(fw) = Complete(fw) + 0
        BY <3>1 DEF Written
      <4>3. Written(fw) + 0 + 0 + 0 = Position
        BY <3>1 DEF IInv, Ordered
      <4> QED
        BY <3>2, <4>1, <4>2, <4>3
    <3>4. fw.count = 0 <=> ~(Total(input) > 0)
      <4>1. fw.ends \in Seq(Nat) /\ fw.count = Len(fw.ends) /\ Total(input) \in Nat
        BY Typed, TotalType DEF IInv, Limited, Described, FrameState
      <4>2. fw.count = 0 <=> fw.ends = <<>>
        BY <4>1, EmptySeq
      <4>3. fw.ends = <<>> => Complete(fw) = 0
        BY DEF Complete
      <4>4. fw.ends # <<>> => Complete(fw) > 0
        BY DEF PInv
      <4> QED
        BY <3>3, <4>1, <4>2, <4>3, <4>4
    <3>5. CASE fw.count = 0
      <4>1. Abstract!Reject
        BY <1>1, <1>4, <3>1, <3>4, <3>5, SameState DEF Abstract!Reject, Abstract!given, given
      <4> QED
        BY <4>1 DEF Abstract!Next
    <3>6. CASE fw.count # 0
      <4>1. Abstract!Finish
        BY <1>1, <1>4, <3>1, <3>2, <3>3, <3>4, <3>6, SameState
           DEF Abstract!Finish, Abstract!given, given
      <4> QED
        BY <4>1 DEF Abstract!Next
    <3> QED
      BY <3>5, <3>6
  <2>4. CASE IOError
    <3>1. Abstract!IOError
      BY <2>4 DEF IOError, Exit, Abstract!IOError, Abstract!given, given
    <3> QED
      BY <3>1 DEF Abstract!Next
  <2>5. CASE EndFlush \/ EndEntry \/ EndLast
    <3>1. push.n = 0 /\ remaining = 0 /\ pc \in {"flushed", "payload", "finish"} /\ status = "running"
      BY <2>5 DEF EndFlush, EndEntry, EndLast, At, IInv, Waiting
    <3>2. fw.open /\ EndFrame(fw) => status' = "running"
      BY <3>1, EndElementFacts
    <3>3. (fw.open /\ EndFrame(fw)) \/ status' = status
      BY <2>5 DEF EndFlush, EndEntry, EndLast
    <3> QED
      BY <1>4, <3>1, <3>2, <3>3
  <2>6. CASE \/ ReadNull \/ ReadHeader \/ ReadEnd \/ FlushHeld \/ FlushNulls
             \/ Hold \/ BeginEntry \/ PushHeader \/ ReadSparse \/ ReadPayload
             \/ UNCHANGED vars
    BY <1>4, <2>6 DEF ReadNull, ReadHeader, ReadEnd, FlushHeld, FlushNulls, Hold, BeginEntry,
       PushHeader, ReadSparse, ReadPayload, vars
  <2> QED
    BY <2>1, <2>2, <2>3, <2>4, <2>5, <2>6 DEF Next, Step
<1> QED
  BY <1>2, <1>3, <1>4

\* compressStdinTar() implements the safety of Framing too, as long as no pax
\* header brings more data than one chunk: an archive that is whole is never
\* refused, by the parser or by libzstd, and each frame ends where Framing says.
THEOREM TarImplementsFraming ==
  Spec /\ []PaxSearched => Abstract!Init /\ [][Abstract!Next]_(Abstract!vars)
<1>1. Init => Abstract!Init
  <2> SUFFICES ASSUME Init PROVE Abstract!Init
    OBVIOUS
  <2>1. opts \in Options /\ input \in Inputs /\ opts \in CommandLine
    BY ConfigAssumption DEF Init
  <2>2. fw.ends = <<>>
    BY <2>1, NoFramesFacts DEF Init
  <2> QED
    BY <2>1, <2>2, SameOperators DEF Init, Abstract!Init
<1>2. Init => PInv
  BY InitKnown
<1>3. IInv /\ PInv /\ PaxSearched /\ [Next]_vars => PInv'
  BY KnownStep
<1>4. IInv /\ PInv /\ PaxSearched /\ [Next]_vars /\ IInv' => [Abstract!Next]_(Abstract!vars)
  BY FramingStep
<1> QED
  BY <1>1, <1>2, <1>3, <1>4, Inductive, PTL DEF Spec

\* Then the frames are those that the documentation promises.
THEOREM TarFramesAsDocumented == Spec /\ []PaxSearched => []FramesAsDocumented
  BY TarImplementsFraming, FramingDocumented, PTL

\* And an archive that a file may hold is not refused on standard input, nor
\* does libzstd fail its run.
THEOREM TarTakesEveryArchive == Spec /\ []PaxSearched => []TakesEveryArchive
<1>1. Init => TakesEveryArchive
  BY DEF Init, TakesEveryArchive
<1>2. IInv /\ TakesEveryArchive /\ [Abstract!Next]_(Abstract!vars) => TakesEveryArchive'
  <2> SUFFICES ASSUME status \in Statuses, TakesEveryArchive, [Abstract!Next]_(Abstract!vars),
                      status' \in {"rejected", "zstdError"}
               PROVE  ~Abstract!WellFormed'
    BY DEF TakesEveryArchive, IInv, TypeOK
  <2>1. UNCHANGED given
    BY DEF Abstract!Next, Abstract!Emit, Abstract!Finish, Abstract!Reject, Abstract!IOError,
       Abstract!vars, Abstract!given, given
  <2>2. ~Abstract!WellFormed
    BY DEF Abstract!Next, Abstract!Emit, Abstract!Finish, Abstract!Reject, Abstract!IOError,
       Abstract!vars, TakesEveryArchive, Statuses
  <2>3. opts' = opts /\ input' = input /\ layout' = layout
    BY <2>1 DEF given
  <2> QED
    BY <2>2, <2>3 DEF Abstract!WellFormed, Abstract!Total
<1> QED
  BY <1>1, <1>2, TarImplementsFraming, Inductive, PTL DEF Spec

\* The pax headers of the inputs have data, which one chunk holds.
PaxFits ==
  \A st \in Inputs : \A off \in Nat :
    HasBlock(st, off) /\ isTarHeader(BlockAt(st, off)) /\ BlockAt(st, off).type = "x" =>
      Padded(BlockAt(st, off).size) \in 1 .. InChunk

\* This is true of archives whose pax headers have data, of no more than 128
\* KiB, whatever else they hold.
THEOREM SearchesSmallPax == ASSUME PaxFits PROVE Spec => []PaxSearched
<1>1. Init => input \in Inputs
  BY DEF Init
<1>2. input \in Inputs /\ [Next]_vars => (input \in Inputs)'
  BY DEF Next, Step, ReadNull, ReadHeader, ReadEnd, RejectPartial, FlushHeld, FlushNulls,
     EndFlush, RejectHeader, Hold, BeginEntry, PushHeader, ReadSparse, ReadPayload,
     RejectTruncated, EndEntry, Push, EndLast, Finish, IOError, Exit, vars, given
<1>3. IInv /\ PInv /\ input \in Inputs => PaxSearched
  <2> SUFFICES ASSUME IInv, PInv, input \in Inputs, At("entry"), ValidHeader, hdr.type = "x"
               PROVE  Padded(hdr.size) \in 1 .. InChunk
    BY DEF PaxSearched
  <2>1. Running /\ ~InEntry /\ pc = "entry" /\ ~eof
    BY DEF At, Running, InEntry, IInv, Waiting
  <2>2. PICK p \in Nat : p = Position
    BY <2>1, BetweenFacts
  <2>3. HasBlock(input, p) /\ hdr = BlockAt(input, p)
    BY <2>1, <2>2, BetweenFacts DEF Between
  <2> QED
    BY <2>3 DEF ValidHeader, PaxFits
<1>4. Init => PInv
  BY InitKnown
<1>5. IInv /\ PInv /\ PaxSearched /\ [Next]_vars => PInv'
  BY KnownStep
<1> QED
  BY <1>1, <1>2, <1>3, <1>4, <1>5, Inductive, PTL DEF Spec

(***************************************************************************)
(* The same input given as a file to a second run, one of compressFile().  *)
(***************************************************************************)

VARIABLES fileFw, fileStatus, filePc, fileHeaderIdx, fileReadBuff, fileJoinNext,
          filePaxNextSize, fileLastChunk, fileResidual, fileBlockSize

\* For it, the frames of standard input are those of the other run.
File == INSTANCE MmapFileProofs WITH
  fw <- fileFw, status <- fileStatus, pc <- filePc, tarHeaderIdx <- fileHeaderIdx,
  readBuff <- fileReadBuff, joinNext <- fileJoinNext, paxNextSize <- filePaxNextSize,
  lastChunk <- fileLastChunk, residual <- fileResidual, blockSize <- fileBlockSize,
  otherEnds <- fw.ends,
  otherStatus <- IF status \in {"rejected", "zstdError"} THEN "failed" ELSE status

FileFramesAgree == status = "ok" /\ fileStatus = "ok" => fw.ends = fileFw.ends

\* The assumptions on the constants are those of the second run too.
LEMMA FileAssumptions ==
  /\ File!TarAssumption /\ File!ConfigAssumption
  /\ File!InputsAssumption /\ File!FrameWriterAssumption
<1>1. File!TarAssumption /\ File!FrameWriterAssumption
  BY TarAssumption, FrameWriterAssumption
<1>2. File!ConfigAssumption
  BY ConfigAssumption, Zenon DEF Stream, Block, Types, CommandLine, File!Stream, File!Block,
     File!Types, File!CommandLine
<1>3. File!InputsAssumption
  BY InputsAssumption DEF Total, File!Total
<1> QED
  BY <1>1, <1>2, <1>3

\* Framing is the same for both.
LEMMA SameFraming ==
  /\ Abstract!Init => File!Other!Init
  /\ [Abstract!Next]_(Abstract!vars) => [File!Other!Next]_(File!Other!vars)
<1>1. Abstract!Layout(input) = File!Other!Layout(input)
  BY DEF
     Abstract!Layout, File!Other!Layout, Abstract!Rest, File!Other!Rest, Abstract!Places,
     File!Other!Places, Abstract!LayoutAt, File!Other!LayoutAt, Abstract!WithEnd,
     File!Other!WithEnd, Abstract!HasBlock, File!Other!HasBlock, Abstract!Total,
     File!Other!Total, Abstract!BlockAt, File!Other!BlockAt, Abstract!IsNullBlock,
     File!Other!IsNullBlock, Abstract!isZeroTarBlock, File!Other!isZeroTarBlock,
     Abstract!IsWholeEntry, File!Other!IsWholeEntry, Abstract!isTarHeader,
     File!Other!isTarHeader, Abstract!TooLarge, File!Other!TooLarge, Abstract!tarEntrySize,
     File!Other!tarEntrySize, Abstract!isExtensionHeader, File!Other!isExtensionHeader,
     Abstract!EntryEnd, File!Other!EntryEnd, Abstract!SparseExt, File!Other!SparseExt,
     Abstract!hasSparseExtension, File!Other!hasSparseExtension, Abstract!Padded,
     File!Other!Padded, Abstract!PaxNext, File!Other!PaxNext, Abstract!paxSize,
     File!Other!paxSize, Abstract!PaxLeft, File!Other!PaxLeft, Abstract!joinsNextEntry,
     File!Other!joinsNextEntry, Abstract!NoSize, File!Other!NoSize, Abstract!Min,
     File!Other!Min
<1>2. /\ Abstract!Total(input) = File!Other!Total(input)
      /\ Abstract!minBlockSize(opts) = File!Other!minBlockSize(opts)
      /\ Abstract!maxBlockSize(opts) = File!Other!maxBlockSize(opts)
  BY DEF Abstract!Total, File!Other!Total, Abstract!minBlockSize, File!Other!minBlockSize,
     Abstract!maxBlockSize, File!Other!maxBlockSize
<1>3. Abstract!Init => File!Other!Init
  BY <1>1 DEF Abstract!Init, File!Other!Init
<1>4. Abstract!Limit = File!Other!Limit /\ Abstract!Covered = File!Other!Covered
  BY <1>2 DEF Abstract!Limit, File!Other!Limit, Abstract!Covered, File!Other!Covered
<1>5. /\ Abstract!WellFormed = File!Other!WellFormed
      /\ Abstract!FrameEnds = File!Other!FrameEnds
  BY <1>2, <1>4 DEF Abstract!WellFormed, File!Other!WellFormed, Abstract!FrameEnds,
     File!Other!FrameEnds
<1>6. Abstract!Emit => File!Other!Emit
  BY <1>2, <1>4, <1>5 DEF Abstract!Emit, File!Other!Emit, Abstract!IsFrameEnd,
     File!Other!IsFrameEnd, Abstract!given, File!Other!given
<1>7. Abstract!Finish \/ Abstract!Reject \/ Abstract!IOError => File!Other!Next
  BY <1>2, <1>4, <1>5 DEF Abstract!Finish, Abstract!Reject, Abstract!IOError,
     File!Other!Next, File!Other!Finish, File!Other!Reject, File!Other!IOError,
     Abstract!given, File!Other!given
<1>8. UNCHANGED Abstract!vars => UNCHANGED File!Other!vars
  BY DEF Abstract!vars, File!Other!vars, Abstract!given, File!Other!given
<1> QED
  BY <1>3, <1>6, <1>7, <1>8 DEF Abstract!Next, File!Other!Next

\* An archive on standard input is cut into the same frames as the same archive
\* in a file, as long as no pax header brings more data than one chunk.
THEOREM TarFramesAsOfFile == Spec /\ []PaxSearched /\ File!Spec => []FileFramesAgree
<1>1. /\ File!Spec /\ File!Other!Init /\ [][File!Other!Next]_(File!Other!vars)
      => []File!FramesAgree
  BY FileAssumptions, File!MappedFramesAgree
<1>2. File!FramesAgree => FileFramesAgree
  BY DEF File!FramesAgree, FileFramesAgree
<1>3. Abstract!Init => File!Other!Init
  BY SameFraming
<1>4. [Abstract!Next]_(Abstract!vars) => [File!Other!Next]_(File!Other!vars)
  BY SameFraming
<1> QED
  BY <1>1, <1>2, <1>3, <1>4, TarImplementsFraming, PTL
=============================================================================
