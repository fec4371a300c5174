------------------------------ MODULE MmapFile ------------------------------
(***************************************************************************)
(* The branch of compressFile() for a mapped file: the two nested loops    *)
(* that find the next block and compress it, in raw and in tar mode.       *)
(***************************************************************************)
EXTENDS FrameWriter

VARIABLES
  pc,            \* the next step
  tarHeaderIdx,  \* offset of the next header in the mapped file
  readBuff,      \* offset of the first byte not compressed
  joinNext,      \* the last element goes in the block of the next one
  paxNextSize,   \* the size a pax header gave to the next entry, or NoSize
  lastChunk,     \* the parser reached the end of the file
  residual,      \* bytes of the last element that -S left for the next blocks
  blockSize      \* bytes of the block being put together

locals == <<pc, tarHeaderIdx, readBuff, joinNext, paxNextSize, lastChunk,
            residual, blockSize>>

vars == <<given, fw, status, locals>>

inBuffSize == Total(input)

\* prepareInput() maps files that are not empty.
Init ==
  /\ input \in {st \in Inputs : Total(st) > 0}
  /\ opts \in Options
  /\ layout = Layout(input)
  /\ fw = NoFrames(opts)
  /\ status = "running"
  /\ pc = "loop"
  /\ tarHeaderIdx = 0
  /\ readBuff = 0
  /\ joinNext = FALSE
  /\ paxNextSize = NoSize
  /\ lastChunk = FALSE
  /\ residual = 0
  /\ blockSize = 0

At(label) == status = "running" /\ pc = label

Exit(how) == status' = how /\ UNCHANGED <<given, fw, locals>>

\* while(!lastChunk || residual)
Again == ~lastChunk \/ residual > 0

----------------------------------------------------------------------------
(* Raw mode. *)

rawRemaining == inBuffSize - readBuff

\* Mutant: -s as it was given, larger than a frame.
rawBlockSizeGiven == IF opts.s > 0 THEN opts.s ELSE maxBlockSize(opts)

rawBlockSize == IF minBlockSize(opts) > 0 THEN minBlockSize(opts) ELSE maxBlockSize(opts)

\* Blocks of the size asked for; a smaller one is the last.
RawBlock ==
  /\ At("loop") /\ Again /\ opts.raw
  /\ rawRemaining > 0
  /\ IF rawBlockSize > rawRemaining
     THEN blockSize' = rawRemaining /\ lastChunk' = TRUE
     ELSE blockSize' = rawBlockSize /\ UNCHANGED lastChunk
  /\ pc' = "compress"
  /\ UNCHANGED <<given, fw, status, tarHeaderIdx, readBuff, joinNext,
                 paxNextSize, residual>>

\* The last block ended right at the end of the file: break.
RawEnd ==
  /\ At("loop") /\ Again /\ opts.raw
  /\ rawRemaining = 0
  /\ pc' = "end"
  /\ UNCHANGED <<given, fw, status, tarHeaderIdx, readBuff, joinNext,
                 paxNextSize, lastChunk, residual, blockSize>>

----------------------------------------------------------------------------
(* Tar mode: one action for one turn of the inner loop. *)

BeginBlock ==
  /\ At("loop") /\ Again /\ ~opts.raw
  /\ blockSize' = 0
  /\ pc' = "parse"
  /\ UNCHANGED <<given, fw, status, tarHeaderIdx, readBuff, joinNext,
                 paxNextSize, lastChunk, residual>>

\* Mutant: an element that joins the next one ends a block.
EndTurnApart(size, rest, idx, join) ==
  /\ tarHeaderIdx' = idx
  /\ joinNext' = join
  /\ lastChunk' = (idx >= inBuffSize)
  /\ IF size > maxBlockSize(opts)
     THEN residual' = size - maxBlockSize(opts) /\ blockSize' = maxBlockSize(opts)
     ELSE residual' = rest /\ blockSize' = size
  /\ pc' = IF ~lastChunk' /\ residual' = 0 /\ blockSize' < minBlockSize(opts)
           THEN "parse" ELSE "compress"
  /\ UNCHANGED <<given, fw, status, readBuff>>

\* Mutant: a block that was cut goes on with the entry that follows.
EndTurnJoin(size, rest, idx, join) ==
  /\ tarHeaderIdx' = idx
  /\ joinNext' = join
  /\ lastChunk' = (idx >= inBuffSize)
  /\ IF size > maxBlockSize(opts)
     THEN residual' = size - maxBlockSize(opts) /\ blockSize' = maxBlockSize(opts)
     ELSE residual' = rest /\ blockSize' = size
  /\ pc' = IF ~lastChunk' /\ (blockSize' < minBlockSize(opts) \/ join)
           THEN "parse" ELSE "compress"
  /\ UNCHANGED <<given, fw, status, readBuff>>

\* The end of a turn that leaves a block of `size' bytes, of an element of
\* which `rest' bytes were put off by an earlier cut, with the parser at byte
\* `idx': -S cuts the block, which then goes on unless it is large enough.
EndTurn(size, rest, idx, join) ==
  /\ tarHeaderIdx' = idx
  /\ joinNext' = join
  /\ lastChunk' = (idx >= inBuffSize)
  /\ IF size > maxBlockSize(opts)
     THEN residual' = size - maxBlockSize(opts) /\ blockSize' = maxBlockSize(opts)
     ELSE residual' = rest /\ blockSize' = size
  /\ pc' = IF ~lastChunk' /\ residual' = 0 /\ (blockSize' < minBlockSize(opts) \/ join)
           THEN "parse" ELSE "compress"
  /\ UNCHANGED <<given, fw, status, readBuff>>

\* What is left of an element that was cut.
TakeResidual ==
  /\ At("parse") /\ residual > 0
  /\ IF residual > maxBlockSize(opts)
     THEN EndTurn(maxBlockSize(opts), residual - maxBlockSize(opts), tarHeaderIdx, joinNext)
     ELSE EndTurn(residual, 0, tarHeaderIdx, joinNext)
  /\ UNCHANGED paxNextSize

\* "Truncated tar archive": less than a block is left.
RejectTail ==
  /\ At("parse") /\ residual = 0
  /\ ~HasBlock(input, tarHeaderIdx)
  /\ Exit("rejected")

\* The parser is at a complete block.
AtBlock == At("parse") /\ residual = 0 /\ HasBlock(input, tarHeaderIdx)

\* Mutant: every null block is an element.
TakeNullAlone ==
  /\ AtBlock /\ isZeroTarBlock(BlockAt(input, tarHeaderIdx))
  /\ EndTurn(blockSize + TarBlock, 0, tarHeaderIdx + TarBlock, FALSE)
  /\ UNCHANGED paxNextSize

TakeNull ==
  /\ AtBlock /\ isZeroTarBlock(BlockAt(input, tarHeaderIdx))
  /\ LET next == tarHeaderIdx + TarBlock
     IN  EndTurn(blockSize + TarBlock, 0, next,
                 HasBlock(input, next) /\ isZeroTarBlock(BlockAt(input, next)))
  /\ UNCHANGED paxNextSize

header == BlockAt(input, tarHeaderIdx)

entrySize == tarEntrySize(header, paxNextSize)

toNextHeader == Padded(entrySize) + TarBlock + SparseExt(input, tarHeaderIdx)

\* The whole entry is in the file.  The test of the size comes first: it keeps
\* the sum within 64 bits.
ValidEntry ==
  /\ isTarHeader(header)
  /\ entrySize <= inBuffSize
  /\ toNextHeader <= inBuffSize - tarHeaderIdx

TakeEntry ==
  /\ AtBlock /\ ~isZeroTarBlock(header) /\ ValidEntry
  /\ paxNextSize' = IF header.type = "x"
                    THEN paxSize(input, tarHeaderIdx + TarBlock, entrySize)
                    ELSE PaxLeft(header, paxNextSize)
  /\ EndTurn(blockSize + toNextHeader, 0, tarHeaderIdx + toNextHeader,
             joinsNextEntry(header))

\* "Invalid tar header", "Invalid tar entry size", "Truncated tar entry".
RejectEntry ==
  /\ AtBlock /\ ~isZeroTarBlock(header) /\ ~ValidEntry
  /\ Exit("rejected")

----------------------------------------------------------------------------
(* Both modes. *)

\* One frame from the next blockSize bytes of the file.
Compress ==
  /\ At("compress")
  /\ fw' = CompressBuffer(fw, blockSize)
  /\ readBuff' = readBuff + blockSize
  /\ pc' = "loop"
  /\ UNCHANGED <<given, status, tarHeaderIdx, joinNext, paxNextSize, lastChunk,
                 residual, blockSize>>

\* The loop ended: a tar file without frames is no archive.
Finish ==
  /\ (At("loop") /\ ~Again) \/ At("end")
  /\ Exit(IF ~opts.raw /\ fw.count = 0 THEN "rejected" ELSE "ok")

\* fwrite() fails, when a frame or the seek table is written.
IOError == status = "running" /\ Exit("ioError")

Step ==
  \/ RawBlock \/ RawEnd
  \/ BeginBlock \/ TakeResidual \/ RejectTail \/ TakeNull \/ TakeEntry \/ RejectEntry
  \/ Compress \/ Finish

Next == Step \/ IOError

\* One thread runs the loops, and every fwrite() returns.
Spec == Init /\ [][Next]_vars /\ WF_vars(Step)
----------------------------------------------------------------------------
TypeOK ==
  /\ input \in Stream
  /\ opts \in CommandLine
  /\ fw \in FrameState
  /\ status \in Statuses
  /\ pc \in {"loop", "parse", "compress", "end"}
  /\ tarHeaderIdx \in Nat
  /\ readBuff \in Nat
  /\ joinNext \in BOOLEAN
  /\ paxNextSize \in 0 .. U64Max
  /\ lastChunk \in BOOLEAN
  /\ residual \in Nat
  /\ blockSize \in Nat

\* The bytes between those compressed and the parser are the block being put
\* together and the residual, so that the next block starts where the last one
\* ended and none goes past the end of the mapping; the loop never takes up a
\* residual with bytes of another element already in the block, which it would
\* drop (`blockSize = residual').
Accounted ==
  status = "running" =>
    /\ readBuff = Complete(fw)
    /\ ~opts.raw =>
         CASE pc = "loop"     -> readBuff + residual = tarHeaderIdx
           [] pc = "parse"    -> readBuff + blockSize + residual = tarHeaderIdx
                                 /\ (blockSize = 0 \/ residual = 0)
           [] pc = "compress" -> readBuff + blockSize + residual = tarHeaderIdx
           [] OTHER           -> FALSE
    /\ pc = "compress" => readBuff + blockSize <= inBuffSize

\* Every block has a byte at least, and fits in a frame.
BlockFits == status = "running" /\ pc = "compress" => blockSize \in 1 .. maxBlockSize(opts)
=============================================================================
