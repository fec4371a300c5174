--------------------------- MODULE MmapFileProofs ---------------------------
(***************************************************************************)
(* Theorems about the loops of compressFile() over a mapped file, in raw   *)
(* and in tar mode, for every input and command line: they lose no byte,   *)
(* and write the frames of Framing.                                        *)
(*                                                                         *)
(* The inductive invariant adds to Accounted where the parser may be       *)
(* (Placed), why a block ends there (Cut), and what the parser knows of    *)
(* the layout of the archive: the elements behind it, and that those ahead *)
(* are the ones that parsing finds from here on (Parsed).                  *)
(***************************************************************************)
EXTENDS MmapFile, FrameWriterProofs

(***************************************************************************)
(* The inductive invariant.                                                *)
(***************************************************************************)

Limit == IF opts.raw /\ minBlockSize(opts) > 0 THEN minBlockSize(opts) ELSE maxBlockSize(opts)

\* A file that is mapped has a byte, and a size that off_t holds.
Mapped == Given /\ inBuffSize > 0 /\ inBuffSize + TarBlock <= U64Max

\* Parser and compressor never leave the mapping, and the block being put
\* together is what is between them, but for the residual.
Placed ==
  /\ readBuff = Complete(fw) /\ ~fw.open
  /\ readBuff <= inBuffSize /\ tarHeaderIdx <= inBuffSize
  /\ pc = "compress" => readBuff + blockSize <= inBuffSize
  /\ pc = "end" => readBuff = inBuffSize
  /\ opts.raw =>
       /\ residual = 0 /\ pc # "parse"
       /\ lastChunk => readBuff + (IF pc = "compress" THEN blockSize ELSE 0) = inBuffSize
  /\ ~opts.raw =>
       /\ pc # "end"
       /\ readBuff + residual + (IF pc = "loop" THEN 0 ELSE blockSize) = tarHeaderIdx
       /\ pc = "parse" => blockSize = 0 \/ residual = 0
       /\ pc = "parse" => ~lastChunk \/ residual > 0
       /\ lastChunk <=> tarHeaderIdx = inBuffSize

\* A block to compress has a byte and fits in a frame.  It ends where it is as
\* large as a frame may be, at the end of the file, or at the end of an element
\* once it has the minimum; and it goes on otherwise.
Cut ==
  /\ pc = "compress" =>
       /\ blockSize \in 1 .. Limit
       /\ \/ blockSize = Limit
          \/ readBuff + blockSize = inBuffSize
          \/ ~opts.raw /\ residual = 0 /\ ~joinNext /\ blockSize >= minBlockSize(opts)
  /\ pc = "parse" /\ blockSize > 0 /\ ~joinNext => blockSize < minBlockSize(opts)

\* The parser knows the layout up to where it is.
Parsed == ~opts.raw => ParsedTo(tarHeaderIdx, paxNextSize, joinNext, readBuff)

IInv == TypeOK /\ Mapped /\ Placed /\ Cut /\ Parsed /\ Described(fw, opts)

(***************************************************************************)
(* Facts about the steps.                                                  *)
(***************************************************************************)

\* The sizes of a run, from the assumptions on the constants.
LEMMA Sizes ==
  ASSUME TypeOK
  PROVE  /\ maxBlockSize(opts) \in Nat \ {0} /\ maxBlockSize(opts) <= MaxFrameSize
         /\ minBlockSize(opts) \in Nat /\ minBlockSize(opts) <= MaxFrameSize
         /\ Limit \in Nat \ {0} /\ Limit <= MaxFrameSize /\ Limit <= maxBlockSize(opts)
         /\ (~opts.raw => Limit = maxBlockSize(opts) /\ minBlockSize(opts) <= Limit)
         /\ (opts.raw => rawBlockSize = Limit)
         /\ inBuffSize \in Nat /\ TarBlock \in Nat \ {0}
<1>1. opts \in CommandLine /\ input \in Stream
  BY DEF TypeOK
<1>2. inBuffSize \in Nat /\ TarBlock \in Nat \ {0}
  BY <1>1, TarAssumption DEF Total, Stream, inBuffSize
<1>3. /\ maxBlockSize(opts) \in Nat \ {0} /\ maxBlockSize(opts) <= MaxFrameSize
      /\ minBlockSize(opts) \in Nat /\ minBlockSize(opts) <= MaxFrameSize
      /\ opts.raw => maxBlockSize(opts) = MaxFrameSize
      /\ ~opts.raw => minBlockSize(opts) <= maxBlockSize(opts)
  BY <1>1, ConfigAssumption DEF CommandLine, maxBlockSize, minBlockSize
<1> QED
  BY <1>2, <1>3, ConfigAssumption DEF Limit, rawBlockSize

\* The end of a turn keeps parser, block and residual together.
LEMMA EndTurnFacts ==
  ASSUME IInv, ~opts.raw, At("parse"), NEW size \in Nat \ {0}, NEW rest \in Nat,
         NEW idx \in Nat, NEW join \in BOOLEAN,
         idx <= inBuffSize, readBuff + size + rest = idx,
         rest > 0 => size = maxBlockSize(opts),
         EndTurn(size, rest, idx, join), paxNextSize' \in 0 .. U64Max,
         ParsedTo(idx, paxNextSize', join, readBuff)
  PROVE  IInv'
<1>1. /\ TypeOK /\ Placed /\ Limit = maxBlockSize(opts) /\ maxBlockSize(opts) \in Nat \ {0}
      /\ minBlockSize(opts) \in Nat /\ minBlockSize(opts) <= Limit /\ inBuffSize \in Nat
      /\ readBuff \in Nat
  BY Sizes DEF IInv, TypeOK
<1>2. /\ input' = input /\ opts' = opts /\ layout' = layout /\ fw' = fw /\ status' = status
      /\ readBuff' = readBuff /\ tarHeaderIdx' = idx /\ joinNext' = join
      /\ lastChunk' = (idx >= inBuffSize) /\ inBuffSize' = inBuffSize
      /\ Limit' = Limit
  BY DEF EndTurn, given, Limit, inBuffSize
<1>3. /\ residual' \in Nat /\ blockSize' \in 1 .. maxBlockSize(opts)
      /\ readBuff + blockSize' + residual' = idx
      /\ residual' > 0 => blockSize' = maxBlockSize(opts)
  BY <1>1 DEF EndTurn
<1>4. /\ pc' \in {"parse", "compress"}
      /\ pc' = "parse" => residual' = 0 /\ ~lastChunk'
      /\ pc' = "compress" => lastChunk' \/ residual' > 0 \/ blockSize' >= minBlockSize(opts)
  <2> DEFINE more == ~lastChunk' /\ residual' = 0 /\ (blockSize' < minBlockSize(opts) \/ join)
  <2>1. pc' = IF more THEN "parse" ELSE "compress"
    BY DEF EndTurn
  <2>2. CASE more
    BY <2>1, <2>2
  <2>3. CASE ~more
    <3>1. lastChunk' \/ residual' # 0 \/ ~(blockSize' < minBlockSize(opts))
      BY <2>3
    <3>2. residual' # 0 => residual' > 0
      BY <1>3
    <3>3. ~(blockSize' < minBlockSize(opts)) => blockSize' >= minBlockSize(opts)
      BY <1>1, <1>3
    <3> HIDE DEF more
    <3> QED
      BY <2>1, <2>3, <3>1, <3>2, <3>3
  <2> QED
    BY <2>2, <2>3
<1>5. lastChunk' \in BOOLEAN /\ (lastChunk' <=> idx = inBuffSize)
  <2>1. CASE idx >= inBuffSize
    <3>1. idx = inBuffSize
      BY <1>1, <2>1
    <3>2. lastChunk' = TRUE
      BY <1>2, <2>1
    <3> QED
      BY <3>1, <3>2
  <2>2. CASE ~(idx >= inBuffSize)
    <3>1. (idx >= inBuffSize) = FALSE
      BY <2>2
    <3>2. lastChunk' = FALSE
      BY <1>2, <3>1, Zenon
    <3>3. idx # inBuffSize
      BY <1>1, <2>2
    <3> QED
      BY <3>2, <3>3
  <2> QED
    BY <2>1, <2>2
<1>6. TypeOK'
  BY <1>1, <1>2, <1>3, <1>4, <1>5 DEF TypeOK
<1>7. Placed'
  BY <1>1, <1>2, <1>3, <1>4, <1>5 DEF Placed, At
<1>8. Cut'
  <2>1. CASE pc' = "compress"
    <3>1. PICK b \in 1 .. Limit : b = blockSize'
      BY <1>1, <1>3
    <3>2. PICK r \in Nat : r = residual'
      BY <1>3
    <3>3. readBuff + b + r = idx /\ (r > 0 => b = Limit) /\ (r = 0 \/ r > 0)
      <4>1. readBuff + b + r = idx
        BY <1>3, <3>1, <3>2, Zenon
      <4>2. r > 0 => b = Limit
        BY <1>1, <1>3, <3>1, <3>2, Zenon
      <4> QED
        BY <4>1, <4>2
    <3>4. CASE r = 0 /\ ~lastChunk'
      <4>1. ~(blockSize' < minBlockSize(opts) \/ join)
        BY <2>1, <3>2, <3>4 DEF EndTurn
      <4>2. b >= minBlockSize(opts) /\ ~join
        BY <1>1, <3>1, <4>1
      <4> QED
        BY <1>2, <2>1, <3>1, <3>2, <3>4, <4>2 DEF Cut
    <3>5. CASE r = 0 /\ lastChunk'
      <4>1. readBuff + b = inBuffSize
        BY <1>1, <1>5, <3>3, <3>5
      <4> QED
        BY <1>2, <2>1, <3>1, <4>1 DEF Cut
    <3>6. CASE r > 0
      BY <1>2, <2>1, <3>1, <3>3, <3>6 DEF Cut
    <3> QED
      BY <3>3, <3>4, <3>5, <3>6
  <2>2. CASE pc' = "parse"
    <3>1. blockSize' < minBlockSize(opts) \/ join
      BY <2>2 DEF EndTurn
    <3> QED
      BY <1>2, <2>2, <3>1 DEF Cut
  <2> QED
    BY <1>4, <2>1, <2>2
<1>9. Parsed'
  BY <1>2 DEF Parsed, ParsedTo
<1>10. Mapped' /\ Described(fw', opts')
  BY <1>2 DEF IInv, Mapped, Given
<1> QED
  BY <1>6, <1>7, <1>8, <1>9, <1>10 DEF IInv

\* The parser takes an entry when the layout says it is whole: the tests of the
\* code, which avoid a sum that does not fit in 64 bits, are as good as those.
LEMMA EntryFacts ==
  ASSUME IInv, AtBlock
  PROVE  /\ ValidEntry <=> IsWholeEntry(input, tarHeaderIdx, paxNextSize)
         /\ tarHeaderIdx + toNextHeader = EntryEnd(input, tarHeaderIdx, paxNextSize)
         /\ (IF header.type = "x" THEN paxSize(input, tarHeaderIdx + TarBlock, entrySize)
             ELSE PaxLeft(header, paxNextSize)) = PaxNext(input, tarHeaderIdx, paxNextSize)
         /\ joinsNextEntry(header) \in BOOLEAN
<1>1. /\ input \in Stream /\ tarHeaderIdx \in Nat /\ paxNextSize \in 0 .. U64Max
      /\ HasBlock(input, tarHeaderIdx) /\ inBuffSize \in Nat /\ TarBlock \in Nat \ {0}
      /\ inBuffSize + TarBlock <= U64Max /\ inBuffSize = Total(input) /\ U64Max \in Nat
  BY Sizes, TarAssumption DEF IInv, Mapped, TypeOK, AtBlock, inBuffSize
<1>2. header \in Block
  BY <1>1, BlockAtType DEF header
<1>3. PICK size \in 0 .. U64Max : size = entrySize
  BY <1>1, <1>2, EntrySizeType DEF entrySize
<1>4. size \in Nat /\ Padded(size) \in Nat /\ Padded(size) >= size
  <2>1. size \in Nat
    BY <1>1, <1>3
  <2> QED
    BY <2>1, PaddedNat
<1>5. PICK ext \in Nat : ext = SparseExt(input, tarHeaderIdx)
  BY <1>1, SparseExtNat
<1>6. PICK padded \in Nat : padded = Padded(size)
  BY <1>4
<1>7. /\ toNextHeader = padded + TarBlock + ext
      /\ EntryEnd(input, tarHeaderIdx, paxNextSize) = tarHeaderIdx + TarBlock + ext + padded
  BY <1>3, <1>5, <1>6 DEF toNextHeader, EntryEnd, entrySize, header
<1>8. ValidEntry <=> IsWholeEntry(input, tarHeaderIdx, paxNextSize)
  <2>1. ValidEntry <=> /\ isTarHeader(header) /\ size <= inBuffSize
                       /\ padded + TarBlock + ext <= inBuffSize - tarHeaderIdx
    BY <1>3, <1>7 DEF ValidEntry
  <2>2. IsWholeEntry(input, tarHeaderIdx, paxNextSize) <=>
          /\ isTarHeader(header) /\ ~(size > U64Max - 2 * TarBlock)
          /\ tarHeaderIdx + TarBlock + ext + padded <= inBuffSize
    BY <1>1, <1>3, <1>7 DEF IsWholeEntry, TooLarge, entrySize, header
  <2>3. tarHeaderIdx + TarBlock + ext + padded <= inBuffSize =>
          size <= inBuffSize /\ ~(size > U64Max - 2 * TarBlock)
    BY <1>1, <1>4, <1>6
  <2>4. /\ padded + TarBlock + ext <= inBuffSize - tarHeaderIdx
             <=> tarHeaderIdx + TarBlock + ext + padded <= inBuffSize
    BY <1>1
  <2> QED
    BY <2>1, <2>2, <2>3, <2>4
<1>9. tarHeaderIdx + toNextHeader = EntryEnd(input, tarHeaderIdx, paxNextSize)
  BY <1>1, <1>7
<1>10. joinsNextEntry(header) \in BOOLEAN
  BY <1>2 DEF joinsNextEntry, isExtensionHeader, Block
<1>11. header.type = "x" => entrySize = header.size
  BY DEF entrySize, tarEntrySize, isExtensionHeader
<1> QED
  BY <1>8, <1>9, <1>10, <1>11 DEF PaxNext, header

\* Compressing a block moves the end of the frames to the end of the block.
LEMMA BlockFacts ==
  ASSUME IInv, Compress
  PROVE  /\ fw' \in FrameState /\ Described(fw', opts) /\ ~fw'.open
         /\ Complete(fw') = readBuff + blockSize
         /\ fw'.ends = Append(fw.ends, readBuff + blockSize)
<1>1. /\ fw \in FrameState /\ opts \in CommandLine /\ blockSize \in Nat /\ ~fw.open
      /\ readBuff = Complete(fw) /\ Complete(fw) \in Nat /\ Described(fw, opts)
      /\ Limit \in Nat \ {0} /\ Limit <= MaxFrameSize /\ MaxFrameSize \in Nat
  BY Sizes, CompleteType, ConfigAssumption DEF IInv, TypeOK, Placed
<1>2. blockSize \in 1 .. Limit /\ fw' = CompressBuffer(fw, blockSize)
  BY DEF IInv, Cut, Compress, At
<1>3. PICK n \in 1 .. Limit : n = blockSize
  BY <1>2
<1>4. n \in Nat /\ n <= MaxFrameSize
  BY <1>1, <1>3
<1>5. PICK g : g = CompressBuffer(fw, n)
  OBVIOUS
<1>6. /\ g \in FrameState /\ g.open = fw.open /\ Described(g, opts)
      /\ g.ends = Append(fw.ends, Complete(fw) + n)
      /\ Complete(g) = Complete(fw) + n
  <2>1. opts \in CommandLine /\ fw \in FrameState /\ Described(fw, opts)
    BY <1>1
  <2> QED
    BY <1>4, <1>5, <2>1, CompressFacts, SMT
<1>7. fw' = g
  BY <1>2, <1>3, <1>5, Zenon
<1> QED
  BY <1>1, <1>3, <1>6, <1>7, Zenon

(***************************************************************************)
(* The invariant holds at the start, and a step preserves it.              *)
(***************************************************************************)

\* Nothing was read.
LEMMA InitInv ==
  ASSUME Init
  PROVE  IInv
<1>1. Given /\ inBuffSize > 0 /\ inBuffSize + TarBlock <= U64Max
  BY ConfigAssumption, InputsAssumption DEF Init, Given, inBuffSize
<1>2. /\ fw \in FrameState /\ Described(fw, opts)
      /\ ~fw.open /\ fw.ends = <<>> /\ fw.table = <<>> /\ Complete(fw) = 0
  BY <1>1, NoFramesFacts DEF Init, Complete, Given
<1>3. TypeOK
  <2>1. /\ status = "running" /\ pc = "loop" /\ tarHeaderIdx = 0 /\ readBuff = 0
        /\ joinNext = FALSE /\ paxNextSize = U64Max /\ lastChunk = FALSE
        /\ residual = 0 /\ blockSize = 0
    BY DEF Init, NoSize
  <2>2. U64Max \in 0 .. U64Max
    BY TarAssumption
  <2> QED
    BY <1>1, <1>2, <2>1, <2>2 DEF TypeOK, Statuses, Given
<1>4. Placed /\ Cut
  BY <1>1, <1>2, <1>3, Sizes DEF Init, Placed, Cut
<1>5. Parsed
  <2>1. layout = Rest(input)[<<tarHeaderIdx, paxNextSize>>] /\ tarHeaderIdx = 0
    BY DEF Init, Layout
  <2>2. \A x \in layout.ends : x \in Nat
    BY <1>1, LayoutType, TotalType DEF Given, Layouts
  <2> QED
    BY <2>1, <2>2 DEF Parsed, ParsedTo
<1> QED
  BY <1>1, <1>2, <1>3, <1>4, <1>5 DEF IInv, Mapped

\* What a step keeps that leaves the frames and the parser alone.
LEMMA SameFile ==
  ASSUME IInv, UNCHANGED given, fw' = fw
  PROVE  /\ Limit' = Limit /\ inBuffSize' = inBuffSize /\ rawBlockSize' = rawBlockSize
         /\ Mapped' /\ Described(fw', opts')
         /\ UNCHANGED <<tarHeaderIdx, paxNextSize, joinNext, readBuff>> => Parsed'
  BY DEF given, Limit, inBuffSize, rawBlockSize, IInv, Mapped, Given, Parsed, ParsedTo

\* Raw mode keeps it.
LEMMA RawSteps ==
  ASSUME IInv, RawBlock \/ RawEnd
  PROVE  IInv'
<1>1. /\ TypeOK /\ Placed /\ Limit \in Nat \ {0} /\ inBuffSize \in Nat /\ readBuff \in Nat
      /\ opts.raw /\ rawBlockSize = Limit /\ status = "running" /\ pc = "loop"
      /\ residual = 0 /\ readBuff <= inBuffSize
  BY Sizes DEF IInv, TypeOK, Placed, RawBlock, RawEnd, At
<1>2. UNCHANGED <<given, fw, status, tarHeaderIdx, readBuff, joinNext, paxNextSize, residual>>
  BY DEF RawBlock, RawEnd
<1>3. /\ Limit' = Limit /\ inBuffSize' = inBuffSize /\ Mapped' /\ Described(fw', opts')
      /\ Parsed'
  BY <1>2, SameFile
<1>4. CASE RawBlock
  <2>0. /\ inBuffSize - readBuff > 0 /\ ~lastChunk /\ pc' = "compress"
        /\ \/ /\ Limit > inBuffSize - readBuff
              /\ blockSize' = inBuffSize - readBuff /\ lastChunk' = TRUE
           \/ /\ ~(Limit > inBuffSize - readBuff)
              /\ blockSize' = Limit /\ lastChunk' = lastChunk
    BY <1>1, <1>4 DEF RawBlock, rawRemaining, Again
  <2>1. /\ blockSize' \in 1 .. Limit /\ readBuff + blockSize' <= inBuffSize
        /\ blockSize' = Limit \/ readBuff + blockSize' = inBuffSize
        /\ lastChunk' \in BOOLEAN /\ pc' = "compress"
        /\ ~lastChunk
        /\ lastChunk' => readBuff + blockSize' = inBuffSize
    <3>1. CASE blockSize' = inBuffSize - readBuff /\ lastChunk' = TRUE
                 /\ Limit > inBuffSize - readBuff
      BY <1>1, <2>0, <3>1
    <3>2. CASE blockSize' = Limit /\ lastChunk' = lastChunk
                 /\ ~(Limit > inBuffSize - readBuff)
      <4>1. lastChunk' = FALSE
        BY <1>1, <2>0, <3>2 DEF TypeOK
      <4>2. blockSize' \in 1 .. Limit /\ readBuff + blockSize' <= inBuffSize
        BY <1>1, <3>2
      <4> QED
        BY <2>0, <3>2, <4>1, <4>2
    <3> QED
      BY <2>0, <3>1, <3>2
  <2>2. TypeOK'
    BY <1>1, <1>2, <2>1 DEF TypeOK, given
  <2>3. Placed'
    BY <1>1, <1>2, <1>3, <2>1 DEF Placed, given
  <2>4. Cut'
    BY <1>2, <1>3, <2>1 DEF Cut, given
  <2> QED
    BY <1>3, <2>2, <2>3, <2>4 DEF IInv
<1>5. CASE RawEnd
  <2>1. readBuff = inBuffSize /\ pc' = "end" /\ lastChunk' = lastChunk /\ blockSize' = blockSize
        /\ ~lastChunk
    BY <1>1, <1>5 DEF RawEnd, rawRemaining, Again
  <2>2. TypeOK'
    BY <1>1, <1>2, <2>1 DEF TypeOK, given
  <2>3. Placed'
    BY <1>1, <1>2, <1>3, <2>1 DEF Placed, given
  <2>4. Cut'
    BY <1>2, <1>3, <2>1 DEF Cut, given
  <2> QED
    BY <1>3, <2>2, <2>3, <2>4 DEF IInv
<1> QED
  BY <1>4, <1>5

\* A turn of the parser keeps it.
LEMMA TurnSteps ==
  ASSUME IInv, TakeResidual \/ TakeNull \/ TakeEntry
  PROVE  IInv'
<1>1. /\ TypeOK /\ Placed /\ inBuffSize \in Nat /\ readBuff \in Nat /\ blockSize \in Nat
      /\ residual \in Nat /\ tarHeaderIdx \in Nat /\ joinNext \in BOOLEAN
      /\ TarBlock \in Nat \ {0} /\ maxBlockSize(opts) \in Nat \ {0}
      /\ paxNextSize \in 0 .. U64Max
      /\ At("parse") /\ ~opts.raw /\ tarHeaderIdx <= inBuffSize
      /\ readBuff + residual + blockSize = tarHeaderIdx
      /\ blockSize = 0 \/ residual = 0
      /\ ParsedTo(tarHeaderIdx, paxNextSize, joinNext, readBuff)
  BY Sizes DEF IInv, TypeOK, Placed, Parsed, TakeResidual, TakeNull, TakeEntry, AtBlock, At
<1>2. CASE TakeResidual
  <2>1. residual > 0 /\ paxNextSize' = paxNextSize /\ blockSize = 0
    BY <1>1, <1>2 DEF TakeResidual
  <2>2. CASE residual > maxBlockSize(opts)
    <3>1. EndTurn(maxBlockSize(opts), residual - maxBlockSize(opts), tarHeaderIdx, joinNext)
      BY <1>2, <2>2 DEF TakeResidual
    <3>2. PICK rest \in Nat : rest = residual - maxBlockSize(opts)
      BY <1>1, <2>2
    <3>3. readBuff + maxBlockSize(opts) + rest = tarHeaderIdx
      BY <1>1, <2>1, <3>2
    <3>4. EndTurn(maxBlockSize(opts), rest, tarHeaderIdx, joinNext)
      BY <3>1, <3>2, Zenon
    <3> QED
      BY <1>1, <2>1, <3>3, <3>4, EndTurnFacts
  <2>3. CASE ~(residual > maxBlockSize(opts))
    <3>1. EndTurn(residual, 0, tarHeaderIdx, joinNext)
      BY <1>2, <2>3 DEF TakeResidual
    <3>2. residual \in Nat \ {0} /\ 0 \in Nat /\ readBuff + residual + 0 = tarHeaderIdx
          /\ ~(0 > 0)
      BY <1>1, <2>1
    <3> QED
      BY <1>1, <2>1, <3>1, <3>2, EndTurnFacts
  <2> QED
    BY <2>2, <2>3
<1>3. ASSUME NEW end, NEW next, NEW join,
             Leads(input, tarHeaderIdx, paxNextSize, end, next, join), residual = 0
      PROVE  /\ end \in Nat /\ end <= inBuffSize /\ end > tarHeaderIdx /\ next \in 0 .. U64Max
             /\ ParsedTo(end, next, join, readBuff)
  <2>1. Given /\ inBuffSize = Total(input) /\ minBlockSize(opts) \in Nat
    BY <1>1, Sizes DEF IInv, Mapped, inBuffSize
  <2>2. <<tarHeaderIdx, paxNextSize>> \in Places(input)
    BY <1>1, <2>1, PlaceFacts DEF Given
  <2>3. /\ end \in Nat /\ end <= inBuffSize /\ end > tarHeaderIdx /\ next \in 0 .. U64Max
    <3>1. input \in Stream
      BY <2>1 DEF Given
    <3>2. end \in tarHeaderIdx + 1 .. Total(input) /\ end \in Nat /\ next \in 0 .. U64Max
      BY <1>3, <2>2, <3>1, LeadsOn
    <3> QED
      BY <1>1, <2>1, <3>2
  <2>4. readBuff < tarHeaderIdx /\ ~joinNext => tarHeaderIdx < readBuff + minBlockSize(opts)
    <3>1. blockSize > 0 /\ ~joinNext => blockSize < minBlockSize(opts)
      BY <1>1 DEF IInv, Cut, At
    <3> QED
      BY <1>1, <1>3, <2>1, <3>1
  <2>5. ParsedTo(end, next, join, readBuff)
    BY <1>1, <1>3, <2>1, <2>2, <2>4, ParsedOn
  <2> QED
    BY <2>3, <2>5
<1>4. CASE TakeNull
  <2> DEFINE next == tarHeaderIdx + TarBlock
             join == IsNullBlock(input, next)
             size == blockSize + TarBlock
  <2>1. residual = 0 /\ paxNextSize' = paxNextSize /\ EndTurn(size, 0, next, join)
    BY <1>4 DEF TakeNull, AtBlock, IsNullBlock
  <2>2. Leads(input, tarHeaderIdx, paxNextSize, next, paxNextSize, join)
    BY <1>4 DEF TakeNull, AtBlock, IsNullBlock, Leads
  <2>3. /\ next \in Nat /\ next <= inBuffSize
        /\ ParsedTo(next, paxNextSize, join, readBuff)
    BY <1>3, <2>1, <2>2
  <2>4. size \in Nat \ {0} /\ readBuff + size + 0 = next
    BY <1>1, <2>1
  <2>5. join \in BOOLEAN /\ 0 \in Nat /\ ~(0 > 0)
    BY DEF IsNullBlock, HasBlock, isZeroTarBlock
  <2>6. ParsedTo(next, paxNextSize', join, readBuff) /\ paxNextSize' \in 0 .. U64Max
    BY <1>1, <2>1, <2>3
  <2> HIDE DEF next, join, size
  <2> QED
    BY <1>1, <2>1, <2>3, <2>4, <2>5, <2>6, EndTurnFacts
<1>5. CASE TakeEntry
  <2> DEFINE next == tarHeaderIdx + toNextHeader
             join == joinsNextEntry(header)
             size == blockSize + toNextHeader
  <2>1. AtBlock /\ ValidEntry /\ residual = 0 /\ EndTurn(size, 0, next, join)
        /\ ~isZeroTarBlock(header) /\ HasBlock(input, tarHeaderIdx)
    BY <1>5 DEF TakeEntry, AtBlock
  <2>2. /\ IsWholeEntry(input, tarHeaderIdx, paxNextSize)
        /\ next = EntryEnd(input, tarHeaderIdx, paxNextSize)
        /\ paxNextSize' = PaxNext(input, tarHeaderIdx, paxNextSize)
        /\ join \in BOOLEAN
    BY <1>5, <2>1, EntryFacts DEF TakeEntry
  <2>3. Leads(input, tarHeaderIdx, paxNextSize, next, paxNextSize', join)
    BY <2>1, <2>2 DEF Leads, IsNullBlock, header
  <2>4. /\ next \in Nat /\ next <= inBuffSize /\ next > tarHeaderIdx
        /\ paxNextSize' \in 0 .. U64Max /\ ParsedTo(next, paxNextSize', join, readBuff)
    BY <1>3, <2>1, <2>3
  <2>5. size \in Nat \ {0} /\ readBuff + size + 0 = next
    <3>1. PICK n : n = toNextHeader
      OBVIOUS
    <3>2. n \in Nat \ {0}
      <4>1. toNextHeader \in Nat
        <5>1. header \in Block
          BY <2>1, BlockAtType, <1>1 DEF header, IInv, TypeOK
        <5>2. entrySize \in 0 .. U64Max
          BY <1>1, <5>1, EntrySizeType DEF entrySize
        <5>3. entrySize \in Nat
          BY <5>2, TarAssumption
        <5>4. Padded(entrySize) \in Nat /\ SparseExt(input, tarHeaderIdx) \in Nat
          BY <1>1, <5>3, PaddedNat, SparseExtNat DEF IInv, TypeOK
        <5> QED
          BY <1>1, <5>4 DEF toNextHeader
      <4> QED
        BY <1>1, <2>4, <3>1, <4>1
    <3> QED
      BY <1>1, <2>1, <3>1, <3>2
  <2>6. 0 \in Nat /\ ~(0 > 0)
    OBVIOUS
  <2> HIDE DEF next, join, size
  <2> QED
    BY <1>1, <2>1, <2>2, <2>4, <2>5, <2>6, EndTurnFacts
<1> QED
  BY <1>2, <1>4, <1>5

\* Every step keeps it.
LEMMA InvStep ==
  ASSUME IInv, [Next]_vars
  PROVE  IInv'
<1>1. /\ TypeOK /\ Placed /\ Cut /\ inBuffSize \in Nat /\ readBuff \in Nat
      /\ blockSize \in Nat /\ residual \in Nat /\ tarHeaderIdx \in Nat
  BY Sizes DEF IInv, TypeOK
<1>2. CASE BeginBlock
  <2>1. /\ UNCHANGED <<given, fw, status, tarHeaderIdx, readBuff, joinNext, paxNextSize,
                       lastChunk, residual>>
        /\ blockSize' = 0 /\ pc' = "parse" /\ ~opts.raw /\ Again
        /\ pc = "loop" /\ status = "running"
    BY <1>2 DEF BeginBlock, At
  <2>2. Limit' = Limit /\ inBuffSize' = inBuffSize /\ Mapped' /\ Described(fw', opts') /\ Parsed'
    BY <2>1, SameFile
  <2>3. TypeOK'
    BY <1>1, <2>1 DEF TypeOK, given
  <2>4. Placed'
    BY <1>1, <2>1, <2>2 DEF Placed, Again, given
  <2>5. Cut'
    BY <2>1 DEF Cut
  <2> QED
    BY <2>2, <2>3, <2>4, <2>5 DEF IInv
<1>3. CASE Compress
  <2>1. /\ UNCHANGED <<given, status, tarHeaderIdx, joinNext, paxNextSize, lastChunk,
                       residual, blockSize>>
        /\ readBuff' = readBuff + blockSize /\ pc' = "loop"
        /\ pc = "compress" /\ status = "running"
    BY <1>3 DEF Compress, At
  <2>2. /\ fw' \in FrameState /\ Described(fw', opts) /\ ~fw'.open
        /\ Complete(fw') = readBuff + blockSize
    BY <1>3, BlockFacts
  <2>3. Limit' = Limit /\ inBuffSize' = inBuffSize
    BY <2>1 DEF Limit, inBuffSize, given
  <2>4. TypeOK'
    BY <1>1, <2>1, <2>2 DEF TypeOK, given
  <2>5. Placed'
    BY <1>1, <2>1, <2>2, <2>3 DEF Placed, given
  <2>6. Cut'
    BY <2>1 DEF Cut
  <2>7. Mapped' /\ Described(fw', opts')
    BY <2>1, <2>2, <2>3 DEF IInv, Mapped, Given, given
  <2>8. Parsed'
    <3>1. SUFFICES ASSUME ~opts.raw
                   PROVE  ParsedTo(tarHeaderIdx, paxNextSize, joinNext, readBuff + blockSize)
      BY <2>1 DEF Parsed, ParsedTo, given
    <3>2. ParsedTo(tarHeaderIdx, paxNextSize, joinNext, readBuff)
      BY <3>1 DEF IInv, Parsed
    <3>3. ASSUME NEW x \in layout.ends, readBuff + blockSize < x, x < tarHeaderIdx
          PROVE  FALSE
      <4>1. x \in Nat
        BY LayoutType, TotalType DEF IInv, Mapped, Given, Layouts
      <4>2. x < readBuff + minBlockSize(opts)
        BY <1>1, <3>2, <3>3, <4>1 DEF ParsedTo
      <4>3. blockSize < minBlockSize(opts) /\ residual # 0
        BY <1>1, <2>1, <3>1, <3>3, <4>1, <4>2, Sizes DEF IInv, Placed
      <4> QED
        BY <1>1, <2>1, <3>1, <3>3, <4>1, <4>3, Sizes DEF IInv, Placed, Cut
    <3> QED
      BY <3>2, <3>3 DEF ParsedTo
  <2> QED
    BY <2>4, <2>5, <2>6, <2>7, <2>8 DEF IInv
<1>4. ASSUME NEW how \in Statuses, Exit(how)
      PROVE  IInv'
  <2>1. status' = how /\ UNCHANGED <<given, fw, pc, tarHeaderIdx, readBuff, joinNext,
                                     paxNextSize, lastChunk, residual, blockSize>>
    BY <1>4 DEF Exit, locals
  <2>2. Limit' = Limit /\ inBuffSize' = inBuffSize /\ Mapped' /\ Described(fw', opts') /\ Parsed'
    BY <2>1, SameFile
  <2>3. TypeOK'
    BY <1>1, <2>1 DEF TypeOK, given
  <2>4. Placed'
    BY <1>1, <1>4, <2>1, <2>2 DEF Placed, given
  <2>5. Cut'
    BY <1>1, <2>1, <2>2 DEF Cut, given
  <2> QED
    BY <2>2, <2>3, <2>4, <2>5 DEF IInv
<1>5. CASE RejectTail \/ RejectEntry \/ IOError
  BY <1>4, <1>5 DEF RejectTail, RejectEntry, IOError, Statuses
<1>6. CASE Finish
  BY <1>4, <1>6 DEF Finish, Statuses
<1>7. CASE UNCHANGED vars
  <2>1. UNCHANGED given /\ fw' = fw /\ UNCHANGED status /\ UNCHANGED locals
    BY <1>7 DEF vars
  <2> QED
    BY <1>4, <2>1, <1>1 DEF Exit, TypeOK, Placed
<1> QED
  BY <1>2, <1>3, <1>5, <1>6, <1>7, RawSteps, TurnSteps DEF Next, Step

\* The invariant holds in every reachable state.
LEMMA Inductive == Spec => []IInv
  BY InitInv, InvStep, PTL DEF Spec

(***************************************************************************)
(* What follows from it.                                                   *)
(***************************************************************************)

\* Parser and compressor stay together: no byte of the mapping is lost, read
\* twice or read past its end, for every archive and every -s and -S.
THEOREM MappedAccounted == Spec => []Accounted
<1>1. IInv => Accounted
  BY DEF IInv, Placed, Accounted, TypeOK
<1> QED
  BY <1>1, Inductive, PTL

\* No block given to zstdCompressBufferToFrame() is empty or larger than a
\* frame may be.
THEOREM MappedBlockFits == Spec => []BlockFits
<1>1. IInv => BlockFits
  <2> SUFFICES ASSUME IInv, pc = "compress" PROVE blockSize \in 1 .. maxBlockSize(opts)
    BY DEF BlockFits
  <2> QED
    BY Sizes DEF IInv, Cut
<1> QED
  BY <1>1, Inductive, PTL

\* A run that succeeds has a seek table that describes every frame it wrote, or
\* none, with -j or when there are too many frames.
THEOREM MappedTableDescribesFrames == Spec => []SeekTableDescribesFrames
<1>1. IInv => SeekTableDescribesFrames
  BY DEF IInv, Described, SeekTableDescribesFrames
<1> QED
  BY <1>1, Inductive, PTL

(***************************************************************************)
(* The loops write the frames of Framing.                                  *)
(***************************************************************************)

\* The operators that Framing is instantiated with are those of this module.
LEMMA SameState ==
  ASSUME IInv
  PROVE  /\ Abstract!Covered = readBuff /\ Abstract!Limit = Limit
         /\ Abstract!Total(input) = inBuffSize
         /\ Abstract!minBlockSize(opts) = minBlockSize(opts)
         /\ Abstract!WellFormed <=> opts.raw \/ layout.whole
<1>1. Abstract!Covered = readBuff
  BY DEF IInv, Placed, Abstract!Covered, Complete
<1>2. Abstract!Limit = Limit
  BY SameOperators DEF Abstract!Limit, Limit
<1>3. Abstract!WellFormed <=> opts.raw \/ layout.whole
  BY SameOperators DEF Abstract!WellFormed, IInv, Mapped, inBuffSize
<1> QED
  BY <1>1, <1>2, <1>3, SameOperators DEF inBuffSize

\* Where the parser stops, the layout says whether the archive is whole.
LEMMA WholeAtEnd ==
  ASSUME IInv, ~opts.raw,
         \/ tarHeaderIdx = inBuffSize \/ ~HasBlock(input, tarHeaderIdx)
         \/ /\ ~IsNullBlock(input, tarHeaderIdx)
            /\ ~IsWholeEntry(input, tarHeaderIdx, paxNextSize)
  PROVE  layout.whole <=> tarHeaderIdx = inBuffSize
<1>1. /\ Given /\ inBuffSize = Total(input) /\ inBuffSize \in Nat
      /\ tarHeaderIdx \in Nat /\ tarHeaderIdx <= inBuffSize
      /\ paxNextSize \in 0 .. U64Max
      /\ ParsedTo(tarHeaderIdx, paxNextSize, joinNext, readBuff)
  BY Sizes DEF IInv, TypeOK, Mapped, Placed, Parsed, inBuffSize
<1>2. <<tarHeaderIdx, paxNextSize>> \in Places(input)
  BY <1>1, PlaceFacts DEF Given
<1> QED
  BY <1>1, <1>2, ParserStops

\* The block that is compressed ends where Framing ends the next frame.
LEMMA BlockIsFrame ==
  ASSUME IInv, pc = "compress", NEW e \in Nat, e = readBuff + blockSize
  PROVE  e \in Abstract!FrameEnds /\ Abstract!IsFrameEnd(e)
<1>1. /\ readBuff \in Nat /\ tarHeaderIdx \in Nat /\ residual \in Nat /\ inBuffSize \in Nat
      /\ Limit \in Nat \ {0} /\ minBlockSize(opts) \in Nat
      /\ blockSize \in 1 .. Limit /\ e <= inBuffSize /\ tarHeaderIdx <= inBuffSize
      /\ ~opts.raw => readBuff + residual + blockSize = tarHeaderIdx
      /\ \/ blockSize = Limit
         \/ e = inBuffSize
         \/ ~opts.raw /\ residual = 0 /\ ~joinNext /\ blockSize >= minBlockSize(opts)
  BY Sizes DEF IInv, TypeOK, Placed, Cut
<1>2. e > readBuff /\ e <= readBuff + Limit /\ (blockSize = Limit => e = readBuff + Limit)
      /\ (blockSize >= minBlockSize(opts) => e >= readBuff + minBlockSize(opts))
  BY <1>1
<1>3. CASE opts.raw
  <2>1. Abstract!FrameEnds = {readBuff + Limit, inBuffSize}
    BY <1>3, SameState DEF Abstract!FrameEnds
  <2> QED
    BY <1>1, <1>2, <1>3, <2>1 DEF Abstract!IsFrameEnd
<1>4. CASE ~opts.raw
  <2>1. ParsedTo(tarHeaderIdx, paxNextSize, joinNext, readBuff)
    BY <1>4 DEF IInv, Parsed
  <2>2. \A x \in layout.ends : readBuff < x /\ x < e => x < readBuff + minBlockSize(opts)
    <3>1. \A x \in layout.ends : x \in Nat
      BY LayoutType, TotalType DEF IInv, Mapped, Given, Layouts
    <3>2. e <= tarHeaderIdx
      BY <1>1, <1>4
    <3> QED
      BY <1>1, <2>1, <3>1, <3>2 DEF ParsedTo
  <2>3. \/ e = readBuff + Limit
        \/ e \in layout.ends /\ e >= readBuff + minBlockSize(opts)
        \/ e = inBuffSize /\ layout.whole
    <3>1. e = inBuffSize => tarHeaderIdx = inBuffSize
      BY <1>1, <1>4
    <3>2. e = inBuffSize => layout.whole
      BY <1>4, <3>1, WholeAtEnd
    <3>3. residual = 0 => e = tarHeaderIdx /\ tarHeaderIdx > 0
      BY <1>1, <1>2, <1>4
    <3>4. residual = 0 /\ ~joinNext => e \in layout.ends
      BY <2>1, <3>3 DEF ParsedTo
    <3> QED
      BY <1>1, <1>2, <3>2, <3>4
  <2>4. /\ Given /\ readBuff = Abstract!Covered /\ Limit = maxBlockSize(opts)
        /\ inBuffSize = Total(input)
    BY <1>4, SameState, Sizes DEF IInv, Mapped, inBuffSize
  <2> QED
    BY <1>1, <1>2, <1>4, <2>2, <2>3, <2>4, NextFrameEnd
<1> QED
  BY <1>3, <1>4

\* Every step writes the next frame of Framing, ends the run as Framing does,
\* or is no step of it.
LEMMA FramingStep ==
  ASSUME IInv, [Next]_vars
  PROVE  [Abstract!Next]_(Abstract!vars)
<1>1. /\ TypeOK /\ Placed /\ inBuffSize \in Nat /\ readBuff \in Nat
      /\ blockSize \in Nat /\ residual \in Nat /\ tarHeaderIdx \in Nat
      /\ inBuffSize > 0
  BY Sizes DEF IInv, TypeOK, Mapped
<1>2. ASSUME UNCHANGED given, status' = status, fw'.ends = fw.ends
      PROVE  UNCHANGED Abstract!vars
  BY <1>2 DEF Abstract!vars, Abstract!given, given
<1>3. CASE \/ RawBlock \/ RawEnd \/ BeginBlock \/ TakeResidual \/ TakeNull \/ TakeEntry
           \/ UNCHANGED vars
  BY <1>2, <1>3 DEF RawBlock, RawEnd, BeginBlock, TakeResidual, TakeNull, TakeEntry,
     EndTurn, vars
<1>4. CASE Compress
  <2>1. /\ UNCHANGED given /\ status' = status /\ status = "running" /\ pc = "compress"
        /\ fw'.ends = Append(fw.ends, readBuff + blockSize)
    BY <1>4, BlockFacts DEF Compress, At
  <2>2. PICK e \in Nat : e = readBuff + blockSize
    BY <1>1
  <2>3. e \in Abstract!FrameEnds /\ Abstract!IsFrameEnd(e)
    BY <2>1, <2>2, BlockIsFrame
  <2>4. e <= inBuffSize /\ readBuff < inBuffSize
    BY <1>1, <2>1, <2>2 DEF Placed, IInv, Cut
  <2>5. fw'.ends = Append(fw.ends, e)
    BY <2>1, <2>2
  <2>6. Abstract!Emit
    BY <2>1, <2>3, <2>4, <2>5, SameState DEF Abstract!Emit, Abstract!given, given
  <2> QED
    BY <2>6 DEF Abstract!Next
<1>5. CASE RejectTail \/ RejectEntry
  <2>1. /\ UNCHANGED given /\ fw' = fw /\ status' = "rejected" /\ status = "running"
        /\ pc = "parse" /\ residual = 0
    BY <1>5 DEF RejectTail, RejectEntry, AtBlock, At, Exit
  <2>2. ~opts.raw /\ tarHeaderIdx # inBuffSize
    BY <1>1, <2>1 DEF Placed
  <2>3. \/ ~HasBlock(input, tarHeaderIdx)
        \/ /\ ~IsNullBlock(input, tarHeaderIdx)
           /\ ~IsWholeEntry(input, tarHeaderIdx, paxNextSize)
    BY <1>5, EntryFacts DEF RejectTail, RejectEntry, IsNullBlock, header
  <2>4. ~layout.whole
    BY <2>2, <2>3, WholeAtEnd
  <2>5. Abstract!Reject
    BY <2>1, <2>2, <2>4, SameState DEF Abstract!Reject, Abstract!given, given
  <2> QED
    BY <2>5 DEF Abstract!Next
<1>6. CASE Finish
  <2>1. /\ UNCHANGED given /\ fw' = fw /\ status = "running"
        /\ status' = IF ~opts.raw /\ fw.count = 0 THEN "rejected" ELSE "ok"
        /\ (pc = "loop" /\ lastChunk /\ ~(residual > 0)) \/ pc = "end"
    BY <1>6 DEF Finish, Exit, At, Again
  <2>2. readBuff = inBuffSize /\ (~opts.raw => tarHeaderIdx = inBuffSize)
    BY <1>1, <2>1 DEF Placed
  <2>3. Abstract!WellFormed
    BY <2>2, WholeAtEnd, SameState
  <2>4. fw.count # 0
    <3>1. fw.ends # <<>> /\ fw.ends \in Seq(Nat)
      BY <1>1, <2>2 DEF Placed, Complete, TypeOK, FrameState
    <3>2. Len(fw.ends) # 0
      BY <3>1, EmptySeq
    <3> QED
      BY <3>2 DEF IInv, Described
  <2>5. Abstract!Finish
    BY <2>1, <2>2, <2>3, <2>4, SameState DEF Abstract!Finish, Abstract!given, given
  <2> QED
    BY <2>5 DEF Abstract!Next
<1>7. CASE IOError
  <2>1. Abstract!IOError
    BY <1>7 DEF IOError, Exit, Abstract!IOError, Abstract!given, given
  <2> QED
    BY <2>1 DEF Abstract!Next
<1> QED
  BY <1>3, <1>4, <1>5, <1>6, <1>7 DEF Next, Step

\* compressFile() implements the safety of Framing over a mapped file, raw or
\* tar, for every archive and every -s and -S: each frame ends where Framing
\* says, an archive that is whole is never refused, and one that is not is never
\* taken.
THEOREM MappedImplementsFraming == Spec => Abstract!Init /\ [][Abstract!Next]_(Abstract!vars)
<1>1. Init => Abstract!Init
  <2> SUFFICES ASSUME Init PROVE Abstract!Init
    OBVIOUS
  <2>1. opts \in Options /\ input \in Inputs /\ opts \in CommandLine
    BY ConfigAssumption DEF Init
  <2>2. fw.ends = <<>>
    BY <2>1, NoFramesFacts DEF Init
  <2> QED
    BY <2>1, <2>2, SameOperators DEF Init, Abstract!Init
<1>2. IInv /\ [Next]_vars => [Abstract!Next]_(Abstract!vars)
  BY FramingStep
<1> QED
  BY <1>1, <1>2, Inductive, PTL DEF Spec

\* The frames of a file are those that the documentation promises: the whole of
\* it is in them when the run succeeds, with -s equal to -S all have that size
\* but the last, and none splits an entry, or parts one from its extended
\* header, but where -S does.
THEOREM MappedFramesAsDocumented == Spec => []FramesAsDocumented
  BY MappedImplementsFraming, FramingDocumented, PTL

\* And those of any other run of Framing on the same input with the same command
\* line, if both succeed.
THEOREM MappedFramesAgree == Spec /\ Other!Init /\ [][Other!Next]_(Other!vars) => []FramesAgree
  BY MappedImplementsFraming, FramingsAgree, PTL
=============================================================================
