---------------------------- MODULE FrameWriter ----------------------------
(***************************************************************************)
(* The part of the Context that every input path writes frames through:    *)
(* the frame being built, the zstd session behind it and the seek table.   *)
(* compressStdinTar() and compressStdinRaw() keep frameIn and frameOpen in *)
(* locals they pass by reference, the rest lives in the Context and in     *)
(* libzstd.  Compressed bytes are left out: a frame is the bytes it holds. *)
(***************************************************************************)
EXTENDS Elements

CONSTANTS
  MaxFrames,   \* 0x8000000, the frames the seekable format cannot describe
  U32          \* 2^32, the entries of the seek table are 32 bits wide

ASSUME FrameWriterAssumption ==
  /\ MaxFrames \in Nat \ {0}
  /\ U32 \in Nat
  /\ MaxFrameSize < U32

\* ZSTD_CONTENTSIZE_UNKNOWN, which is also (0ULL - 1).
Unknown == U64Max

FrameState ==
  [open    : BOOLEAN,         \* frameOpen
   in      : Nat,             \* frameIn, the bytes counted in the open frame
   pledged : 0 .. U64Max,     \* the size pledged to zstd for the session
   zin     : Nat,             \* the bytes zstd was given in the session
   ends    : Seq(Nat),        \* the frames in the output: the offset in the
                              \* decompressed stream where each one ends
   table   : Seq(Nat),        \* seekTable, the decompressed sizes
   skip    : BOOLEAN,         \* skipSeekTable
   count   : Nat]             \* frameCount

NoFrames(o) ==
  [open |-> FALSE, in |-> 0, pledged |-> Unknown, zin |-> 0, ends |-> <<>>,
   table |-> <<>>, skip |-> o.noTable, count |-> 0]

\* Bytes in the frames already complete, and given to zstd in all.
Complete(f) == IF f.ends = <<>> THEN 0 ELSE f.ends[Len(f.ends)]

Written(f) == Complete(f) + (IF f.open THEN f.zin ELSE 0)

\* Mutant: a frame too many is dropped, and the table kept.
seekTableAddDropped(f, size) ==
  LET g == [f EXCEPT !.count = @ + 1]
  IN  IF f.skip \/ Len(f.table) + 1 >= MaxFrames THEN g
      ELSE [g EXCEPT !.table = Append(@, size % U32)]

\* seekTableAdd(): count a frame, and record it unless there is no table.
seekTableAdd(f, size) ==
  LET g == [f EXCEPT !.count = @ + 1]
  IN  IF f.skip THEN g
      ELSE IF Len(f.table) + 1 >= MaxFrames THEN [g EXCEPT !.skip = TRUE]
      ELSE [g EXCEPT !.table = Append(@, size % U32)]

\* Mutant: the bytes of the last frame are counted again.
startFrameCounting(f, size) ==
  [f EXCEPT !.open = TRUE, !.pledged = size, !.zin = 0]

\* startFrame(): reset the session, pledge `size', zero the counters.
startFrame(f, size) ==
  [f EXCEPT !.open = TRUE, !.in = 0, !.pledged = size, !.zin = 0]

\* startElementFrame(): only without -s, and when no frame is open.
startElementFrame(f, o, size) ==
  IF minBlockSize(o) > 0 \/ f.open THEN f
  ELSE startFrame(f, IF size > maxBlockSize(o) THEN maxBlockSize(o) ELSE size)

\* ZSTD_compressStream2() on `k' more bytes of the open frame.
Feed(f, k) == [f EXCEPT !.in = @ + k, !.zin = @ + k]

\* zstd may fail once the frame holds more than was pledged ...
Overfed(f) == f.pledged # Unknown /\ f.zin > f.pledged

\* ... and does fail to end a frame that does not hold exactly that.
PledgeBroken(f) == f.pledged # Unknown /\ f.zin # f.pledged

\* endFrameAndRecord() on an open frame, when zstd does not fail.
endFrameAndRecord(f) ==
  [seekTableAdd([f EXCEPT !.ends = Append(@, Complete(f) + f.zin)], f.in)
     EXCEPT !.open = FALSE]

\* zstdCompressBufferToFrame() on `n' bytes, recorded by seekTableAdd().
CompressBuffer(f, n) ==
  seekTableAdd([f EXCEPT !.pledged = n, !.zin = n, !.ends = Append(@, Complete(f) + n)], n)
----------------------------------------------------------------------------
VARIABLES
  input,    \* the input, an element of Inputs
  opts,     \* the command line, an element of Options
  layout,   \* the elements of the input (a history variable, for Framing)
  fw,       \* the state above
  status    \* "running", or how the run ended

given == <<input, opts, layout>>

\* How a run may end: "ok"; "rejected", an input refused; "ioError", a read or
\* a write that failed; "zstdError", libzstd that failed.
Statuses == {"running", "ok", "rejected", "ioError", "zstdError"}

\* End frame `f' when the program does, with the failure of zstd it may meet.
EndFrame(f) ==
  IF PledgeBroken(f)
  THEN status' = "zstdError" /\ fw' = f
  ELSE status' = status /\ fw' = endFrameAndRecord(f)

\* Mutant: the bytes already in the open frame take no room.
canWriteEmpty(left) == IF left > maxBlockSize(opts) THEN maxBlockSize(opts) ELSE left

\* How many of `left' bytes fit in the open frame, or in a new one.
canWrite(left) ==
  LET room == maxBlockSize(opts) - (IF fw.open THEN fw.in ELSE 0)
  IN  IF left > room THEN room ELSE left

\* One turn of the loop of pushBytesTar() with `left' bytes still to push:
\* open a frame if there is none, fill it up to maxBlockSize, end it there.
\* zstd may fail as soon as the frame is overfed, or only at its end.
pushBytesTar(left) ==
  LET opened == IF fw.open THEN fw ELSE startFrame(fw, Unknown)
      fed    == Feed(opened, canWrite(left))
  IN  \/ /\ Overfed(fed)
         /\ status' = "zstdError" /\ fw' = fed
      \/ /\ fed.in < maxBlockSize(opts)
         /\ status' = status /\ fw' = fed
      \/ /\ fed.in >= maxBlockSize(opts)
         /\ EndFrame(fed)

\* The seek table has one entry for each frame, with the size of that frame,
\* unless -j or too many frames left it out (TESTING.md: "the entries add up to
\* the frames and to the input").
SeekTableDescribesFrames ==
  status = "ok" =>
    /\ fw.count = Len(fw.ends)
    /\ ~fw.skip =>
         /\ Len(fw.table) = Len(fw.ends) /\ Len(fw.table) < MaxFrames
         /\ \A i \in 1 .. Len(fw.ends) :
              fw.table[i] = fw.ends[i] - (IF i = 1 THEN 0 ELSE fw.ends[i - 1])
    /\ fw.skip => opts.noTable \/ fw.count >= MaxFrames

\* The frames are those that Framing promises, whichever way the input is read
\* (compressStdinTar(): "Implements the same framing logic as the mmap path").
Abstract == INSTANCE Framing WITH
  ends   <- fw.ends,
  status <- IF status \in {"rejected", "zstdError"} THEN "failed" ELSE status

ImplementsFraming == Abstract!Spec

\* What the documentation promises of the frames: a run that succeeds has the
\* whole input in them, none is empty or larger than the seek table can
\* describe; with -s equal to -S all have that size but the last (usage(): "the
\* input block will be of exactly that size"); and a frame ends inside an
\* element only at the limit (usage(): "A file is never split unless -S is
\* used").
FramesAsDocumented ==
  Abstract!Lossless /\ Abstract!ExactBlocks /\ Abstract!SplitOnlyAtLimit
=============================================================================
