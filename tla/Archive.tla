------------------------------ MODULE Archive ------------------------------
(***************************************************************************)
(* The frames of an archive and its seek table together: the loops of      *)
(* ZstdFrame call the seekTableAdd() of SeekTable with the sizes of each   *)
(* frame they end, and writeSeekTable() comes after the last one.  A       *)
(* reader has the file: its frames, and the bytes of the table after them. *)
(***************************************************************************)
EXTENDS SeekTable

CONSTANTS
  MaxFrameSize, Expansion, OutBuffSize,
  FrameBound   \* bound: frames made

VARIABLES opts, cctx, step, loop, frame, file, sizes, status

zstdVars == <<opts, cctx, step, loop, frame, file, sizes, status>>

Zstd == INSTANCE ZstdFrame WITH pc <- step, table <- sizes, MaxFrames <- FrameBound

\* SeekTable takes every size that a frame may have.
ASSUME ArchiveAssumption ==
  /\ Zstd!ConstantsFit
  /\ 0 .. MaxFrameSize + Expansion \subseteq Sizes

ArchiveInit == Init /\ Zstd!Init

\* seekTableAdd() is called with the frame that ends, if one does.
RecordsFrame == IF sizes' = sizes THEN UNCHANGED vars ELSE Add(Last(sizes'))

\* What goes on in the loops and between them while seekTableAdd() is not running.
Compress == pc = "idle" /\ Zstd!Next /\ RecordsFrame

\* The part of it that libzstd and fwrite() do.
Flushing == pc = "idle" /\ Zstd!Step /\ RecordsFrame

Grow == Double \/ Realloc \/ Store

\* The rest of seekTableAdd().
AddFrame == (Grow \/ ReallocFails) /\ UNCHANGED zstdVars

\* cleanupCompression(), once the callers have no frame left to make.
FinishTable == status = "ok" /\ writeSeekTable /\ UNCHANGED zstdVars

ArchiveNext == Compress \/ AddFrame \/ FinishTable

\* The calls of libzstd, fwrite() and realloc() return.
ArchiveSpec ==
  /\ ArchiveInit /\ [][ArchiveNext]_<<vars, zstdVars>>
  /\ WF_<<vars, zstdVars>>(Flushing \/ (Grow /\ UNCHANGED zstdVars))
----------------------------------------------------------------------------
\* The sizes of the frames that are in the file.
FramesInFile ==
  [i \in 1 .. Len(file) |-> [compressed |-> file[i].size, decompressed |-> file[i].data]]

\* Once writeSeekTable() is done, a reader that has only its bytes knows every
\* frame of the file, all of them whole: how long each is and how much data it
\* holds.
ReaderKnowsFile ==
  pc = "done" /\ ~skip =>
    /\ reader(disk) = FramesInFile
    /\ \A i \in 1 .. Len(file) : file[i].whole

\* The sizes recorded are those of the frames, which are whole (see ZstdFrame).
TableDescribesFile == Zstd!TableDescribesFile

\* Every frame is made with the parameters asked for (see ZstdFrame).
FramesAsAsked == Zstd!FramesAsAsked

\* The loops end, whatever libzstd takes and gives at each call (see ZstdFrame).
LoopsEnd == Zstd!LoopsEnd
=============================================================================
