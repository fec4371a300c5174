----------------------------- MODULE ZstdFrame -----------------------------
(***************************************************************************)
(* The calls of libzstd behind the frames that FrameWriter takes as        *)
(* compressed in one step: prepareCctx(), and the three loops around       *)
(* ZSTD_compressStream2(), which flush a bounded output buffer to the file *)
(* and count what they write for the seek table.                           *)
(*                                                                         *)
(* libzstd is external and stands here for what zstd.h promises of it.     *)
(* Bytes are counted, their values left out.  Where frames are cut is left *)
(* to the other modules: a caller here makes any frame of up to            *)
(* MaxFrameSize bytes, from one buffer or from pieces.                     *)
(***************************************************************************)
EXTENDS Integers, Sequences, SequencesExt

CONSTANTS
  MaxFrameSize,   \* the largest frame, 2 GiB - 1
  Expansion,      \* ZSTD_compressBound(MaxFrameSize) - MaxFrameSize
  OutBuffSize,    \* ZSTD_CStreamOutSize()
  U32,            \* 2^32
  MaxFrames       \* bound: frames made by a caller

\* What the model assumes of the constants.
ConstantsFit ==
  /\ MaxFrameSize \in Nat \ {0} /\ Expansion \in Nat \ {0, 1} /\ OutBuffSize \in Nat \ {0}
  /\ U32 \in Nat /\ MaxFrameSize + Expansion < U32
  /\ MaxFrames \in Nat

Unknown == MaxFrameSize + 1   \* ZSTD_CONTENTSIZE_UNKNOWN

VARIABLES
  opts,     \* -T, and whether libzstd was built with ZSTD_MULTITHREAD
  cctx,     \* libzstd: the parameters and the session
  pc,       \* the next step: a parameter to set, "idle" between two calls of
            \* the functions modelled, "call" and "write" in a loop of theirs
  loop,     \* the locals of that loop
  frame,    \* frameIn, frameOut and frameOpen, kept by the callers
  file,     \* the frames in the output file
  table,    \* the seek table
  status    \* "running", or how the run ended

vars == <<opts, cctx, pc, loop, frame, file, table, status>>

Running(label) == status = "running" /\ pc = label

\* Nothing is given to the session and nothing is held in it.
FreshSession == [pledged |-> Unknown, eaten |-> 0, made |-> 0, flushed |-> 0, ended |-> FALSE]

Idle == [op |-> "none", size |-> 0, pos |-> 0, mode |-> "continue", out |-> 0, remaining |-> 0]

Init ==
  /\ opts \in [workers : BOOLEAN, multithread : BOOLEAN]
  /\ cctx = [params |-> [level |-> "default", checksum |-> FALSE, workers |-> FALSE],
             session |-> FreshSession]
  /\ pc = "level"
  /\ loop = Idle
  /\ frame = [in |-> 0, out |-> 0, open |-> FALSE]
  /\ file = <<>>
  /\ table = <<>>
  /\ status = "running"

----------------------------------------------------------------------------
(* prepareCctx(). *)

SetParam(label, field, value, next) ==
  /\ Running(label)
  /\ cctx' = [cctx EXCEPT !.params[field] = value]
  /\ pc' = next
  /\ UNCHANGED <<opts, loop, frame, file, table, status>>

SetLevel == SetParam("level", "level", "asked", "checksum")

SetChecksum ==
  SetParam("checksum", "checksum", TRUE, IF opts.workers THEN "workers" ELSE "idle")

\* "Reverting to single-thread": the parameter is refused, the run goes on.
SetWorkers == SetParam("workers", "workers", opts.multithread, "idle")

----------------------------------------------------------------------------
(* The callers. *)

\* Mutant: the parameters go with the session.
ResetSessionAll(size) ==
  cctx' = [params |-> [level |-> "default", checksum |-> FALSE, workers |-> FALSE],
           session |-> [FreshSession EXCEPT !.pledged = size]]

\* zstdResetFrame() and zstdSetPledged(): what was not flushed is cancelled.
ResetSession(size) == cctx' = [cctx EXCEPT !.session = [FreshSession EXCEPT !.pledged = size]]

FrameSizes == 1 .. MaxFrameSize

\* zstdCompressBufferToFrame() begins: a frame from one buffer.
BeginBuffer(n) ==
  /\ Running("idle") /\ ~frame.open /\ Len(table) < MaxFrames
  /\ ResetSession(n)
  /\ loop' = [Idle EXCEPT !.op = "buffer", !.size = n]
  /\ frame' = [frame EXCEPT !.out = 0]
  /\ pc' = "call"
  /\ UNCHANGED <<opts, file, table, status>>

\* startFrame(): a frame of a known size, or of any size.
StartFrame(pledge) ==
  /\ Running("idle") /\ ~frame.open /\ Len(table) < MaxFrames
  /\ ResetSession(pledge)
  /\ frame' = [in |-> 0, out |-> 0, open |-> TRUE]
  /\ UNCHANGED <<opts, pc, loop, file, table, status>>

\* A turn of pushBytesTar() reaches its inner loop with the `n' bytes that fit.
PushBytes(n) ==
  /\ Running("idle") /\ frame.open
  /\ frame.in + n <= MaxFrameSize
  /\ cctx.session.pledged # Unknown => frame.in + n <= cctx.session.pledged
  /\ loop' = [Idle EXCEPT !.op = "push", !.size = n]
  /\ pc' = "call"
  /\ UNCHANGED <<opts, cctx, frame, file, table, status>>

\* endFrameAndRecord() calls zstdEndFrame().
BeginEnd ==
  /\ Running("idle") /\ frame.open /\ frame.in > 0
  /\ cctx.session.pledged \in {Unknown, frame.in}
  /\ loop' = [Idle EXCEPT !.op = "end"]
  /\ pc' = "call"
  /\ UNCHANGED <<opts, cctx, frame, file, table, status>>

----------------------------------------------------------------------------
(* ZSTD_compressStream2(). *)

\* What a session may have made of the bytes it has eaten.
BoundOf(s) == s.eaten + Expansion - (IF s.ended THEN 0 ELSE 1)

Made(s) == s.made - s.flushed

\* The call takes some of the input and gives out some of what it made.  It
\* reads or writes a byte at least; without workers it returns only once the
\* input is taken or the output buffer full.  A frame ends at the first
\* ZSTD_e_end, with an epilogue; 0 is returned once the whole frame is out.
CompressStream2(s, mode, avail, t, k, f) ==
  /\ k \in 0 .. avail
  /\ f \in 0 .. OutBuffSize
  /\ t.pledged = s.pledged
  /\ t.eaten = s.eaten + k
  /\ t.ended = (s.ended \/ mode = "end")
  /\ t.made \in s.made .. BoundOf(t)
  /\ t.ended /\ ~s.ended => t.made > s.made
  /\ s.ended => t.made = s.made
  /\ t.flushed = s.flushed + f
  /\ t.flushed <= t.made
  /\ k + f > 0
  /\ ~cctx.params.workers =>
       f = OutBuffSize \/ (k = avail /\ (mode = "end" => t.flushed = t.made))

\* The modes of the three loops.
Mode == IF loop.op = "push" \/ loop.pos < loop.size THEN "continue" ELSE "end"

Call ==
  /\ Running("call")
  /\ \E k \in 0 .. (loop.size - loop.pos), f \in 0 .. OutBuffSize,
        made \in cctx.session.made .. (MaxFrameSize + Expansion) :
       LET s == cctx.session
           t == [s EXCEPT !.eaten = @ + k, !.made = made, !.flushed = @ + f,
                          !.ended = @ \/ Mode = "end"]
       IN  /\ CompressStream2(s, Mode, loop.size - loop.pos, t, k, f)
           /\ cctx' = [cctx EXCEPT !.session = t]
           /\ loop' = [loop EXCEPT !.pos = @ + k, !.mode = Mode, !.out = f,
                                   !.remaining = Made(t)]
  /\ pc' = "write"
  /\ UNCHANGED <<opts, frame, file, table, status>>

\* ZSTD_isError(): libzstd may fail at any call, out of memory for one.
CallFails ==
  /\ Running("call")
  /\ status' = "zstdError"
  /\ UNCHANGED <<opts, cctx, pc, loop, frame, file, table>>

----------------------------------------------------------------------------
(* What the loops do with the output buffer. *)

\* The first byte of a session starts a frame of the file ...
Started(out) ==
  IF cctx.session.flushed = out
  THEN Append(file, [data |-> 0, size |-> 0, whole |-> FALSE, made |-> cctx.params])
  ELSE file

\* ... and every byte of it goes in that frame.
Grown(f, out) ==
  LET s == cctx.session
  IN  [f EXCEPT !.data = s.eaten, !.size = @ + out, !.whole = s.ended /\ s.flushed = s.made]

Flush(out) ==
  IF out = 0 THEN file
  ELSE [Started(out) EXCEPT ![Len(Started(out))] = Grown(Started(out)[Len(Started(out))], out)]

\* seekTableAdd(), whose limit on frames is in FrameWriter.
seekTableAdd(compressedSize, decompressedSize) ==
  table' = Append(table, [compressed   |-> compressedSize % U32,
                          decompressed |-> decompressedSize % U32])

\* Mutant: the loop ends when the buffer is not full.
LoopEndsShort ==
  IF loop.op = "push" THEN loop.pos = loop.size
  ELSE loop.mode = "end" /\ loop.out < OutBuffSize

\* Mutant: a loop goes on until a call writes nothing.
LoopEndsEmpty ==
  IF loop.op = "push" THEN loop.pos = loop.size
  ELSE loop.mode = "end" /\ loop.remaining = 0 /\ loop.out = 0

\* The conditions the three loops end at.
LoopEnds ==
  IF loop.op = "push" THEN loop.pos = loop.size
  ELSE loop.mode = "end" /\ loop.remaining = 0

\* checkedFwrite() and the end of the turn: a new call, or the end of the
\* loop, which ends a piece or a frame.
Write ==
  /\ Running("write")
  /\ file' = Flush(loop.out)
  /\ LET out == frame.out + loop.out
     IN  CASE ~LoopEnds ->
                /\ pc' = "call" /\ frame' = [frame EXCEPT !.out = out]
                /\ UNCHANGED <<loop, table>>
           [] LoopEnds /\ loop.op = "push" ->
                /\ pc' = "idle" /\ loop' = Idle
                /\ frame' = [frame EXCEPT !.out = out, !.in = @ + loop.size]
                /\ UNCHANGED table
           [] LoopEnds /\ loop.op # "push" ->
                /\ pc' = "idle" /\ loop' = Idle
                /\ frame' = [frame EXCEPT !.out = out, !.open = FALSE]
                /\ seekTableAdd(out, IF loop.op = "end" THEN frame.in ELSE loop.size)
  /\ UNCHANGED <<opts, cctx, status>>

\* "Failed to write output": some of the bytes may be in the file.
WriteFails ==
  /\ Running("write") /\ loop.out > 0
  /\ status' = "ioError"
  /\ UNCHANGED <<opts, cctx, pc, loop, frame, file, table>>

\* The callers have no frame left to make.
Finish ==
  /\ Running("idle") /\ ~frame.open
  /\ status' = "ok"
  /\ UNCHANGED <<opts, cctx, pc, loop, frame, file, table>>

Begin ==
  \/ \E n \in FrameSizes : BeginBuffer(n) \/ StartFrame(n) \/ PushBytes(n)
  \/ StartFrame(Unknown)
  \/ BeginEnd

Step == SetLevel \/ SetChecksum \/ SetWorkers \/ Call \/ Write

Next == Begin \/ Step \/ CallFails \/ WriteFails \/ Finish

\* ZSTD_compressStream2() and fwrite() return.
Spec == Init /\ [][Next]_vars /\ WF_vars(Step)
----------------------------------------------------------------------------
\* The seek table tells the truth about the file: between two frames it has one
\* entry for each frame, whose sizes are those libzstd and fwrite() really gave
\* it and fit in 32 bits, and every frame in the file is whole: no byte that
\* libzstd still held was cancelled by the reset for the next one.
TableDescribesFile ==
  /\ \A i \in 1 .. Len(table) :
       /\ i <= Len(file) /\ file[i].whole
       /\ table[i] = [compressed |-> file[i].size, decompressed |-> file[i].data]
  /\ pc = "idle" /\ ~frame.open => Len(file) = Len(table)

\* Every frame is compressed at the level asked for, with a checksum, and by
\* several threads only if -T asks for them and libzstd has them, although
\* the parameters are set once and the session is reset for every frame.
FramesAsAsked ==
  \A i \in 1 .. Len(file) :
    file[i].made = [level |-> "asked", checksum |-> TRUE,
                    workers |-> opts.workers /\ opts.multithread]

\* The loops end, however little libzstd takes and gives at each call.
LoopsEnd == (pc = "call") ~> (pc = "idle" \/ status # "running")
=============================================================================
