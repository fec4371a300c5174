------------------------------ MODULE StdinRaw ------------------------------
(***************************************************************************)
(* compressStdinRaw(): any data read from standard input.                  *)
(*                                                                         *)
(* Without -s the data goes through pushBytesTar() as it comes, a read at  *)
(* a time, into one frame that ends where the seek table cannot describe   *)
(* more; with -s a buffer of that size is filled and compressed at once.   *)
(***************************************************************************)
EXTENDS FrameWriter

CONSTANT InChunk   \* ZSTD_CStreamInSize(), the size of the reads

ASSUME StdinRawAssumption == InChunk \in Nat \ {0}

VARIABLES
  pc,     \* the next step
  rd,     \* bytes read from standard input
  push,   \* bytes still to push by the pushBytesTar() call in progress
  got     \* bytes in frameBuf

locals == <<pc, rd, push, got>>

vars == <<given, fw, status, locals>>

Init ==
  /\ input \in Inputs
  /\ opts \in {o \in Options : o.raw}
  /\ layout = Layout(input)
  /\ fw = NoFrames(opts)
  /\ status = "running"
  /\ pc = "read"
  /\ rd = 0
  /\ push = 0
  /\ got = 0

Streaming == minBlockSize(opts) = 0

frameSize == minBlockSize(opts)

At(label) == status = "running" /\ pc = label /\ push = 0

\* fread() of at most `size' bytes: some, unless the input is at its end.
fread(size) ==
  /\ rd < Total(input)
  /\ \E n \in 1 .. size :
       rd + n <= Total(input) /\ rd' = rd + n

----------------------------------------------------------------------------
(* Without -s. *)

Read ==
  /\ At("read") /\ Streaming
  /\ fread(InChunk)
  /\ push' = rd' - rd
  /\ UNCHANGED <<given, fw, status, pc, got>>

Push ==
  /\ status = "running" /\ push > 0
  /\ pushBytesTar(push)
  /\ push' = push - canWrite(push)
  /\ UNCHANGED <<given, pc, rd, got>>

\* Mutant: the frame open at the end of the input is not ended.
ReadEndOpen ==
  /\ At("read") /\ Streaming /\ rd = Total(input)
  /\ UNCHANGED <<fw, status>>
  /\ pc' = "end"
  /\ UNCHANGED <<given, rd, push, got>>

\* The end of the input ends the frame, if one is open.
ReadEnd ==
  /\ At("read") /\ Streaming /\ rd = Total(input)
  /\ IF fw.open THEN EndFrame(fw) ELSE UNCHANGED <<fw, status>>
  /\ pc' = "end"
  /\ UNCHANGED <<given, rd, push, got>>

----------------------------------------------------------------------------
(* With -s. *)

\* Mutant: each read starts at the head of frameBuf.
FillOver ==
  /\ At("read") /\ ~Streaming /\ got < frameSize
  /\ fread(frameSize - got)
  /\ got' = rd' - rd
  /\ UNCHANGED <<given, fw, status, pc, push>>

Fill ==
  /\ At("read") /\ ~Streaming /\ got < frameSize
  /\ fread(frameSize - got)
  /\ got' = got + (rd' - rd)
  /\ UNCHANGED <<given, fw, status, pc, push>>

\* frameBuf is full, or the input is at its end.
Filled == got = frameSize \/ rd = Total(input)

CompressBuf ==
  /\ At("read") /\ ~Streaming /\ Filled /\ got > 0
  /\ fw' = CompressBuffer(fw, got)
  /\ got' = 0
  /\ pc' = IF got < frameSize THEN "end" ELSE "read"
  /\ UNCHANGED <<given, status, rd, push>>

NoMoreData ==
  /\ At("read") /\ ~Streaming /\ Filled /\ got = 0
  /\ pc' = "end"
  /\ UNCHANGED <<given, fw, status, rd, push, got>>

----------------------------------------------------------------------------
Finish ==
  /\ At("end")
  /\ status' = "ok"
  /\ UNCHANGED <<given, fw, locals>>

IOError ==
  /\ status = "running"
  /\ status' = "ioError"
  /\ UNCHANGED <<given, fw, locals>>

Step ==
  \/ Read \/ Push \/ ReadEnd
  \/ Fill \/ CompressBuf \/ NoMoreData
  \/ Finish

Next == Step \/ IOError

\* One thread runs the loop, and standard input ends: every fread() returns.
Spec == Init /\ [][Next]_vars /\ WF_vars(Step)
----------------------------------------------------------------------------
TypeOK ==
  /\ input \in Stream
  /\ opts \in CommandLine
  /\ fw \in FrameState
  /\ status \in Statuses
  /\ pc \in {"read", "end"}
  /\ rd \in Nat
  /\ push \in Nat
  /\ got \in Nat

\* Every byte read is in a frame, in the one being built, still to push or in
\* frameBuf, whatever the sizes of the reads.
Accounted == status = "running" => Written(fw) + push + got = rd
=============================================================================
