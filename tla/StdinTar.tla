------------------------------ MODULE StdinTar ------------------------------
(***************************************************************************)
(* compressStdinTar(): a tar archive read from standard input.             *)
(*                                                                         *)
(* `pc' names the next read of the loop or the next pushBytesTar() call;   *)
(* while push.n > 0 such a call is in progress, and nothing else happens.  *)
(* Bytes are told apart by their offset in the input: `push.from' is that  *)
(* of the first byte still to push, so that bytes lost, repeated or        *)
(* compressed out of order show (InOrder).                                 *)
(***************************************************************************)
EXTENDS FrameWriter

CONSTANTS
  HeldSize,   \* sizeof(held), 64 KiB
  InChunk     \* sizeof(chunkBuf), 128 KiB

ASSUME StdinTarAssumption ==
  /\ HeldSize \in Nat
  /\ InChunk \in Nat \ {0}

VARIABLES
  pc,            \* the next step
  rd,            \* bytes read from standard input
  eof,           \* r == 0: the last read found the end of the input
  hdr,           \* hdrBlock, the header read last
  paxNextSize,   \* the size a pax header gave to the next entry, or NoSize
  heldLen,       \* bytes of `held', the entries that wait for the next one
  heldFrom,      \* where these bytes were in the input (a history variable)
  nullRun,       \* bytes of null blocks read and not compressed yet
  remaining,     \* bytes of the payload of the entry still to read
  push           \* the pushBytesTar() call in progress

locals == <<pc, rd, eof, hdr, paxNextSize, heldLen, heldFrom, nullRun, remaining, push>>

vars == <<given, fw, status, locals>>

Labels == {"read", "flush", "nulls", "flushed", "entry", "header", "sparse",
           "payload", "finish"}

Idle == [n |-> 0, from |-> 0]

Init ==
  /\ input \in Inputs
  /\ opts \in {o \in Options : ~o.raw}
  /\ layout = Layout(input)
  /\ fw = NoFrames(opts)
  /\ status = "running"
  /\ pc = "read"
  /\ rd = 0
  /\ eof = FALSE
  /\ hdr = NullBlock
  /\ paxNextSize = NoSize
  /\ heldLen = 0
  /\ heldFrom = 0
  /\ nullRun = 0
  /\ remaining = 0
  /\ push = Idle

\* The loop is at `label', with no pushBytesTar() call in progress.
At(label) == status = "running" /\ pc = label /\ push.n = 0

Exit(how) == status' = how /\ UNCHANGED <<given, fw, locals>>

\* readExactStdin() finds `n' more bytes.
Available(n) == rd + n <= Total(input)

\* Where the header read last starts in the input.
HeaderFrom == rd - TarBlock

----------------------------------------------------------------------------
(* The next header or null block. *)

\* A null block lengthens the run.
ReadNull ==
  /\ At("read")
  /\ HasBlock(input, rd) /\ isZeroTarBlock(BlockAt(input, rd))
  /\ rd' = rd + TarBlock
  /\ nullRun' = nullRun + TarBlock
  /\ UNCHANGED <<given, fw, status, pc, eof, hdr, paxNextSize, heldLen,
                 heldFrom, remaining, push>>

\* Mutant: the null blocks before a header are compressed after its entry.
ReadHeaderFirst ==
  /\ At("read")
  /\ HasBlock(input, rd) /\ ~isZeroTarBlock(BlockAt(input, rd))
  /\ rd' = rd + TarBlock
  /\ hdr' = BlockAt(input, rd)
  /\ pc' = "entry"
  /\ UNCHANGED <<given, fw, status, eof, paxNextSize, heldLen, heldFrom,
                 nullRun, remaining, push>>

\* Any other block ends a run of null blocks, which is compressed first.
ReadHeader ==
  /\ At("read")
  /\ HasBlock(input, rd) /\ ~isZeroTarBlock(BlockAt(input, rd))
  /\ rd' = rd + TarBlock
  /\ hdr' = BlockAt(input, rd)
  /\ pc' = IF nullRun > 0 THEN "flush" ELSE "entry"
  /\ UNCHANGED <<given, fw, status, eof, paxNextSize, heldLen, heldFrom,
                 nullRun, remaining, push>>

\* So does the end of the input, which also ends the wait of held entries.
ReadEnd ==
  /\ At("read")
  /\ rd = Total(input)
  /\ eof' = TRUE
  /\ pc' = IF nullRun > 0 \/ heldLen > 0 THEN "flush" ELSE "finish"
  /\ UNCHANGED <<given, fw, status, rd, hdr, paxNextSize, heldLen,
                 heldFrom, nullRun, remaining, push>>

\* "Truncated tar header on stdin".
RejectPartial ==
  /\ At("read")
  /\ ~HasBlock(input, rd) /\ rd < Total(input)
  /\ Exit("rejected")

----------------------------------------------------------------------------
(* The entries held and the null blocks are compressed as one element. *)

PushHeld == [n |-> heldLen, from |-> heldFrom]

FlushHeld ==
  /\ At("flush")
  /\ fw' = startElementFrame(fw, opts, heldLen + nullRun)
  /\ push' = PushHeld
  /\ heldLen' = 0
  /\ pc' = "nulls"
  /\ UNCHANGED <<given, status, rd, eof, hdr, paxNextSize, heldFrom,
                 nullRun, remaining>>

\* chunkBuf holds zeros, compressed for the null blocks: the last bytes read,
\* but for the header that ended the run.
FlushNulls ==
  /\ At("nulls")
  /\ push' = [n |-> nullRun, from |-> (IF eof THEN rd ELSE HeaderFrom) - nullRun]
  /\ nullRun' = 0
  /\ pc' = "flushed"
  /\ UNCHANGED <<given, fw, status, rd, eof, hdr, paxNextSize, heldLen,
                 heldFrom, remaining>>

EndFlush ==
  /\ At("flushed")
  /\ IF fw.open /\ fw.in >= minBlockSize(opts)
     THEN EndFrame(fw) ELSE UNCHANGED <<fw, status>>
  /\ pc' = IF eof THEN "finish" ELSE "entry"
  /\ UNCHANGED <<given, rd, eof, hdr, paxNextSize, heldLen, heldFrom,
                 nullRun, remaining, push>>

----------------------------------------------------------------------------
(* An entry. *)

fileSize == tarEntrySize(hdr, paxNextSize)

\* "Invalid tar header" and "Invalid tar entry size (too large)".
RejectHeader ==
  /\ At("entry")
  /\ ~isTarHeader(hdr) \/ TooLarge(fileSize)
  /\ Exit("rejected")

ValidHeader == isTarHeader(hdr) /\ ~TooLarge(fileSize)

\* Mutant: an entry waits whatever its size.
IsHeldAnySize == joinsNextEntry(hdr) /\ ~hasSparseExtension(hdr)

\* An entry that joins the next one waits for it when it fits in `held'.
IsHeld ==
  /\ joinsNextEntry(hdr)
  /\ ~hasSparseExtension(hdr)
  /\ TarBlock + Padded(fileSize) <= HeldSize - heldLen

Hold ==
  /\ At("entry") /\ ValidHeader /\ IsHeld
  /\ Available(Padded(fileSize))
  /\ heldFrom' = IF heldLen = 0 THEN HeaderFrom ELSE heldFrom
  /\ heldLen' = heldLen + TarBlock + Padded(fileSize)
  /\ rd' = rd + Padded(fileSize)
  /\ paxNextSize' = IF hdr.type = "x" THEN paxSize(input, rd, fileSize)
                    ELSE PaxLeft(hdr, paxNextSize)
  /\ pc' = "read"
  /\ UNCHANGED <<given, fw, status, eof, hdr, nullRun, remaining, push>>

\* Mutant: the entries held are not part of the element.
elementSizeAlone == (TarBlock + Padded(fileSize)) % (U64Max + 1)

\* The size of an element made of the entries held and of one entry more.
elementSize == (heldLen + TarBlock + Padded(fileSize)) % (U64Max + 1)

\* Any other is compressed after the entries held for it, as one element
\* whose size is known unless sparse map blocks, or another entry, follow.
BeginEntry ==
  /\ At("entry") /\ ValidHeader /\ ~IsHeld
  /\ fw' = IF joinsNextEntry(hdr) \/ hasSparseExtension(hdr) THEN fw
           ELSE startElementFrame(fw, opts, elementSize)
  /\ push' = PushHeld
  /\ heldLen' = 0
  /\ remaining' = Padded(fileSize)
  /\ paxNextSize' = PaxLeft(hdr, paxNextSize)
  /\ pc' = "header"
  /\ UNCHANGED <<given, status, rd, eof, hdr, heldFrom, nullRun>>

PushHeader ==
  /\ At("header")
  /\ push' = [n |-> TarBlock, from |-> HeaderFrom]
  /\ pc' = IF hasSparseExtension(hdr) THEN "sparse" ELSE "payload"
  /\ UNCHANGED <<given, fw, status, rd, eof, hdr, paxNextSize, heldLen,
                 heldFrom, nullRun, remaining>>

\* One sparse map extension block, which tells whether another one follows.
ReadSparse ==
  /\ At("sparse") /\ Available(TarBlock)
  /\ rd' = rd + TarBlock
  /\ push' = [n |-> TarBlock, from |-> rd]
  /\ pc' = IF BlockAt(input, rd).more THEN "sparse" ELSE "payload"
  /\ UNCHANGED <<given, fw, status, eof, hdr, paxNextSize, heldLen,
                 heldFrom, nullRun, remaining>>

\* Mutant: the last chunk is read as large as the others.
chunkFull == InChunk

chunk == IF remaining > InChunk THEN InChunk ELSE remaining

\* One chunk of the payload.  Only pax data that one chunk holds is searched
\* for a size.
ReadPayload ==
  /\ At("payload") /\ remaining > 0 /\ Available(chunk)
  /\ rd' = rd + chunk
  /\ push' = [n |-> chunk, from |-> rd]
  /\ remaining' = remaining - chunk
  /\ paxNextSize' = IF hdr.type = "x" /\ chunk = Padded(hdr.size)
                    THEN paxSize(input, rd, hdr.size) ELSE paxNextSize
  /\ UNCHANGED <<given, fw, status, pc, eof, hdr, heldLen, heldFrom, nullRun>>

\* "Unexpected EOF on stdin", from readExactStdin().
RejectTruncated ==
  /\ \/ At("entry") /\ ValidHeader /\ IsHeld /\ ~Available(Padded(fileSize))
     \/ At("sparse") /\ ~Available(TarBlock)
     \/ At("payload") /\ remaining > 0 /\ ~Available(chunk)
  /\ Exit("rejected")

\* Mutant: an AppleDouble file does not stay with the file it describes.
EndEntryAppleDouble ==
  /\ At("payload") /\ remaining = 0
  /\ IF ~isExtensionHeader(hdr) /\ fw.open /\ fw.in >= minBlockSize(opts)
     THEN EndFrame(fw) ELSE UNCHANGED <<fw, status>>
  /\ pc' = "read"
  /\ UNCHANGED <<given, rd, eof, hdr, paxNextSize, heldLen, heldFrom,
                 nullRun, remaining, push>>

\* A file boundary: an entry that joins the next one stays in its frame, and
\* with -s so does one that leaves the frame too small.
EndEntry ==
  /\ At("payload") /\ remaining = 0
  /\ IF ~joinsNextEntry(hdr) /\ fw.open /\ fw.in >= minBlockSize(opts)
     THEN EndFrame(fw) ELSE UNCHANGED <<fw, status>>
  /\ pc' = "read"
  /\ UNCHANGED <<given, rd, eof, hdr, paxNextSize, heldLen, heldFrom,
                 nullRun, remaining, push>>

----------------------------------------------------------------------------
Push ==
  /\ status = "running" /\ push.n > 0
  /\ pushBytesTar(push.n)
  /\ push' = [n |-> push.n - canWrite(push.n), from |-> push.from + canWrite(push.n)]
  /\ UNCHANGED <<given, pc, rd, eof, hdr, paxNextSize, heldLen, heldFrom,
                 nullRun, remaining>>

\* The end of the input closes the frame left open ...
EndLast ==
  /\ At("finish") /\ fw.open
  /\ EndFrame(fw)
  /\ UNCHANGED <<given, locals>>

\* ... and an input without frames is no tar archive.
Finish ==
  /\ At("finish") /\ ~fw.open
  /\ Exit(IF fw.count = 0 THEN "rejected" ELSE "ok")

\* fread() or fwrite() fails.
IOError == status = "running" /\ Exit("ioError")

Step ==
  \/ ReadNull \/ ReadHeader \/ ReadEnd \/ RejectPartial
  \/ FlushHeld \/ FlushNulls \/ EndFlush
  \/ RejectHeader \/ Hold \/ BeginEntry \/ PushHeader \/ ReadSparse
  \/ ReadPayload \/ RejectTruncated \/ EndEntry
  \/ Push \/ EndLast \/ Finish

Next == Step \/ IOError

\* One thread runs the loop, and standard input ends: every fread() returns.
Spec == Init /\ [][Next]_vars /\ WF_vars(Step)
----------------------------------------------------------------------------
TypeOK ==
  /\ input \in Stream
  /\ opts \in CommandLine /\ ~opts.raw
  /\ fw \in FrameState
  /\ status \in Statuses
  /\ pc \in Labels
  /\ rd \in Nat
  /\ eof \in BOOLEAN
  /\ hdr \in Block
  /\ paxNextSize \in 0 .. U64Max
  /\ heldLen \in Nat
  /\ heldFrom \in Nat
  /\ nullRun \in Nat
  /\ remaining \in Nat
  /\ push \in [n : Nat, from : Nat]

\* Bytes are compressed in the order they were read: those being pushed come
\* right after those that zstd was given, and at the head of the loop the
\* bytes not given to zstd yet are those held and the run of null blocks.  No
\* byte is lost, repeated or overtaken by those that wait in `held' or
\* `nullRun'.
InOrder ==
  /\ status = "running" /\ push.n > 0 => push.from = Written(fw)
  /\ At("read") => Written(fw) + heldLen + nullRun = rd

\* Bytes of the element being compressed, from the start of the open frame to
\* the end of the element.
ElementRest ==
  fw.in + push.n + nullRun + remaining + (IF pc = "header" THEN TarBlock ELSE 0)

\* The size pledged to zstd when a frame opens with an element is the size the
\* frame gets, so that libzstd never fails a run for it: not when -S splits
\* the element, when entries are held for it, or when it ends a run of null
\* blocks (startElementFrame(): "a frame that opens with an element holds
\* exactly that element, or with -S its first part").  Only an element of 2^64
\* bytes or more can break the pledge, and no input holds one.
PledgeHonoured == status = "zstdError" => ElementRest > U64Max

\* A run that succeeds has the whole input in its frames, and no frame is
\* empty or larger than the seek table can describe.
FrameLimit ==
  /\ \A i \in 1 .. Len(fw.table) : fw.table[i] \in 1 .. maxBlockSize(opts)
  /\ fw.open /\ status = "running" => fw.in < maxBlockSize(opts)
  /\ status = "ok" => Complete(fw) = Total(input)

\* The held entries fit in `held'.
HeldFits == heldLen <= HeldSize

\* An archive that the file path compresses is not refused on standard input
\* ("Implements the same framing logic as the mmap path"), and no error of
\* libzstd ends its run.
TakesEveryArchive ==
  status \in {"rejected", "zstdError"} => ~Abstract!WellFormed
=============================================================================
