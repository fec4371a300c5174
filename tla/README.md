# Formal models of t2sz

t2sz compresses a tar archive, or any file with `-r`, into independent zstd
frames followed by a seek table. These TLA+ modules model the program from the
first line of `main` to the last byte of the seek table: its options, the
opening of its files, how it cuts its input into frames, the calls of libzstd
behind a frame, the seek table, the life of its output file, and the harnesses
that fuzz it. TLC checks them on small instances; for every instance, TLAPS
proves all of the invariants and action properties that TLC checks, and that the
paths and the seek table implement the abstract specifications of what they
promise.

Line numbers without a file are those of `src/t2sz.c`.

## Inventory

| Component | State | Operations | Interacts with |
|---|---|---|---|
| Tar headers | none | `checksum`, `isTarHeader`, `parseTarSize`, `isZeroTarBlock`, `joinsNextEntry`, `hasSparseExtension`, `tarEntrySize`, `paxSize` | read by both tar paths |
| Block sizes | `minBlockSize`, `maxBlockSize` | head of `compressFile` (1226-1233) | read by every path |
| Frame writer | the open frame (`frameIn`, `frameOpen`), the zstd session and its pledged size, the seek table | `startFrame`, `startElementFrame`, `pushBytesTar`, `endFrameAndRecord`, `zstdCompressBufferToFrame`, `seekTableAdd` | called by every path |
| zstd loops | the parameters and the session of the `ZSTD_CCtx`, the output buffer | `prepareCctx`, `zstdResetFrame`, `zstdSetPledged`, the loops around `ZSTD_compressStream2`, `checkedFwrite` | frame writer, libzstd |
| Tar from standard input | `held`, `nullRun`, `paxNextSize`, the header read last, the position in the payload | `compressStdinTar`, `readExactStdin` | frame writer, `fread` |
| Mapped file | `tarHeaderIdx`, `readBuff`, `residual`, `joinNext`, `paxNextSize`, `lastChunk`, `blockSize` | the inline loops of `compressFile` | frame writer |
| Raw data from standard input | bytes in `frameBuf`, or the open frame | `compressStdinRaw` | frame writer, `fread` |
| Seek table on disk | `seekTable`, `seekTableCap`, `seekTableLen`, the bytes after the frames | `seekTableAdd`, `seekTableEnsureCap`, `writeLE32`, `writeSeekTable` | frame writer |
| Output file | `partialOutput`, `partialFile`, `outFile`, the dispositions of SIGINT and SIGTERM | `main`, `prepareOutput`, `cleanupCompression`, `removePartialOutput`, `removePartialOutputOnSignal` | the file system, signals, other processes |
| Opening the input | the descriptors 0 to 4, the FILE `stdin`, the mapping | `main` (1826-1904), `outputIsInput`, `prepareInput`, `prepareOutput` | the shell, the terminal, mapped file, standard input paths |
| Command line | the Context, what `getopt()` keeps | `parseArgs`, `parseBlockSize`, `decodeMultiplier`, `strEndsWith` | main, `getopt` |
| Fuzz harness | what a run jumped out of has allocated, the standard streams | `fuzz/fuzz_tar_mmap.c`, `fuzz/fuzz_tar_stdin.c`, `fuzz/fuzz_cli.c`, `fuzz/fuzz_tar.h` | all of the above, through `exit` |
| `mman_compat.h`, tests, packaging | | | |

t2sz runs one thread of its own (libzstd may run workers inside a call). What
makes it hard is not concurrency in the program but the number of states the
loops carry from one turn to the next:

* The same framing is written twice: over a mapped file, where the parser runs
  ahead of the compressor, and over a stream, where it cannot look ahead and
  must hold entries back.
* With a stream, the size of a frame is pledged to zstd when the frame opens,
  before its payload is read; a wrong pledge fails the run several calls later.
* Entries that join the next one (extended headers, AppleDouble files) and runs
  of null blocks wait in buffers while reading goes on.
* `-s` joins elements and `-S` splits them; both together leave residuals,
  flags and counters that outlive a block.
* libzstd may take and give any part of the data at each call, and one context
  serves every frame: a frame must be flushed whole before the next reset.
* The output exists under its final name from the first byte on; it is removed
  from `atexit`, from a signal handler, or not, depending on how far the run
  got, while other processes use the same directory.
* The descriptors and the FILE `stdin` have a past when compression starts: they
  may be closed, redirected to the input or the output, or have been read for
  the answer to a prompt.

What makes each component correct:

* Frame writer: the seek table describes the frames; a frame is closed with the
  size pledged for it; frames fit in the seek table.
* zstd loops: every frame in the file is whole, made with the parameters asked
  for, and as long as the seek table says; the loops end.
* Tar from standard input, mapped file, raw data: no byte is lost, repeated or
  moved, buffers do not overflow, and the frames are those of `Framing`.
* Framing: lossless, sizes as documented for `-s` and `-S`, elements kept whole.
* Seek table on disk: a reader finds the frames that were written, or no table.
* Tar headers: a size is read as it was written, in every format, or refused.
* Output file: no partial archive under the final name unless it cannot be
  removed, a complete one kept, nothing replaced unasked, no special file that was
  there removed.
* Opening the input: what is read is the input, from its start, and the output
  goes where it was asked to and nowhere else.
* Command line: options are taken as meant, in any order.
* Fuzz harness: one input does not change the result of another, whatever line
  the run is jumped out of.

## Modules

    Tar            blocks of a stream and the helpers that read a header
     Config        inputs, command lines, minBlockSize and maxBlockSize
      Elements     where the elements of an archive end (the layout)
       Framing     what t2sz promises of its frames (abstract specification)
       FrameWriter the frame being built, the zstd session, the seek table
        StdinTar   compressStdinTar()           implements Framing
        MmapFile   the loops of compressFile()  implements Framing
        StdinRaw   compressStdinRaw()           implements Framing
      Archives     small archives and command lines for the model checker
    ZstdFrame      prepareCctx() and the loops around ZSTD_compressStream2()
    FrameIndex     what t2sz promises of its seek table (abstract specification)
    SeekTable      the array, the bytes on disk, a reader  implements FrameIndex
     Archive       ZstdFrame and SeekTable composed: the frames and their table
    OutputFile     the life of the output file
    Launch         from main() to compressFile(): descriptors, prompt, files
    TarFields      checksum(), parseTarSize(), the mutator of the harnesses
    PaxRecords     paxSize(), byte by byte
    CommandLine    parseArgs() over getopt() and strtol()
     FuzzCli       the harness that calls parseArgs() again and again
    FuzzTar        the harnesses of the tar paths

    MCStdinTar, MCMmapFile, MCStdinRaw   instances for TLC
    MCHeaders      TarFields and PaxRecords, side by side
    MCFuzz         FuzzTar and FuzzCli, side by side
    MCFiles        OutputFile and Launch, side by side

    FrameWriterProofs   lemmas about the operators of Tar, Config, Elements and
                        FrameWriter, and about Framing
    StdinTarProofs, MmapFileProofs, StdinRawProofs
                        theorems about the path named
    ArchiveProofs       theorems about SeekTable, ZstdFrame and Archive
    FilesProofs         theorems about OutputFile and Launch
    HeaderProofs        theorems about TarFields and PaxRecords
    HarnessProofs       theorems about CommandLine, FuzzCli and FuzzTar

**Tar.** A stream is a sequence of 512-byte blocks (`TarBlock` bytes) and a tail.
Of a block the model keeps what the program tells apart: null, header or other;
type flag; value of the size field; whether the name is AppleDouble; byte 482
(sparse map goes on) and 504 (another extension block); a pax size record. A
header whose checksum does not match is an "other" block. `parseTarSize`,
`checksum` and the text of pax records are thus inputs here; `TarFields` and
`PaxRecords` show that they are read as assumed. One consequence: a pax record
lies in one block and counts when its block starts within the data searched.

**Config.** The two normalised block sizes; `-S` is ignored in raw mode.
`CommandLine` is what `parseArgs` lets through (`-S` absent or at least `-s`).

**Elements.** `Layout(st)` walks an archive from its first byte and says where
its elements end and whether it is whole, by recursion over offsets, with no
buffer, read or frame. It uses the same header helpers as the paths, so it
checks how the paths use them, not the helpers themselves. The recursion is that
of a function, `Rest(st)`, over the places a parser may be at (a byte, and the
size pending for the next entry); `LayoutAt` is one step of it. The sizes of
files are 63 bits wide (`off_t`), so that an input and one block more fit in
64 bits: `InputsAssumption`.

**Framing.** State: the end of each frame, as an offset in the input. `Emit`
writes the next one: it ends at the first of the largest frame allowed, the end
of an element with at least `-s` bytes in the frame, the end of the input.
`Finish` needs the whole input in the frames; `Reject` may come at any time on
an input that is no archive; `IOError` at any time. It allows a path to write
some frames of a broken archive before refusing it, as all of them do. A broken
archive is never "ok". `FrameWriter` has its INSTANCE, `Abstract`, and
`FramesAsDocumented`, what the documentation promises of the frames.

**FrameWriter.** One record with `frameOpen`, `frameIn`, the seek table, the
counters of the Context, and of libzstd the pledged size and the bytes the
session was given. The program's own counter (`in`) and what zstd was given
(`zin`) are kept apart, as are the table and the frames really written (`ends`),
so that a wrong count shows. libzstd fails when a frame ends with another size
than pledged, and may fail as soon as it is given more. A turn of the loop of
`pushBytesTar` is one step. Compressed sizes are left out.

**StdinTar.** `pc` is the next read or the next `pushBytesTar` call:

| pc | lines | actions |
|---|---|---|
| read | 1033-1052 | ReadNull, ReadHeader, ReadEnd, RejectPartial |
| flush, nulls, flushed | 1054-1072 | FlushHeld, FlushNulls, EndFlush |
| entry | 1074-1117 | RejectHeader, Hold, BeginEntry |
| header, sparse | 1118-1123 | PushHeader, ReadSparse |
| payload | 1129-1159 | ReadPayload, EndEntry |
| finish | 1161-1170 | EndLast, Finish |

While `push.n > 0` a `pushBytesTar` call is in progress (`Push`). A null run is
pushed by one call rather than by one per chunk of zeros, which makes no
difference to the frames. `heldFrom` and `push.from` are history: the offsets
the bytes came from.

**MmapFile.** One action per turn of the inner loop (`TakeResidual`,
`TakeNull`, `TakeEntry`, the rejections), all of which end with `EndTurn` (lines
1371-1379); `Compress` is lines 1386-1388.

**StdinRaw.** `fread` may return any number of bytes; with `-s` the frame
buffer is filled by several reads.

**ZstdFrame.** A caller makes any frames, from one buffer or from pieces; where
they are cut is left to the paths. `cctx` holds the parameters and the session:
the bytes taken, made of them and given out. `Call` is one call of
`ZSTD_compressStream2`, which takes `k` bytes and gives `f`, whatever zstd.h
allows; `Write` is the `checkedFwrite` after it, the counters and the condition
the loop ends at. Of the three loops (687-700, 972-983, 720-735) only the mode
and that condition differ. Data are counted, not kept.

**SeekTable.** The array is a function whose domain is what `realloc` gave, so
that a store outside it shows; sizes given to `realloc` are taken modulo
`SizeMax` + 1. `writeSeekTable` gives bytes, base `Base`, and `reader` reads
them back from the footer, as a reader of the zstd seekable format does.
`FrameIndex` adds frames, publishes them, or gives the table up, and only when
the format cannot describe one frame more. The sizes of the frames are any of
a set; that they are those of the frames in the file is shown by `Archive`.

**Archive.** `ZstdFrame` and `SeekTable` composed. `Compress` is a step of the
loops, and when it ends a frame the `Add` of `SeekTable` is the same step: the
call of `seekTableAdd` in `endFrameAndRecord` (937), or with the value of
`zstdCompressBufferToFrame` (826, 1386). The loops go on once it returns
(`AddFrame`), and `FinishTable` is `writeSeekTable` after the last frame (1183).
What goes wrong in one half ends both.

**OutputFile.** File names and inodes are told apart: the name may refer to
somebody else's file, to the run's, or to nothing. `pc` follows `main` (1883 to
1921), `prepareInput`, `prepareOutput` (572 to 581), `cleanupCompression` and
the exit handlers, one step per call or assignment that a signal or another
process may come between. `Signal` may happen at every step. Standard output
(`-o -`) has no file and is left out, as is the Windows branch. A symbolic link
counts as a special file, which `lstat` tells from a regular one. Another process
may put either kind of file under the name at any step. `remove` and `unlink` may
fail (`Unlink`), as with `-f` on a writable file in a directory that is not, and
the program ignores it: `kept` records that it happened, as `seen` does the inode
that `lstat` found. The steps of other processes do not write into the run's own
file.

**Launch.** Descriptors 0, 1 and 2 may each be closed, a terminal, a pipe, the
input or the output when `main` starts; `open` takes the lowest free one. `fd`
says what each refers to, `stdin` is the FILE: its buffer and its end-of-file
indicator, which `getchar` changes and `dup2` does not. One action per stage of
`main` (`FixStderr`, `CheckInput`, `Destination`, `CheckSame`, `CheckExists`,
`Getchar`, `Answered`), of `prepareInput` (`SkipInput`, `RejectInput`,
`MapInput`, `RedirectInput`) and `prepareOutput`. Nobody else touches the names
meanwhile; that is what `OutputFile` is about, where these stages are one step
each. On a mapped file, a file or a pipe the run then goes on with `MmapFile`,
`StdinTar` or `StdinRaw`, whose `Init` needs of `Launch` only that the input is
read from its start: `ReadsInput`.

**TarFields.** A byte is a number; octal is base `Radix` and base-256 is base
`Byte`. `parseTarSize`, `checksum` and `isTarHeader` are operators, checked
against the writers: a size in every format that tar programs write, checksums
as POSIX and git write them. `FixBlock` is a turn of the mutator.

**PaxRecords.** One step per byte that `paxSize` reads, with its unsigned
arithmetic; a comparison that goes past the data may give anything.

**CommandLine.** A word is a sequence of numbers and texts. `getopt` is external:
clusters, arguments in the same word or the next, operands left for the end, `--`.
One action per case of the switch and per check after it.

**FuzzCli, FuzzTar.** `FuzzCli` runs `CommandLine` on one input after another and
keeps what it returned. `FuzzTar` follows one call of a tar harness: which
objects are allocated, which fields point to one, and what is left in the buffer
of a stream, with `exit` jumping out of any stage of the run. Of the compression
it keeps how many frames were made.

## Runs

Constants stand for: `TarBlock` = 2 bytes for 512; `U64Max` = 31 for 2^64 - 1;
`MaxFrameSize` = 9 for 2 GiB - 1, odd like the real one, so that frames end
within blocks; `HeldSize` = 6 for 64 KiB (three blocks, so that one or two
joining entries fit and a third does not); `InChunk` = 4 for 128 KiB (payloads
need one or two chunks); `U32` = 10, the smallest value above `MaxFrameSize`;
`MaxFrames` = 4, so that the table overflows in some runs and not in others.

Inputs of the tar paths are all sequences of up to two of the pieces in
`Archives`: entries with no, one and three payload blocks, AppleDouble files
that fit in `held` and one that does not, long names, global and size-giving pax
headers, sparse entries with and without extension blocks, one and two null
blocks; each whole, followed by a broken piece (a block that is no header, sizes
that do and do not fit in 64 bits once padded, a payload or sparse map cut
short), or by less than a block. Two elements are enough for each pair of things
the loops carry over (held then pushed, null run then entry, residual then
entry); three are needed for `held` to fill up, and `MCStdinTar` adds the
sequences of three joining entries. Command lines have no `-s`/`-S`, either,
both equal, both different, and more than a frame holds; and `-j`.

| Run | Shows | Bounds |
|---|---|---|
| stdin_tar | `TypeOK`, `InOrder`, `PledgeHonoured`, `FrameLimit`, `HeldFits`, `SeekTableDescribesFrames`, and `ImplementsFraming` for `compressStdinTar` | above |
| mmap_file | `Accounted` (parser, block, residual and compressor add up), `BlockFits`, `SeekTableDescribesFrames`, `ImplementsFraming`, and `FramesAsDocumented`: lossless, exact with -s = -S, nothing split but at the limit | above, raw and tar |
| stdin_raw | `Accounted`, `SeekTableDescribesFrames`, `ImplementsFraming` whatever the sizes of the reads | inputs of up to 23 bytes, reads of 1 to 4, so that a frame takes several |
| seek_table | `StoreInBounds`, `ReaderFindsFrames`, `GrowthEnds`, `ImplementsIndex` | the capacity starts at 1 and doubles twice, up to 3 frames recorded and a fourth too many; 4 values a byte, so that sizes take four bytes |
| archive | `FramesAsAsked` and `LoopsEnd` of the loops, and `ReaderKnowsFile`: what a reader finds in the table is what is in the file, every frame whole | two frames of up to two bytes, up to five compressed, an output buffer of two: a frame fills it several times, and its last call may give nothing but the epilogue; two frames are enough to see a reset, and the array grow |
| files | `NoPartialArchive` (unless `remove` or `unlink` itself failed), `CompleteKept`, `ClosedOnce`, `ReplacedOnlyIfAgreed`, `IgnoredStaysIgnored`, `SpecialFileKept` (of a special file that `lstat` found) of the output; `ReadsInput`, `InputIntact`, `OutputApart` of the start of a run | up to two steps of other processes (`MaxOthers`): one can remove the name and one take it, with a regular file or a special one; every combination of descriptors, names and options; two lines typed, for one is the answer and the next must not be read as input |
| headers | `SizeRead`, `ChecksumFormats`, `MutatedAccepted`; `FindsSize` and `Termination` of `paxSize` | every size in every format; mutated inputs of up to two blocks; any pax data of up to six bytes, and lists of up to two records |
| fuzz | `FreedOnce`, `OracleSeesOutput`; `TakenAsMeant`, `ParsedAfresh` | inputs of up to six blocks, which select each of the six modes; command lines of three words; three inputs in a row, the first again at the end |

`ImplementsFraming` is a refinement: every step of a path is a step of `Framing`
or changes nothing it sees, and every run ends when `Framing` says it must. Since
all three paths implement the same specification, what mmap_file shows of the
frames (`FramesAsDocumented`) is true of all paths, and an input has the same
frames in a file and on standard input (`TarFramesAsOfFile`, `RawFramesAsOfFile`). `PledgeHonoured` excepts an
element of 2^64 bytes, whose size wraps around at line 1114: the guard at 1083
leaves room for one header, not for what `held` holds. No input has so many
bytes, so the run ends with an error either way. `ImplementsIndex` is a
refinement too: whatever `realloc` does and wherever the run fails, a reader
finds the frames recorded or nothing.

`MCHeaders`, `MCFuzz` and `MCFiles` put two models that share no variable side by
side: an initial state belongs to one of them and the other stutters.

Four runs find what the program does and its documentation says it does not:

| Run | What happens |
|---|---|
| stdin_tar_big_pax | `paxSize` is called on a pax header only if `held` or one chunk holds all of it (line 1135). A pax header of more than 128 KiB with a size record is honoured in a mapped file and ignored on standard input, against "Implements the same framing logic as the mmap path" (996) |
| output_signal_window | SIGINT or SIGTERM between `fopen` (574) and `partialOutput =` (580) leaves a partial archive, against the comment at 543 |
| output_replaced | A FIFO, a device or a link that another process puts under the output's name between `lstat` (572) and `fopen` (574) is opened, taken for the regular file, or the nothing, that `lstat` found, and removed (1807) if the run fails, against "removes the output only if it is a regular file" (566). `SpecialFileKept` is what does hold: a special file that `lstat` found stays |
| launch_eof | `y`, Ctrl-D, Ctrl-D at the prompt sets the end-of-file indicator of `stdin`; `dup2` (537) moves the input under it, and the first `fread` returns nothing: an empty archive, exit code 0 |

Other disagreements met while modelling are part of the models, which follow the
code, and have no run of their own:

* an ignored signal between the two `signal` calls (1909-1914) ends the run,
  against the comment at 1907; `IgnoredStaysIgnored` speaks of the time after;
* a file created between `access` (1883) and `fopen` (574) is replaced unasked,
  against README.md:157; `prepareInput` opens the input in between and may wait
  long for a FIFO. `ReplacedOnlyIfAgreed` excepts it;
* `remove` (1807) and `unlink` (1819) may fail and nobody looks: with `-f` on a
  writable file in a directory that is not writable, or on a bind mount, a failed
  run leaves the partial archive and says nothing of it, against the comment at
  543, "so that no partial archive is left". `NoPartialArchive` shows that this is
  the only way one stays after a failure, and excepts it (`kept`);
* the value of a size record without a digit is read as 0 (222), where the
  comment at 202 says that an invalid size counts as none;
* `-S` below `-s` is refused also in raw mode (1768), where README.md:142 says
  that `-S` is ignored: the action `BadSizes`;
* `fuzz_cli.c` counts the `\0` bytes (83), so that a last string without one is
  dropped, against its line 15: the operator `argc`.

Deadlock checking is off: every run of the program ends.

Each property is also checked against a change of the model that a bug in the
code would be; these "Mutant" operators stand next to the definition they
change, and nothing uses them otherwise.

## Fairness

`Framing` and the three paths have weak fairness on the steps of the one thread
that runs the loop, for it has nothing to wait for but `fread` and `fwrite`, and
an input that ends. `ZstdFrame` has it on the calls and writes, and `Archive` on
those and on the growth of the array: all of them return.
`SeekTable` has it on the growth of the array and the store, and `MCHeaders` on
`paxSize`, which are loops without a call that waits. I/O errors, failures of
`realloc` and of libzstd are not fair: they may never happen. That the loops of
`ZstdFrame` end also needs libzstd to make progress, which zstd.h promises: a
call takes a byte or gives one. `MCFiles` and `MCFuzz` have no fairness
and no liveness property: the run may be stopped, or wait for its input or an
answer for ever.

## Proofs

The theorems hold for every set of inputs and command lines, and every value of
the constants that the named assumptions of the modules allow: blocks and chunks
are not empty, a header and its padding fit in 64 bits, the largest frame is
smaller than 2^32 and than 2^64 - 1 (and stays so once compressed), the bytes of
a full seek table fit in a `size_t`, inputs are streams, with room for one block
more below 2^64, and command lines are what `parseArgs` lets through. Four
theorems about tar archives on standard input need `PaxSearched` too, as said
below. The numbers of headers and of pax records may have any base, width and
largest value, and the inputs of the harnesses and the command lines in them any
length.

| Module | Theorem | Statement |
|---|---|---|
| `StdinTarProofs` | `TypeCorrect` | `Spec => []TypeOK` |
| | `KeepsOrder` | `Spec => []InOrder` |
| | `KeepsPledge` | `Spec => []PledgeHonoured` |
| | `FramesFit` | `Spec => []FrameLimit` |
| | `HeldNeverOverflows` | `Spec => []HeldFits` |
| | `TableDescribesFrames` | `Spec => []SeekTableDescribesFrames` |
| | `TarImplementsFraming` | `Spec /\ []PaxSearched => Abstract!Init /\ [][Abstract!Next]_(Abstract!vars)` |
| | `TarFramesAsDocumented` | `Spec /\ []PaxSearched => []FramesAsDocumented` |
| | `TarTakesEveryArchive` | `Spec /\ []PaxSearched => []TakesEveryArchive` |
| | `TarFramesAsOfFile` | `Spec /\ []PaxSearched /\ File!Spec => []FileFramesAgree` |
| | `SearchesSmallPax` | `Spec => []PaxSearched`, assuming `PaxFits` |
| `MmapFileProofs` | `MappedAccounted` | `Spec => []Accounted` |
| | `MappedBlockFits` | `Spec => []BlockFits` |
| | `MappedTableDescribesFrames` | `Spec => []SeekTableDescribesFrames` |
| | `MappedImplementsFraming` | `Spec => Abstract!Init /\ [][Abstract!Next]_(Abstract!vars)` |
| | `MappedFramesAsDocumented` | `Spec => []FramesAsDocumented` |
| `StdinRawProofs` | `RawAccounted` | `Spec => []Accounted` |
| | `RawTableDescribesFrames` | `Spec => []SeekTableDescribesFrames` |
| | `RawImplementsFraming` | `Spec => Abstract!Init /\ [][Abstract!Next]_(Abstract!vars)` |
| | `RawFramesAsDocumented` | `Spec => []FramesAsDocumented` |
| | `RawFramesAsOfFile` | `Spec /\ File!Spec => []FileFramesAgree` |
| `FilesProofs` | `NoPartialArchiveLeft` | `Spec => []NoPartialArchive` |
| | `CompleteArchiveKept` | `Spec => []CompleteKept` |
| | `NeverClosedTwice` | `Spec => []ClosedOnce` |
| | `NeverReplacedUnasked` | `Spec => []ReplacedOnlyIfAgreed` |
| | `IgnoredSignalsStay` | `Spec => []IgnoredStaysIgnored` |
| | `SpecialFilesStay` | `Spec => SpecialFileKept` |
| | `RunReadsInput` | `Launch!Spec => []ReadsInput` |
| | `InputNeverTruncated` | `Launch!Spec => []InputIntact` |
| | `OutputKeptApart` | `Launch!Spec => []OutputApart` |
| `ArchiveProofs` | `StoresInBounds` | `Spec => []StoreInBounds` |
| | `TableRecordsFrames` | `Spec => []RecordsFrames` |
| | `ReaderFindsAll` | `Spec => []ReaderFindsFrames` |
| | `ImplementsFrameIndex` | `Spec => ImplementsIndex` |
| | `TableTellsTruth` | `Zstd!Spec => []TableDescribesFile` |
| | `FramesCompressedAsAsked` | `Zstd!Spec => []FramesAsAsked` |
| | `ArchiveReadable` | `ArchiveSpec => []ReaderKnowsFile` |
| `HeaderProofs` | `SizesReadAsWritten` | `MCSpec => []SizeRead` |
| | `ChecksumDecides` | `MCSpec => []ChecksumFormats` |
| | `MutatorFixes` | `MCSpec => []MutatedAccepted` |
| | `PaxSizeFound` | `MCSpec => []FindsSize` |
| `HarnessProofs` | `FuzzFreesOnce` | `MCSpec => []FreedOnce` |
| | `FuzzOracleSound` | `MCSpec => []OracleSeesOutput` |
| | `ParserTakesMeaning`, `FuzzTakesMeaning` | `CliSpec => []TakenAsMeant`, and the same of `MCSpec` |
| | `ParserStartsAfresh`, `FuzzStartsAfresh` | `CliSpec => []ParsedAfresh`, and the same of `MCSpec` |

Few of these are inductive. Each component has an inductive invariant with named
parts, and one lemma per action, or group of actions, that it keeps them:

* `StdinTarProofs`: `PledgeHonoured`, say, speaks of a run that failed, long after
  the wrong size was pledged. `Waiting` says which buffers are empty at which
  step; `Ordered`, that the bytes given to zstd, being pushed, held and in the
  null run add up to those read, and follow each other; `Limited`, that an open
  frame is below `maxBlockSize` and will get a byte; `Pledged`, that while a frame
  of known size is open, that size is the smaller of `maxBlockSize` and of what
  the rest of the element makes the frame (`ElementRest`).
  The refinement needs a second invariant, `PInv`, of what the loop knows of the
  layout, of which it sees each byte once. `Seen` is `ParsedTo` (below) at the place
  of the parser. `Between` two entries that place is the end of what is written,
  being pushed or waits in `held` or the null run; `Within` an entry it is still
  its header, with the size pending then, and `Reading` says how much of the entry
  was read and whether the size for the next one was found already. `Settled`: an
  element that ended left the frame below `-s`, or was compressed.
* `MmapFileProofs`: `Placed` says where parser, block, residual and compressor are
  at each step, the end of the file included; `Cut`, that a block is of the size
  asked for or ends the file, or, in a tar archive, ends an element with at least
  `-s` bytes; `Parsed`, what the parser knows of the layout. With them the block
  that `Compress` gives to zstd ends where `Framing` says.
* `StdinRawProofs`: `Placed` says where the bytes read are in either loop, and
  `OpenFrame` that the open frame is neither empty nor full. From these each step
  is one of `Framing`: in raw mode it says where frames end without an archive.
* The three share the lemmas of `FrameWriterProofs`: what `seekTableAdd`,
  `startFrame`, `Feed`, `endFrameAndRecord`, `CompressBuffer` and `pushBytesTar` do
  to the frame state, and `Described`, the relation between the table, the counter
  and the frames written. Those about archives start from the recursion of
  `Rest`, unfolded once (`RestDef`, from well-foundedness): the layout from one
  place is that from the next with one end more, or none. `ParsedTo(idx, ...)` says
  that the layout is what is left of it at byte `idx` and the ends before, none of
  which the open frame should have ended at; `ParsedOn` carries it over an entry,
  `ParsedFrom` past a frame, and `NextFrameEnd` draws from it that a frame ends
  where `Framing` says. `FramingDocumented` proves `FramesAsDocumented` of
  `Framing` itself, so that it holds of whatever implements it.
* That two ways to read one input agree is a statement about two runs, which share
  `input`, `opts` and `layout`. `FramingsAgree` proves it of two behaviours of
  `Framing`, in whatever order they step: `Twins` says that the frames of each are
  cut where `Framing` cuts them (`CutByFraming`), that neither has a frame that
  differs from one of the other, and that a run that succeeded covers the input,
  so that the other cannot be ahead of it. `MappedFramesAgree` puts a mapped file
  in the place of one. For `TarFramesAsOfFile` and `RawFramesAsOfFile`, `File` is
  an instance of `MmapFileProofs` with variables of its own, whose other run is
  the one on standard input: runs on the same archive and options that both
  succeed have the same frames.
* `PaxSearched`: a pax header that does not wait in `held` has between one byte
  and one chunk of data. Without it `TarImplementsFraming` is false, as the run
  stdin_tar_big_pax shows: `compressStdinTar` calls `paxSize` on no other data
  (1135), so that the size of the next entry is lost, or, when the header has no
  data at all, an older one kept. `SearchesSmallPax` derives it from the inputs
  alone: `PaxFits` says it of every pax header they hold; a chunk of 128 KiB has
  room for many times the names, times and sizes such a header is there for. The six invariants
  above it in the table need no such hypothesis.
* `FilesProofs`, of the output file: `KnowsOutput` says what `partialOutput`,
  `partialFile` and `outFile` tell at each step; `NameKept`, what the name refers
  to unless another process changed it, and that the file `lstat` found is of the
  kind it was; `Handled`, which signals are handled by
  then. Of the opening of the input: `Descriptors`, which of them are still as the
  shell left them; `Compared`, what `outputIsInput` and `prepareInput` found of the
  names and descriptors when they are used; `Answer`, that a line typed leaves the
  buffer of `stdin` before anything else is done, for any number of lines.
* `ArchiveProofs`, of the seek table: `Growing` bounds the capacity while it
  doubles, so that no product wraps around; `Pending`, that the entry to store is
  the last one given; `OnDisk`, that the bytes written, once all are there, read
  back as what was recorded. For this the fields, which `FlattenSeq` joins, are
  unfolded by induction on their number, written with sets of naturals
  (`SetInduction`), and `writeLE32` is inverted digit by digit: field `n` of the
  table is bytes `4n` to `4n + 3`. The same invariant gives the refinement. Of the
  zstd loops: `ParamsKept`, the parameters are set before the first frame and
  stay; `Counted`, the session's counts are those of the program's variables;
  `LastCall`, the call that ends a frame gave out bytes, so that the frame is in
  the file; `FramesOnDisk`, the file is what the table says and the frame being
  made. `ArchiveReadable` is about their composition: `Together` has both
  invariants, `given = sizes`, and that the table is written between frames. A
  step of the loops ends no frame or one whose sizes `SeekTable` takes
  (`FrameEnds`), so that it is a step of both halves (`CompressStep`), and the
  two invariants need no second proof. A reader of a finished archive then finds
  the frames that are in the file, all of them whole, unless the table was given
  up.
* `HeaderProofs`, of the headers: `HeaderInv`. The blocks before `off` are null or
  have their checksum, and nothing but checksums changed. What there is to prove is
  in the lemmas about numbers: that `InDigits` writes and `ValueOf` reads the same
  number for every base and width (`DigitsValue`), that `parseTarSize` and `strtoul`
  stop where the digits end and do not wrap around before (`EncodedRead`,
  `ChecksumRead`), and that a checksum of any header fits in its digits
  (`ChecksumRange`). Of `paxSize`: `PaxInv`. `Layout` says where each record of the
  list lies in the data, and what its bytes are; `AtRecord`, that the search is at
  the start of one, with no size before it; `InLength` and `InSize`, that it has
  read `j` digits of the length, or of the value, and has the number that they
  stand for. That the length of a record, which counts its own digits, exists and
  is written in as many digits as it counts is `LengthIs`; that the unsigned
  arithmetic does not wrap around on such a list is `LengthRead`; that the test
  before a digit is added rejects only numbers within one digit of the largest is
  `TestsTheDigit`. `ConstantsFit` of `PaxRecords` has two bounds for these, which
  the program meets amply: lengths have at most four digits, and two records are
  no longer than `SIZE_MAX`.
* `HarnessProofs`, of the tar harnesses: `StreamsOpen` says which streams are open
  and replaced at each label, `ContextOwns` that what is allocated is what the
  fields of the Context point to, `BufferOwned` whose the buffer of
  `compressStdinRaw` is, `Flushed` that output is left in a buffer only by a jump.
  Of the command line: `TakenSoFar`, that the Context holds what the options read
  so far say. `ParsedAfresh` compares two runs of one behaviour, and its proof is
  that a run has no choice: every step of `parseArgs` is a function, `StepOf`, of
  its state (`StepIsFunction`), so that two runs from the state that `Split` makes
  go through the same states (`TracesAgree`); `AfreshInv` says that every result so
  far is the end of the run from its own input.

The functions these models are written with (`ValueOf`, `Power`, `Rest`, and
`FlattenSeq`) are recursive; each proof module first shows that they exist and
satisfy their equations, by induction over a set of naturals (`SetInduction`,
from well-foundedness), since no prover here takes the library's induction
theorems.

Only model-checked: what concerns liveness and fairness, which is out of the
provers' reach. Of `ImplementsFraming` that is the part that a run ends when
`Framing` must (the rest is proved, for compressStdinTar with the hypothesis
above); `GrowthEnds`, `LoopsEnd` and `Termination` are nothing else.

## Not modelled

* `mman_compat.h` and the `_WIN32` branches of `t2sz.c`: two wrappers around
  Windows calls, without state.
* Text of messages, verbose output, `usage` and `version`, and the name that
  `getOutFilename` builds: no property is about them. "Command line" is partly
  modelled for that reason.
* The compression itself, and the threads of libzstd: `ZstdFrame` takes of them
  what zstd.h promises. The bytes of the frames are not kept, so that the oracle
  of the fuzz harnesses is modelled by whether it sees all of the output.
* A mapped file that changes or is truncated during the run.
* A crash, SIGHUP or SIGKILL: the program handles neither and recovers nothing.
* Test scripts, build files and packaging.
