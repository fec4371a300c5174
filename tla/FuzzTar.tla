------------------------------ MODULE FuzzTar ------------------------------
(***************************************************************************)
(* The two tar harnesses: one call of LLVMFuzzerTestOneInput(), in which   *)
(* exit() is a longjmp() back to the harness.  What the run had allocated  *)
(* by then must be freed exactly once, by whoever owns it, and the three   *)
(* standard streams must be the process's own again.                       *)
(***************************************************************************)
EXTENDS Integers, FiniteSets

CONSTANTS
  MaxBlocks,  \* bound: 512-byte blocks of the input
  MaxFrames   \* bound: frames of a run

\* What the model assumes of the constants.
ConstantsFit == MaxBlocks \in Nat /\ MaxFrames \in Nat

\* -s, -S and -r of each mode.
FUZZ_MODES ==
  <<[s |-> 0, S |-> 0, raw |-> FALSE], [s |-> 2000, S |-> 0, raw |-> FALSE],
    [s |-> 0, S |-> 1000, raw |-> FALSE], [s |-> 1000, S |-> 1000, raw |-> FALSE],
    [s |-> 0, S |-> 0, raw |-> TRUE], [s |-> 700, S |-> 0, raw |-> TRUE]>>

fuzzMode(n) == FUZZ_MODES[(n % 6) + 1]

\* What the fields of the Context point to.
Fields == {"cctx", "outBuff", "seekTable"}

Objects == Fields \cup {"ctx", "inBuf", "mem", "devnull", "outMem", "out"}

VARIABLES
  harness,  \* "mmap" or "stdin"
  blocks,   \* complete blocks of the input
  pc,
  live,     \* objects allocated and not freed
  ctx,      \* the harness's `ctx' is not NULL
  set,      \* the fields of the Context that are not NULL
  std,      \* the standard streams that are replaced
  jumped,   \* exit() was called
  frames,   \* frames compressed
  unwritten,  \* bytes are in the buffer of outMem, not yet in `out'
  twice,    \* something was freed twice
  cause     \* why exit() was called

vars == <<harness, blocks, pc, live, ctx, set, std, jumped, frames, unwritten, twice, cause>>

raw == fuzzMode(blocks).raw

\* The mmap harness leaves inputs of less than a block alone.
Init ==
  /\ harness \in {"mmap", "stdin"} /\ blocks \in 0 .. MaxBlocks
  /\ pc = (IF harness = "stdin" THEN "fmemopen" ELSE IF blocks = 0 THEN "done" ELSE "stderr")
  /\ live = {} /\ ctx = FALSE /\ set = {} /\ std = {}
  /\ jumped = FALSE /\ frames = 0 /\ unwritten = FALSE /\ twice = FALSE /\ cause = "none"

At(label) == pc = label

Goto(label) == pc' = label

\* free() and fclose() of some objects.
Free(objects) ==
  /\ live' = live \ objects
  /\ twice' = (twice \/ ~(objects \subseteq live))

Keep == UNCHANGED <<harness, blocks>>

\* exit() while fuzz_active.
Exit(why) ==
  /\ jumped' = TRUE /\ cause' = why /\ Goto("restore")
  /\ UNCHANGED <<ctx, set, std, frames, unwritten>>

----------------------------------------------------------------------------
(* The harness, before the run. *)

OpenStdin ==
  /\ At("fmemopen")
  /\ \/ live' = live \cup {"mem"} /\ std' = std \cup {"stdin"} /\ Goto("stderr")
     \/ Goto("done") /\ UNCHANGED <<live, std>>
  /\ Keep /\ UNCHANGED <<ctx, set, jumped, frames, unwritten, twice, cause>>

\* Without /dev/null, or without a stream for the output, it aborts.
Silence ==
  /\ At("stderr")
  /\ \/ live' = live \cup {"devnull"} /\ std' = std \cup {"stderr"} /\ Goto("stdout")
     \/ Goto("aborted") /\ UNCHANGED <<live, std>>
  /\ Keep /\ UNCHANGED <<ctx, set, jumped, frames, unwritten, twice, cause>>

CollectOutput ==
  /\ At("stdout")
  /\ \/ live' = live \cup {"outMem", "out"} /\ std' = std \cup {"stdout"} /\ Goto("newContext")
     \/ Goto("aborted") /\ UNCHANGED <<live, std>>
  /\ Keep /\ UNCHANGED <<ctx, set, jumped, frames, unwritten, twice, cause>>

----------------------------------------------------------------------------
(* The run. *)

NewContext ==
  /\ At("newContext")
  /\ \/ /\ live' = live \cup {"ctx"} /\ ctx' = TRUE /\ Goto("prepareOutput")
        /\ UNCHANGED <<set, std, jumped, frames, unwritten, cause>>
     \/ Exit("memory") /\ UNCHANGED live
  /\ Keep /\ UNCHANGED twice

\* An allocation whose result goes into a field of the Context.
Allocate(label, field, next) ==
  /\ At(label)
  /\ \/ /\ live' = live \cup {field} /\ set' = set \cup {field} /\ Goto(next)
        /\ UNCHANGED <<ctx, std, jumped, frames, unwritten, cause>>
     \/ Exit("memory") /\ UNCHANGED live
  /\ Keep /\ UNCHANGED twice

prepareOutput == Allocate("prepareOutput", "outBuff", "prepareCctx")

prepareCctx == Allocate("prepareCctx", "cctx", "setParameter")

setParameter ==
  /\ At("setParameter")
  /\ \/ /\ Goto(IF harness = "stdin" /\ raw THEN "inBuf" ELSE "frames")
        /\ UNCHANGED <<ctx, set, std, jumped, frames, unwritten, cause>>
     \/ Exit("zstd")
  /\ Keep /\ UNCHANGED <<live, twice>>

\* compressStdinRaw() has its buffer from malloc().
AllocateInBuf ==
  /\ At("inBuf")
  /\ \/ /\ live' = live \cup {"inBuf"} /\ Goto("frames")
        /\ UNCHANGED <<ctx, set, std, jumped, frames, unwritten, cause>>
     \/ Exit("memory") /\ UNCHANGED live
  /\ Keep /\ UNCHANGED twice

\* A frame is compressed, written and recorded in the seek table.
Frame ==
  /\ At("frames") /\ frames < MaxFrames
  /\ \/ /\ frames' = frames + 1 /\ unwritten' = TRUE
        /\ live' = live \cup {"seekTable"} /\ set' = set \cup {"seekTable"}
        /\ UNCHANGED <<pc, ctx, std, jumped, cause>>
     \/ \E why \in {"write", "memory"} : Exit(why) /\ UNCHANGED live
  /\ Keep /\ UNCHANGED twice

\* The input is refused, or cannot be read: the raw path frees its buffer.  A
\* file in raw mode is never refused.
InputError ==
  /\ At("frames") /\ ~(harness = "mmap" /\ raw)
  /\ Exit("input")
  /\ Free(live \cap {"inBuf"})
  /\ Keep

InputEnd ==
  /\ At("frames") /\ frames > 0
  /\ Free(live \cap {"inBuf"})
  /\ Goto("cleanup")
  /\ Keep /\ UNCHANGED <<ctx, set, std, jumped, frames, unwritten, cause>>

\* Mutants: the fields still point to what is freed; nothing is flushed.
CleanedUpDangling == set' = set \ {"outBuff"} /\ unwritten' = FALSE

CleanedUpBuffered == set' = set \ Fields /\ UNCHANGED unwritten

CleanedUp == set' = set \ Fields /\ unwritten' = FALSE

\* cleanupCompression(): the seek table is written; then all is freed and set
\* to NULL, the output buffer only once the output is flushed.
Cleanup ==
  /\ At("cleanup")
  /\ \/ Free(set) /\ CleanedUp /\ Goto("restore") /\ UNCHANGED <<ctx, std, jumped, frames, cause>>
     \/ Exit("write") /\ UNCHANGED <<live, twice>>
     \/ /\ Free(set \ {"outBuff"}) /\ set' = set \cap {"outBuff"}
        /\ jumped' = TRUE /\ cause' = "write" /\ Goto("restore")
        /\ UNCHANGED <<ctx, std, frames, unwritten>>
  /\ Keep

----------------------------------------------------------------------------
(* The harness, after the run. *)

\* stdin and stderr.
Restore ==
  /\ At("restore")
  /\ Free({"devnull"} \cup (IF harness = "stdin" THEN {"mem"} ELSE {}))
  /\ std' = std \ {"stdin", "stderr"}
  /\ Goto(IF jumped THEN "output" ELSE "check")
  /\ Keep /\ UNCHANGED <<ctx, set, jumped, frames, unwritten, cause>>

\* fuzzCheckRoundTrip() decompresses `out', and aborts on any difference.
fuzzCheckRoundTrip ==
  /\ At("check")
  /\ Goto(IF unwritten THEN "mismatch" ELSE "output") \/ Goto("aborted")
  /\ Keep /\ UNCHANGED <<live, ctx, set, std, jumped, frames, unwritten, twice, cause>>

RestoreOutput ==
  /\ At("output")
  /\ Free({"outMem", "out"}) /\ std' = std \ {"stdout"}
  /\ Goto("free")
  /\ Keep /\ UNCHANGED <<ctx, set, jumped, frames, unwritten, cause>>

FreeContext ==
  /\ At("free")
  /\ Free(IF ctx THEN set \cup {"ctx"} ELSE {})
  /\ Goto("done")
  /\ Keep /\ UNCHANGED <<ctx, set, std, jumped, frames, unwritten, cause>>

Next ==
  \/ OpenStdin \/ Silence \/ CollectOutput
  \/ NewContext \/ prepareOutput \/ prepareCctx \/ setParameter
  \/ AllocateInBuf \/ Frame \/ InputError \/ InputEnd \/ Cleanup
  \/ Restore \/ fuzzCheckRoundTrip \/ RestoreOutput \/ FreeContext

Spec == Init /\ [][Next]_vars
----------------------------------------------------------------------------
\* Nothing is freed by the run and by the harness again, and whenever exit()
\* jumps back nothing of the run is left, "only a write or compression error
\* [...] would leave one behind": the buffer of compressStdinRaw()
\* (FUZZING.md:160), as a seek table that cannot grow does too.  The process's
\* own streams are restored.
FreedOnce ==
  /\ ~twice
  /\ pc = "done" =>
       /\ std = {}
       /\ live \subseteq (IF cause \in {"write", "memory", "zstd"} /\ harness = "stdin" /\ raw
                          THEN {"inBuf"} ELSE {})

\* The oracle sees every byte of the archive: it reads the memory of a stream
\* that is still open.
OracleSeesOutput == pc # "mismatch"
=============================================================================
