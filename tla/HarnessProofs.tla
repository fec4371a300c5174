---------------------------- MODULE HarnessProofs ----------------------------
(***************************************************************************)
(* Proofs about the fuzz harnesses and the command line they call: what a  *)
(* run of the tar harnesses leaves, and what parseArgs() makes of a        *)
(* command line.                                                           *)
(***************************************************************************)
EXTENDS MCFuzz, SequenceTheorems, WellFoundedInduction, TLAPS

----------------------------------------------------------------------------
(* The tar harnesses. *)

Opening == {"fmemopen", "stderr", "stdout"}

\* Labels at which the run is under way.
Running ==
  {"newContext", "prepareOutput", "prepareCctx", "setParameter", "inBuf", "frames", "cleanup"}

Jumped == {"restore", "output", "free", "done"}

Labels == Opening \cup Running \cup Jumped \cup {"check", "mismatch", "aborted"}

\* The stream over the input is the stdin harness's only.
InputStream == IF harness = "stdin" THEN {"mem"} ELSE {}

Streams == {"mem", "devnull", "outMem", "out"}

TarType ==
  /\ harness \in {"mmap", "stdin"}
  /\ pc \in Labels
  /\ live \subseteq Tar!Objects
  /\ context \in BOOLEAN
  /\ set \subseteq Tar!Fields
  /\ std \subseteq {"stdin", "stderr", "stdout"}
  /\ jumped \in BOOLEAN /\ unwritten \in BOOLEAN /\ twice \in BOOLEAN

\* What the harness has open, and which streams it has replaced, at a label.
StreamsOpen ==
  /\ pc = "fmemopen" => live \cap Streams = {} /\ std = {} /\ harness = "stdin"
  /\ pc = "stderr" =>
       live \cap Streams = InputStream /\ std \subseteq {"stdin"}
  /\ pc = "stdout" =>
       live \cap Streams = InputStream \cup {"devnull"} /\ std \subseteq {"stdin", "stderr"}
  /\ pc \in Running \cup {"restore"} =>
       live \cap Streams = InputStream \cup {"devnull", "outMem", "out"}
  /\ pc \in {"check", "output"} =>
       live \cap Streams = {"outMem", "out"} /\ std \subseteq {"stdout"}
  /\ pc \in {"free", "done"} => live \cap Streams = {} /\ std = {}

\* The Context and what its fields point to are what is allocated.
ContextOwns ==
  pc \notin {"done", "aborted", "mismatch"} =>
    /\ live \cap Tar!Fields = set
    /\ ("ctx" \in live) <=> context
    /\ ~context => set = {} /\ pc \notin Running \ {"newContext"}

\* Nothing of the run is there before it, nor once the harness has freed it.
NothingOwned ==
  pc \in Opening \cup {"done"} => live \cap (Tar!Fields \cup {"ctx"}) = {}

\* The buffer of compressStdinRaw() is the run's until it ends, or is left
\* behind by an error that exit() jumps out of.
BufferOwned ==
  /\ pc = "inBuf" \/ "inBuf" \in live => harness = "stdin" /\ Tar!raw
  /\ "inBuf" \in live /\ pc # "aborted" =>
       \/ pc = "frames"
       \/ pc \in Jumped /\ jumped /\ cause \in {"write", "memory"}

\* What is compressed is flushed unless exit() jumped over it.
Flushed ==
  /\ pc \in Opening \cup Running => ~jumped
  /\ pc \in {"restore", "check"} => jumped \/ ~unwritten
  /\ pc = "check" => ~jumped
  /\ pc # "mismatch"

TarInv ==
  TarType /\ ~twice /\ StreamsOpen /\ ContextOwns /\ NothingOwned /\ BufferOwned /\ Flushed

\* No step of a tar harness breaks the invariant.
LEMMA TarStep ==
  ASSUME TarInv, Tar!Next
  PROVE TarInv'
<1> USE DEF TarInv, TarType, Opening, Running, Jumped, Labels, InputStream, Streams,
   Tar!Objects, Tar!Fields, Tar!At, Tar!Goto, Tar!Keep, Tar!Free, Tar!Exit, Tar!raw
<1>1. CASE Tar!OpenStdin
  <2>1. TarType'
    BY <1>1 DEF Tar!OpenStdin, TarType
  <2>2. (~twice)'
    BY <1>1 DEF Tar!OpenStdin, StreamsOpen, ContextOwns, BufferOwned
  <2>3. StreamsOpen'
    BY <1>1 DEF Tar!OpenStdin, StreamsOpen
  <2>4. ContextOwns'
    BY <1>1 DEF Tar!OpenStdin, ContextOwns
  <2>5. NothingOwned'
    BY <1>1 DEF Tar!OpenStdin, NothingOwned, ContextOwns
  <2>6. BufferOwned'
    BY <1>1 DEF Tar!OpenStdin, BufferOwned, ContextOwns, NothingOwned, StreamsOpen
  <2>7. Flushed'
    BY <1>1 DEF Tar!OpenStdin, Flushed
  <2>8. QED
    BY <2>1, <2>2, <2>3, <2>4, <2>5, <2>6, <2>7
<1>2. CASE Tar!Silence
  <2>1. TarType'
    BY <1>2 DEF Tar!Silence, TarType
  <2>2. (~twice)'
    BY <1>2 DEF Tar!Silence, StreamsOpen, ContextOwns, BufferOwned
  <2>3. StreamsOpen'
    BY <1>2 DEF Tar!Silence, StreamsOpen
  <2>4. ContextOwns'
    BY <1>2 DEF Tar!Silence, ContextOwns
  <2>5. NothingOwned'
    BY <1>2 DEF Tar!Silence, NothingOwned, ContextOwns
  <2>6. BufferOwned'
    BY <1>2 DEF Tar!Silence, BufferOwned, ContextOwns, NothingOwned, StreamsOpen
  <2>7. Flushed'
    BY <1>2 DEF Tar!Silence, Flushed
  <2>8. QED
    BY <2>1, <2>2, <2>3, <2>4, <2>5, <2>6, <2>7
<1>3. CASE Tar!CollectOutput
  <2>1. TarType'
    BY <1>3 DEF Tar!CollectOutput, TarType
  <2>2. (~twice)'
    BY <1>3 DEF Tar!CollectOutput, StreamsOpen, ContextOwns, BufferOwned
  <2>3. StreamsOpen'
    BY <1>3 DEF Tar!CollectOutput, StreamsOpen
  <2>4. ContextOwns'
    BY <1>3 DEF Tar!CollectOutput, ContextOwns
  <2>5. NothingOwned'
    BY <1>3 DEF Tar!CollectOutput, NothingOwned, ContextOwns
  <2>6. BufferOwned'
    BY <1>3 DEF Tar!CollectOutput, BufferOwned, ContextOwns, NothingOwned, StreamsOpen
  <2>7. Flushed'
    BY <1>3 DEF Tar!CollectOutput, Flushed
  <2>8. QED
    BY <2>1, <2>2, <2>3, <2>4, <2>5, <2>6, <2>7
<1>4. CASE Tar!NewContext
  <2>1. TarType'
    BY <1>4 DEF Tar!NewContext, TarType
  <2>2. (~twice)'
    BY <1>4 DEF Tar!NewContext, StreamsOpen, ContextOwns, BufferOwned
  <2>3. StreamsOpen'
    BY <1>4 DEF Tar!NewContext, StreamsOpen
  <2>4. ContextOwns'
    <3>1. CASE Tar!Exit("memory") /\ UNCHANGED live
      BY <1>4, <3>1 DEF Tar!NewContext, ContextOwns
    <3>2. CASE live' = live \cup {"ctx"} /\ context' = TRUE /\ UNCHANGED set
      <4>1. context' /\ "ctx" \in live'
        BY <3>2
      <4>2. (live \cap Tar!Fields = set)'
        BY <1>4, <3>2 DEF Tar!NewContext, ContextOwns
      <4>3. QED
        BY <4>1, <4>2, Zenon DEF ContextOwns
    <3>3. QED
      BY <1>4, <3>1, <3>2, Zenon DEF Tar!NewContext
  <2>5. NothingOwned'
    BY <1>4 DEF Tar!NewContext, NothingOwned, ContextOwns
  <2>6. BufferOwned'
    BY <1>4 DEF Tar!NewContext, BufferOwned, ContextOwns, NothingOwned, StreamsOpen
  <2>7. Flushed'
    BY <1>4 DEF Tar!NewContext, Flushed
  <2>8. QED
    BY <2>1, <2>2, <2>3, <2>4, <2>5, <2>6, <2>7
<1>5. CASE Tar!prepareOutput
  <2>1. TarType'
    BY <1>5 DEF Tar!prepareOutput, Tar!Allocate, TarType
  <2>2. (~twice)'
    BY <1>5 DEF Tar!prepareOutput, Tar!Allocate, StreamsOpen, ContextOwns, BufferOwned
  <2>3. StreamsOpen'
    BY <1>5 DEF Tar!prepareOutput, Tar!Allocate, StreamsOpen
  <2>4. ContextOwns'
    BY <1>5 DEF Tar!prepareOutput, Tar!Allocate, ContextOwns
  <2>5. NothingOwned'
    BY <1>5 DEF Tar!prepareOutput, Tar!Allocate, NothingOwned, ContextOwns
  <2>6. BufferOwned'
    BY <1>5 DEF Tar!prepareOutput, Tar!Allocate, BufferOwned, ContextOwns, NothingOwned,
       StreamsOpen
  <2>7. Flushed'
    BY <1>5 DEF Tar!prepareOutput, Tar!Allocate, Flushed
  <2>8. QED
    BY <2>1, <2>2, <2>3, <2>4, <2>5, <2>6, <2>7
<1>6. CASE Tar!prepareCctx
  <2>1. TarType'
    BY <1>6 DEF Tar!prepareCctx, Tar!Allocate, TarType
  <2>2. (~twice)'
    BY <1>6 DEF Tar!prepareCctx, Tar!Allocate, StreamsOpen, ContextOwns, BufferOwned
  <2>3. StreamsOpen'
    BY <1>6 DEF Tar!prepareCctx, Tar!Allocate, StreamsOpen
  <2>4. ContextOwns'
    BY <1>6 DEF Tar!prepareCctx, Tar!Allocate, ContextOwns
  <2>5. NothingOwned'
    BY <1>6 DEF Tar!prepareCctx, Tar!Allocate, NothingOwned, ContextOwns
  <2>6. BufferOwned'
    BY <1>6 DEF Tar!prepareCctx, Tar!Allocate, BufferOwned, ContextOwns, NothingOwned,
       StreamsOpen
  <2>7. Flushed'
    BY <1>6 DEF Tar!prepareCctx, Tar!Allocate, Flushed
  <2>8. QED
    BY <2>1, <2>2, <2>3, <2>4, <2>5, <2>6, <2>7
<1>7. CASE Tar!setParameter
  <2>1. TarType'
    BY <1>7 DEF Tar!setParameter, TarType
  <2>2. (~twice)'
    BY <1>7 DEF Tar!setParameter, StreamsOpen, ContextOwns, BufferOwned
  <2>3. StreamsOpen'
    BY <1>7 DEF Tar!setParameter, StreamsOpen
  <2>4. ContextOwns'
    BY <1>7 DEF Tar!setParameter, ContextOwns, NothingOwned
  <2>5. NothingOwned'
    BY <1>7 DEF Tar!setParameter, NothingOwned, ContextOwns
  <2>6. BufferOwned'
    BY <1>7 DEF Tar!setParameter, BufferOwned, ContextOwns, NothingOwned, StreamsOpen
  <2>7. Flushed'
    BY <1>7 DEF Tar!setParameter, Flushed
  <2>8. QED
    BY <2>1, <2>2, <2>3, <2>4, <2>5, <2>6, <2>7
<1>8. CASE Tar!AllocateInBuf
  <2>1. TarType'
    BY <1>8 DEF Tar!AllocateInBuf, TarType
  <2>2. (~twice)'
    BY <1>8 DEF Tar!AllocateInBuf, StreamsOpen, ContextOwns, BufferOwned
  <2>3. StreamsOpen'
    BY <1>8 DEF Tar!AllocateInBuf, StreamsOpen
  <2>4. ContextOwns'
    BY <1>8 DEF Tar!AllocateInBuf, ContextOwns
  <2>5. NothingOwned'
    BY <1>8 DEF Tar!AllocateInBuf, NothingOwned, ContextOwns
  <2>6. BufferOwned'
    BY <1>8 DEF Tar!AllocateInBuf, BufferOwned, ContextOwns, NothingOwned, StreamsOpen
  <2>7. Flushed'
    BY <1>8 DEF Tar!AllocateInBuf, Flushed
  <2>8. QED
    BY <2>1, <2>2, <2>3, <2>4, <2>5, <2>6, <2>7
<1>9. CASE Tar!Frame
  <2>1. TarType'
    BY <1>9 DEF Tar!Frame, TarType
  <2>2. (~twice)'
    BY <1>9 DEF Tar!Frame, StreamsOpen, ContextOwns, BufferOwned
  <2>3. StreamsOpen'
    BY <1>9 DEF Tar!Frame, StreamsOpen
  <2>4. ContextOwns'
    BY <1>9 DEF Tar!Frame, ContextOwns
  <2>5. NothingOwned'
    BY <1>9 DEF Tar!Frame, NothingOwned, ContextOwns
  <2>6. BufferOwned'
    BY <1>9 DEF Tar!Frame, BufferOwned, ContextOwns, NothingOwned, StreamsOpen
  <2>7. Flushed'
    BY <1>9 DEF Tar!Frame, Flushed
  <2>8. QED
    BY <2>1, <2>2, <2>3, <2>4, <2>5, <2>6, <2>7
<1>10. CASE Tar!InputError
  <2>1. TarType'
    BY <1>10 DEF Tar!InputError, TarType
  <2>2. (~twice)'
    BY <1>10 DEF Tar!InputError, StreamsOpen, ContextOwns, BufferOwned
  <2>3. StreamsOpen'
    BY <1>10 DEF Tar!InputError, StreamsOpen
  <2>4. ContextOwns'
    BY <1>10 DEF Tar!InputError, ContextOwns
  <2>5. NothingOwned'
    BY <1>10 DEF Tar!InputError, NothingOwned, ContextOwns
  <2>6. BufferOwned'
    BY <1>10 DEF Tar!InputError, BufferOwned, ContextOwns, NothingOwned, StreamsOpen
  <2>7. Flushed'
    BY <1>10 DEF Tar!InputError, Flushed
  <2>8. QED
    BY <2>1, <2>2, <2>3, <2>4, <2>5, <2>6, <2>7
<1>11. CASE Tar!InputEnd
  <2>1. TarType'
    BY <1>11 DEF Tar!InputEnd, TarType
  <2>2. (~twice)'
    BY <1>11 DEF Tar!InputEnd, StreamsOpen, ContextOwns, BufferOwned
  <2>3. StreamsOpen'
    BY <1>11 DEF Tar!InputEnd, StreamsOpen
  <2>4. ContextOwns'
    BY <1>11 DEF Tar!InputEnd, ContextOwns
  <2>5. NothingOwned'
    BY <1>11 DEF Tar!InputEnd, NothingOwned, ContextOwns
  <2>6. BufferOwned'
    BY <1>11 DEF Tar!InputEnd, BufferOwned, ContextOwns, NothingOwned, StreamsOpen
  <2>7. Flushed'
    BY <1>11 DEF Tar!InputEnd, Flushed
  <2>8. QED
    BY <2>1, <2>2, <2>3, <2>4, <2>5, <2>6, <2>7
<1>12. CASE Tar!Cleanup
  <2>1. TarType'
    BY <1>12 DEF Tar!Cleanup, Tar!CleanedUp, TarType
  <2>2. (~twice)'
    BY <1>12 DEF Tar!Cleanup, Tar!CleanedUp, StreamsOpen, ContextOwns, BufferOwned
  <2>3. StreamsOpen'
    BY <1>12 DEF Tar!Cleanup, Tar!CleanedUp, StreamsOpen
  <2>4. ContextOwns'
    BY <1>12 DEF Tar!Cleanup, Tar!CleanedUp, ContextOwns
  <2>5. NothingOwned'
    BY <1>12 DEF Tar!Cleanup, Tar!CleanedUp, NothingOwned, ContextOwns
  <2>6. BufferOwned'
    BY <1>12 DEF Tar!Cleanup, Tar!CleanedUp, BufferOwned, ContextOwns, NothingOwned, StreamsOpen
  <2>7. Flushed'
    BY <1>12 DEF Tar!Cleanup, Tar!CleanedUp, Flushed
  <2>8. QED
    BY <2>1, <2>2, <2>3, <2>4, <2>5, <2>6, <2>7
<1>13. CASE Tar!Restore
  <2>1. TarType'
    BY <1>13 DEF Tar!Restore, TarType
  <2>2. (~twice)'
    BY <1>13 DEF Tar!Restore, StreamsOpen, ContextOwns, BufferOwned
  <2>3. StreamsOpen'
    BY <1>13 DEF Tar!Restore, StreamsOpen
  <2>4. ContextOwns'
    BY <1>13 DEF Tar!Restore, ContextOwns
  <2>5. NothingOwned'
    BY <1>13 DEF Tar!Restore, NothingOwned, ContextOwns
  <2>6. BufferOwned'
    BY <1>13 DEF Tar!Restore, BufferOwned, ContextOwns, NothingOwned, StreamsOpen
  <2>7. Flushed'
    BY <1>13 DEF Tar!Restore, Flushed
  <2>8. QED
    BY <2>1, <2>2, <2>3, <2>4, <2>5, <2>6, <2>7
<1>14. CASE Tar!fuzzCheckRoundTrip
  <2>1. TarType'
    BY <1>14 DEF Tar!fuzzCheckRoundTrip, TarType
  <2>2. (~twice)'
    BY <1>14 DEF Tar!fuzzCheckRoundTrip, StreamsOpen, ContextOwns, BufferOwned
  <2>3. StreamsOpen'
    BY <1>14 DEF Tar!fuzzCheckRoundTrip, StreamsOpen
  <2>4. ContextOwns'
    BY <1>14 DEF Tar!fuzzCheckRoundTrip, ContextOwns
  <2>5. NothingOwned'
    BY <1>14 DEF Tar!fuzzCheckRoundTrip, NothingOwned, ContextOwns
  <2>6. BufferOwned'
    BY <1>14 DEF Tar!fuzzCheckRoundTrip, BufferOwned, ContextOwns, NothingOwned, StreamsOpen
  <2>7. Flushed'
    BY <1>14 DEF Tar!fuzzCheckRoundTrip, Flushed
  <2>8. QED
    BY <2>1, <2>2, <2>3, <2>4, <2>5, <2>6, <2>7
<1>15. CASE Tar!RestoreOutput
  <2>1. TarType'
    BY <1>15 DEF Tar!RestoreOutput, TarType
  <2>2. (~twice)'
    BY <1>15 DEF Tar!RestoreOutput, StreamsOpen, ContextOwns, BufferOwned
  <2>3. StreamsOpen'
    BY <1>15 DEF Tar!RestoreOutput, StreamsOpen
  <2>4. ContextOwns'
    BY <1>15 DEF Tar!RestoreOutput, ContextOwns
  <2>5. NothingOwned'
    BY <1>15 DEF Tar!RestoreOutput, NothingOwned, ContextOwns
  <2>6. BufferOwned'
    BY <1>15 DEF Tar!RestoreOutput, BufferOwned, ContextOwns, NothingOwned, StreamsOpen
  <2>7. Flushed'
    BY <1>15 DEF Tar!RestoreOutput, Flushed
  <2>8. QED
    BY <2>1, <2>2, <2>3, <2>4, <2>5, <2>6, <2>7
<1>16. CASE Tar!FreeContext
  <2>1. TarType'
    BY <1>16 DEF Tar!FreeContext, TarType
  <2>2. (~twice)'
    BY <1>16 DEF Tar!FreeContext, StreamsOpen, ContextOwns, BufferOwned
  <2>3. StreamsOpen'
    BY <1>16 DEF Tar!FreeContext, StreamsOpen
  <2>4. ContextOwns'
    BY <1>16 DEF Tar!FreeContext, ContextOwns
  <2>5. NothingOwned'
    <3>1. CASE context
      BY <1>16, <3>1 DEF Tar!FreeContext, NothingOwned, ContextOwns
    <3>2. CASE ~context
      <4>1. live \cap Tar!Fields = {} /\ live' = live
        BY <1>16, <3>2 DEF Tar!FreeContext, ContextOwns
      <4>2. "ctx" \notin live
        <5>1. pc = "free" /\ (("ctx" \in live) <=> context)
          BY <1>16 DEF Tar!FreeContext, ContextOwns
        <5>2. QED
          BY <3>2, <5>1, Zenon
      <4>3. QED
        BY <4>1, <4>2 DEF NothingOwned
    <3>3. QED
      BY <3>1, <3>2
  <2>6. BufferOwned'
    BY <1>16 DEF Tar!FreeContext, BufferOwned, ContextOwns, NothingOwned, StreamsOpen
  <2>7. Flushed'
    BY <1>16 DEF Tar!FreeContext, Flushed
  <2>8. QED
    BY <2>1, <2>2, <2>3, <2>4, <2>5, <2>6, <2>7
<1>17. QED
  BY <1>1, <1>2, <1>3, <1>4, <1>5, <1>6, <1>7, <1>8, <1>9, <1>10, <1>11, <1>12, <1>13, <1>14,
     <1>15, <1>16 DEF Tar!Next

LEMMA TarStart ==
  ASSUME Tar!Init
  PROVE TarInv
BY DEF Tar!Init, TarInv, TarType, StreamsOpen, ContextOwns, NothingOwned, BufferOwned, Flushed,
   Opening, Running, Jumped, Labels, InputStream, Streams, Tar!Objects, Tar!Fields

LEMMA TarStutter ==
  ASSUME TarInv, UNCHANGED tarVars
  PROVE TarInv'
BY DEF tarVars, TarInv, TarType, StreamsOpen, ContextOwns, NothingOwned, BufferOwned, Flushed,
   Opening, Running, Jumped, Labels, InputStream, Streams, Tar!Objects, Tar!Fields, Tar!raw

LEMMA TarInvariant == MCSpec => []TarInv
<1>1. MCInit => TarInv
  BY TarStart DEF MCInit
<1>2. TarInv /\ [MCNext]_<<vars, cliVars, tarVars>> => TarInv'
  <2> SUFFICES ASSUME TarInv, [MCNext]_<<vars, cliVars, tarVars>>
               PROVE TarInv'
    OBVIOUS
  <2>1. CASE Tar!Next
    BY <2>1, TarStep
  <2>2. CASE UNCHANGED tarVars
    BY <2>2, TarStutter
  <2>3. QED
    BY <2>1, <2>2 DEF MCNext
<1>3. QED
  BY <1>1, <1>2, PTL DEF MCSpec

\* FreedOnce: for any number of blocks of the input and of frames of the run,
\* whatever of the run fails, what it allocated is freed exactly once, and only
\* the buffer of compressStdinRaw() may be left behind by an error.
THEOREM FuzzFreesOnce == MCSpec => []FreedOnce
<1>1. TarInv => FreedOnce
  <2> SUFFICES ASSUME TarInv
               PROVE Tar!FreedOnce
    BY DEF FreedOnce
  <2>1. ~twice
    BY DEF TarInv
  <2>2. ASSUME pc = "done"
        PROVE std = {} /\ live \subseteq {"inBuf"}
    <3>1. live \cap Streams = {} /\ live \cap (Tar!Fields \cup {"ctx"}) = {}
      BY <2>2 DEF TarInv, StreamsOpen, NothingOwned, Running
    <3>2. QED
      BY <2>2, <3>1 DEF TarInv, TarType, StreamsOpen, Running, Streams, Tar!Objects, Tar!Fields
  <2>3. ASSUME pc = "done", "inBuf" \in live
        PROVE cause \in {"write", "memory", "zstd"} /\ harness = "stdin" /\ Tar!raw
    BY <2>3 DEF TarInv, BufferOwned
  <2>4. QED
    BY <2>1, <2>2, <2>3 DEF Tar!FreedOnce
<1>2. QED
  BY <1>1, TarInvariant, PTL

\* OracleSeesOutput: whatever the input, fuzzCheckRoundTrip() finds the whole
\* archive in the memory of the stream, that the run has flushed by then.
THEOREM FuzzOracleSound == MCSpec => []OracleSeesOutput
<1>1. TarInv => OracleSeesOutput
  BY DEF TarInv, Flushed, OracleSeesOutput, Tar!OracleSeesOutput
<1>2. QED
  BY <1>1, TarInvariant, PTL

----------------------------------------------------------------------------
(* parseArgs() and the harness that calls it. *)

\* The words of a command line.
AWord == Seq(Token)

\* What a Context holds.
Contexts ==
  [level : Int, s : Nat, S : Nat, workers : Int, raw : BOOLEAN, noTable : BOOLEAN,
   verbose : BOOLEAN, stdin : BOOLEAN, overwrite : BOOLEAN, out : AWord, in : AWord]

\* The types of what parseArgs() and getopt() keep.
ParserType ==
  /\ line \in Seq(AWord)
  /\ optind \in 1 .. Len(line) + 1
  /\ cluster \in AWord
  /\ operands \in Seq(AWord)
  /\ ctx \in Contexts
  /\ returned \in Seq((WithArgument \cup Flags) \X AWord)

\* A set of integers with a lower bound has a least element.
LEMMA Least ==
  ASSUME NEW S \in SUBSET Int, NEW a \in Int, \A x \in S : a <= x, S # {}
  PROVE  \E x \in S : \A y \in S : x <= y
<1> DEFINE T == {n \in Nat : n + a \in S}
<1>1. T # {}
  <2>1. PICK x \in S : TRUE
    OBVIOUS
  <2>2. x - a \in T
    BY <2>1
  <2>3. QED
    BY <2>2
<1>2. PICK n \in T : \A m \in T : ~(<<m, n>> \in OpToRel(<, Nat))
  BY <1>1, NatLessThanWellFounded, WFMin
<1>3. \A m \in T : n <= m
  <2> SUFFICES ASSUME NEW m \in T, m < n
               PROVE FALSE
    OBVIOUS
  <2>1. <<m, n>> \in Nat \X Nat /\ <<m, n>>[1] = m /\ <<m, n>>[2] = n
    OBVIOUS
  <2>2. <<m, n>> \in OpToRel(<, Nat)
    BY <2>1 DEF OpToRel
  <2>3. QED
    BY <1>2, <2>2
<1>4. n + a \in S /\ \A y \in S : n + a <= y
  <2>1. \A y \in S : y - a \in T
    OBVIOUS
  <2>2. QED
    BY <1>3, <2>1
<1>5. QED
  BY <1>4

\* The search for options ends, at the next word of options or behind the last.
LEMMA NextOptionsFound ==
  ASSUME ParserType
  PROVE  /\ NextOptions \in optind .. Len(line) + 1
         /\ NextOptions <= Len(line) => IsOptions(line[NextOptions])
<1> DEFINE K == {k \in optind .. Len(line) + 1 : k = Len(line) + 1 \/ IsOptions(line[k])}
<1>1. Len(line) \in Nat /\ optind \in Int
  BY DEF ParserType
<1>2. K \subseteq Int /\ (\A k \in K : optind <= k) /\ Len(line) + 1 \in K
  BY <1>1 DEF ParserType
<1>3. PICK k \in K : \A j \in K : k <= j
  BY <1>1, <1>2, Least
<1>4. \A j \in optind .. k - 1 : ~IsOptions(line[j])
  BY <1>1, <1>3
<1>5. \E i \in optind .. Len(line) + 1 :
         /\ i = Len(line) + 1 \/ IsOptions(line[i])
         /\ \A j \in optind .. i - 1 : ~IsOptions(line[j])
  BY <1>3, <1>4
<1>6. /\ NextOptions \in optind .. Len(line) + 1
      /\ NextOptions = Len(line) + 1 \/ IsOptions(line[NextOptions])
  BY <1>5 DEF NextOptions
<1>7. QED
  BY <1>1, <1>6

\* What getopt() reads next, when there is an option to read.
LEMMA OptionRead ==
  ASSUME ParserType, ~NoMoreOptions
  PROVE  /\ Word \in AWord /\ Word # <<>>
         /\ After \in 1 .. Len(line) + 1
         /\ cluster = <<>> => Skipped \in Seq(AWord)
<1>1. /\ NextOptions \in optind .. Len(line) + 1
      /\ NextOptions <= Len(line) => IsOptions(line[NextOptions])
  BY NextOptionsFound
<1>2. Len(line) \in Nat /\ optind \in 1 .. Len(line) + 1 /\ cluster \in AWord /\ line \in Seq(AWord)
      /\ operands \in Seq(AWord)
  BY DEF ParserType
<1>3. CASE cluster # <<>>
  <2>1. Word = cluster /\ After = optind
    BY <1>3 DEF Word, After
  <2>3. QED
    BY <1>2, <1>3, <2>1
<1>4. CASE cluster = <<>>
  <2>1. NextOptions <= Len(line)
    BY <1>1, <1>2, <1>4 DEF NoMoreOptions, NextWord
  <2>2. line[NextOptions] \in AWord /\ Len(line[NextOptions]) > 1
    BY <1>1, <1>2, <2>1 DEF IsOptions
  <2>3. Word = Tail(line[NextOptions]) /\ After = NextOptions + 1
    BY <1>4, <2>1 DEF Word, After, NextWord
  <2>4. Word \in AWord /\ Word # <<>>
    <3> DEFINE w == line[NextOptions]
    <3>1. w \in Seq(Token) /\ Len(w) > 1
      BY <2>2 DEF AWord
    <3>2. w # <<>> /\ Tail(w) \in Seq(Token) /\ Len(Tail(w)) = Len(w) - 1
      BY <3>1
    <3>3. Word = Tail(w) /\ Len(Tail(w)) > 0
      BY <2>3, <3>1, <3>2
    <3>4. Word \in AWord /\ Len(Word) > 0
      BY <3>2, <3>3 DEF AWord
    <3>5. Len(<<>>) = 0
      OBVIOUS
    <3>6. QED
      BY <3>4, <3>5
  <2>6. Skipped \in Seq(AWord)
    <3>1. SubSeq(line, optind, NextOptions - 1) \in Seq(AWord)
      BY <1>1, <1>2, <2>1
    <3>2. QED
      BY <1>2, <3>1 DEF Skipped
  <2>7. After \in 1 .. Len(line) + 1
    BY <1>1, <1>2, <2>1, <2>3
  <2>8. QED
    BY <2>4, <2>6, <2>7
<1>5. QED
  BY <1>3, <1>4

\* What getopt() returns in optarg is a word.
LEMMA ArgumentRead ==
  ASSUME ParserType, ~NoMoreOptions, ~Missing
  PROVE  /\ optarg \in AWord
         /\ (Letter \in WithArgument /\ Len(Word) = 1) => After \in 1 .. Len(line)
<1>1. /\ Word \in AWord /\ Word # <<>> /\ After \in 1 .. Len(line) + 1
  BY OptionRead
<1>2. line \in Seq(AWord) /\ Len(line) \in Nat
  BY DEF ParserType
<1>3. Len(Word) \in Nat /\ Len(Word) > 0
  BY <1>1 DEF AWord
<1>4. (Letter \in WithArgument /\ Len(Word) = 1) => After \in 1 .. Len(line)
  BY <1>1, <1>2 DEF Missing
<1>5. CASE Letter \notin WithArgument
  BY <1>4, <1>5 DEF optarg, None, AWord
<1>6. CASE Letter \in WithArgument /\ Len(Word) > 1
  <2>1. Tail(Word) \in AWord
    BY <1>1, <1>6 DEF AWord
  <2>2. QED
    BY <1>4, <1>6, <2>1 DEF optarg
<1>7. CASE Letter \in WithArgument /\ Len(Word) = 1
  <2>1. line[After] \in AWord
    BY <1>2, <1>4, <1>7
  <2>2. QED
    BY <1>4, <1>7, <2>1 DEF optarg
<1>8. Len(Word) > 1 \/ Len(Word) = 1
  <2>1. \A n \in Nat : n > 0 => n > 1 \/ n = 1
    OBVIOUS
  <2>2. QED
    BY <1>3, <2>1, Zenon
<1>9. QED
  BY <1>4, <1>5, <1>6, <1>7, <1>8

\* getopt() stays inside the command line.
LEMMA GetoptTypes ==
  ASSUME ParserType, NEW letters \in SUBSET (WithArgument \cup Flags), Getopt(letters),
         ctx' \in Contexts
  PROVE  ParserType' /\ optarg \in AWord
<1>1. ~NoMoreOptions /\ ~Missing /\ Letter \in letters
  BY DEF Getopt
<1>2. /\ Word \in AWord /\ Word # <<>>
      /\ After \in 1 .. Len(line) + 1
      /\ cluster = <<>> => Skipped \in Seq(AWord)
  BY <1>1, OptionRead
<1>3. /\ optarg \in AWord
      /\ (Letter \in WithArgument /\ Len(Word) = 1) => After \in 1 .. Len(line)
  BY <1>1, ArgumentRead
<1>4. line' \in Seq(AWord)
  BY DEF ParserType, Getopt
<1>5. optind' \in 1 .. Len(line') + 1
  <2>1. line' = line /\ Len(line) \in Nat
    BY DEF ParserType, Getopt
  <2>2. CASE Letter \in WithArgument /\ Len(Word) = 1
    <3>1. optind' = After + 1
      BY <2>2 DEF Getopt
    <3>2. QED
      BY <1>3, <2>1, <2>2, <3>1
  <2>3. CASE ~(Letter \in WithArgument /\ Len(Word) = 1)
    <3>1. optind' = After
      BY <2>3 DEF Getopt
    <3>2. QED
      BY <1>2, <2>1, <3>1
  <2>4. QED
    BY <2>2, <2>3
<1>6. cluster' \in AWord
  <2>1. <<>> \in AWord /\ Tail(Word) \in AWord
    BY <1>2 DEF AWord
  <2>2. QED
    BY <2>1 DEF Getopt
<1>7. operands' \in Seq(AWord)
  BY <1>2 DEF Getopt, ParserType
<1>8. returned' \in Seq((WithArgument \cup Flags) \X AWord)
  <2>1. <<Letter, optarg>> \in (WithArgument \cup Flags) \X AWord
    BY <1>1, <1>3
  <2>2. QED
    BY <2>1 DEF Getopt, ParserType
<1>9. QED
  BY <1>3, <1>4, <1>5, <1>6, <1>7, <1>8 DEF ParserType

\* The product of parseBlockSize() does not wrap, and is what SizeMeant says.
LEMMA SizeTypes ==
  ASSUME NEW arg \in AWord, ValidSize(arg)
  PROVE  parseBlockSize(arg) \in Nat /\ parseBlockSize(arg) = SizeMeant(arg)
<1> DEFINE n == arg[1].number
           d == decodeMultiplier(endptr(arg))
<1>1. arg \in Seq(Token) /\ arg # <<>> /\ IsNumber(arg[1])
  BY DEF ValidSize, AWord
<1>2. Len(arg) \in Nat /\ Len(arg) > 0 /\ arg[1] \in Token
  BY <1>1
<1>3. arg[1] \in [number : Nat]
  <2>1. ASSUME arg[1] \in [text : STRING]
        PROVE FALSE
    <3>1. "text" \in DOMAIN arg[1]
      BY <2>1
    <3>2. QED
      BY <1>1, <3>1 DEF IsNumber
  <2>2. QED
    BY <1>2, <2>1 DEF Token
<1>4. n \in Nat /\ arg[1] \notin {Space, Minus}
  <2>1. n \in Nat
    BY <1>3
  <2>2. "text" \in DOMAIN Space /\ "text" \in DOMAIN Minus
    BY DEF Space, Minus, Text
  <2>3. "text" \notin DOMAIN arg[1]
    BY <1>1 DEF IsNumber
  <2>4. QED
    BY <2>1, <2>2, <2>3
<1>5. Lead(arg) = 0
  BY <1>4 DEF Lead
<1>6. HasDigits(arg) /\ Magnitude(arg) = n /\ endptr(arg) = SubSeq(arg, 2, Len(arg))
  <2>1. Lead(arg) + 1 = 1 /\ Lead(arg) + 2 = 2
    BY <1>5
  <2>2. HasDigits(arg)
    BY <1>1, <1>2, <1>5, <2>1 DEF HasDigits
  <2>3. QED
    BY <2>1, <2>2 DEF Magnitude, endptr
<1>7. {Kibi, Kilo} \subseteq Nat \ {0, 1} /\ SizeMax \in Nat
  BY CommandLineAssumption
<1>8. \A a, b \in Nat \ {0, 1} : a * b \in Nat \ {0, 1}
  OBVIOUS
<1>9. d \in Nat \ {0}
  <2>1. {Kibi, Kibi * Kibi, Kibi * Kibi * Kibi, Kilo, Kilo * Kilo, Kilo * Kilo * Kilo} \subseteq Nat \ {0}
    BY <1>7, <1>8
  <2>2. QED
    BY <2>1 DEF decodeMultiplier
<1>10. n * d <= SizeMax
  <2>1. n <= SizeMax \div d
    BY <1>6 DEF ValidSize
  <2>2. QED
    BY <1>4, <1>7, <1>9, <2>1
<1>11. parseBlockSize(arg) = n * d
  <2>1. n * d \in Nat
    BY <1>4, <1>9
  <2>2. \A p \in Nat : p <= SizeMax => p % (SizeMax + 1) = p
    BY <1>7
  <2>3. (n * d) % (SizeMax + 1) = n * d
    BY <1>10, <2>1, <2>2
  <2>4. QED
    BY <1>6, <2>3 DEF parseBlockSize
<1>12. SizeMeant(arg) = n * d
  <2> DEFINE rest == SubSeq(arg, 2, Len(arg))
  <2>0. /\ rest = endptr(arg) /\ rest \in Seq(Token) /\ Len(rest) = Len(arg) - 1
        /\ Len(arg) > 1 => rest[1] = arg[2]
    <3>1. rest = endptr(arg)
      BY <1>6
    <3>2. /\ rest \in Seq(Token)
          /\ Len(rest) = IF 2 <= Len(arg) THEN Len(arg) - 2 + 1 ELSE 0
          /\ \A i \in 1 .. Len(arg) - 2 + 1 : rest[i] = arg[2 + i - 1]
      BY <1>1, <1>2, SubSeqProperties
    <3>3. Len(rest) = Len(arg) - 1
      <4>1. \A m \in Nat : m > 0 => (IF 2 <= m THEN m - 2 + 1 ELSE 0) = m - 1
        OBVIOUS
      <4>2. QED
        BY <1>2, <3>2, <4>1, Zenon
    <3>4. ASSUME Len(arg) > 1 PROVE rest[1] = arg[2]
      <4>1. 1 \in 1 .. Len(arg) - 2 + 1 /\ 2 + 1 - 1 = 2
        BY <1>2, <3>4
      <4>2. rest[1] = arg[2 + 1 - 1]
        BY <3>2, <4>1
      <4>3. QED
        BY <4>1, <4>2
    <3>5. QED
      BY <3>1, <3>2, <3>3, <3>4
  <2> HIDE DEF rest
  <2>1. CASE endptr(arg) = <<>>
    <3>1. Len(arg) = 1
      <4>1. Len(rest) = 0
        BY <2>0, <2>1
      <4>2. QED
        BY <1>2, <2>0, <4>1
    <3>2. d = 1
      BY <2>1 DEF decodeMultiplier
    <3>3. QED
      BY <1>4, <3>1, <3>2 DEF SizeMeant
  <2>2. CASE endptr(arg) # <<>>
    <3>1. PICK t \in {"k", "K", "KiB", "M", "MiB", "G", "GiB", "kB", "KB", "MB", "GB"} :
            endptr(arg) = <<Text(t)>>
      BY <2>2 DEF ValidSize, decodeMultiplier
    <3>2. Len(arg) = 2 /\ arg[2] = Text(t)
      <4>1. Len(rest) = 1 /\ rest[1] = Text(t)
        BY <2>0, <3>1
      <4>2. Len(arg) = 2
        <5>1. \A m \in Nat : m - 1 = 1 => m = 2
          OBVIOUS
        <5>2. Len(arg) \in Nat /\ Len(arg) - 1 = 1
          BY <1>2, <2>0, <4>1, Zenon
        <5>3. QED
          BY <5>1, <5>2, Zenon
      <4>3. QED
        BY <2>0, <4>1, <4>2
    <3>3. arg[2].text = t
      BY <3>2 DEF Text
    <3>4. QED
      BY <3>1, <3>2, <3>3 DEF SizeMeant, decodeMultiplier, Text
  <2>3. QED
    BY <2>1, <2>2
<1>13. QED
  BY <1>4, <1>9, <1>11, <1>12

\* The last option of a kind, once another option is read.
LEMMA LastAppended ==
  ASSUME ParserType, NEW l, NEW arg, returned' = Append(returned, <<l, arg>>), NEW x
  PROVE  /\ Given(x)' <=> (x = l \/ Given(x))
         /\ x = l => LastArgument(x)' = arg
         /\ x # l /\ Given(x) => LastArgument(x)' = LastArgument(x)
<1> DEFINE I == {i \in DOMAIN returned : returned[i][1] = x}
           I2 == {i \in DOMAIN returned' : returned'[i][1] = x}
           n == Len(returned)
<1>1. /\ n \in Nat /\ DOMAIN returned = 1 .. n /\ DOMAIN returned' = 1 .. n + 1
      /\ \A i \in 1 .. n : returned'[i] = returned[i]
      /\ returned'[n + 1] = <<l, arg>>
  BY DEF ParserType
<1>2. I2 = I \cup (IF x = l THEN {n + 1} ELSE {})
  <2>1. <<l, arg>>[1] = l
    OBVIOUS
  <2>2. \A i : i \in 1 .. n + 1 <=> i \in 1 .. n \/ i = n + 1
    BY <1>1
  <2>3. QED
    BY <1>1, <2>1, <2>2
<1>3. Given(x)' <=> (x = l \/ Given(x))
  <2>1. (Given(x) <=> I # {}) /\ (Given(x)' <=> I2 # {})
    BY DEF Given
  <2>2. QED
    BY <1>2, <2>1
<1>4. ASSUME x = l
      PROVE LastArgument(x)' = arg
  <2>1. n + 1 \in I2 /\ (\A i \in I2 : n + 1 >= i) /\ I2 \subseteq Nat
    BY <1>1, <1>2, <1>4
  <2>2. Max(I2) \in I2 /\ \A i \in I2 : Max(I2) >= i
    BY <2>1 DEF Max
  <2>3. Max(I2) = n + 1
    <3>1. PICK m \in I2 : m = Max(I2) /\ m >= n + 1 /\ n + 1 >= m
      BY <2>1, <2>2
    <3>2. m = n + 1
      <4>1. \A a, b \in Nat : a >= b /\ b >= a => a = b
        OBVIOUS
      <4>2. m \in Nat /\ n + 1 \in Nat
        BY <1>1, <2>1
      <4>3. QED
        BY <3>1, <4>1, <4>2, Zenon
    <3>3. QED
      BY <3>1, <3>2
  <2>4. LastArgument(x)' = returned'[Max(I2)][2]
    BY DEF LastArgument
  <2>5. LastArgument(x)' = <<l, arg>>[2]
    BY <1>1, <2>3, <2>4
  <2>6. QED
    BY <2>5
<1>5. ASSUME x # l, Given(x)
      PROVE LastArgument(x)' = LastArgument(x)
  <2>1. I2 = I /\ I # {} /\ I \subseteq 1 .. n
    BY <1>1, <1>2, <1>5 DEF Given
  <2>2. Max(I) \in I
    <3> DEFINE J == {n - i : i \in I}
    <3>1. J \subseteq Int /\ J # {} /\ \A j \in J : 0 <= j
      BY <1>1, <2>1
    <3> HIDE DEF J
    <3>2. PICK j \in J : \A k \in J : j <= k
      <4>1. J \in SUBSET Int /\ 0 \in Int /\ (\A j \in J : 0 <= j) /\ J # {}
        BY <3>1
      <4>2. QED
        BY <4>1, Least, Zenon
    <3> USE DEF J
    <3>3. PICK i \in I : j = n - i
      BY <3>2
    <3>4. ASSUME NEW k \in I
          PROVE i >= k
      <4>1. n - k \in J /\ n - i <= n - k
        BY <3>2, <3>3
      <4>2. QED
        BY <1>1, <2>1, <4>1
    <3>5. QED
      BY <3>4 DEF Max
  <2>3. LastArgument(x)' = returned'[Max(I2)][2] /\ LastArgument(x) = returned[Max(I)][2]
    BY DEF LastArgument
  <2>4. QED
    BY <1>1, <2>1, <2>2, <2>3
<1>6. QED
  BY <1>3, <1>4, <1>5

\* What the Context holds so far is what the options so far say.
TakenSoFar ==
  /\ ctx.s = (IF Given("s") THEN SizeMeant(LastArgument("s")) ELSE 0)
  /\ ctx.S = (IF Given("S") THEN SizeMeant(LastArgument("S")) ELSE 0)
  /\ Given("l") => ctx.level = Magnitude(LastArgument("l"))
  /\ Given("r") => ctx.raw

\* The invariant of parseArgs().
ParserInv ==
  /\ ParserType
  /\ status \in {"parsing", "accepted"} => TakenSoFar
  /\ status = "accepted" => SizesOrdered

\* strtol() and strtoull() read a number.
LEMMA MagnitudeNat ==
  ASSUME NEW arg \in AWord
  PROVE  Magnitude(arg) \in Nat
<1>1. CASE ~HasDigits(arg)
  BY <1>1 DEF Magnitude
<1>2. CASE HasDigits(arg)
  <2> DEFINE t == arg[Lead(arg) + 1]
  <2>1. Lead(arg) + 1 \in 1 .. Len(arg)
    BY <1>2 DEF HasDigits, Lead, AWord
  <2>2. t \in Token /\ IsNumber(t)
    BY <1>2, <2>1 DEF HasDigits, AWord
  <2>3. t \notin [text : STRING]
    <3>1. ASSUME t \in [text : STRING]
          PROVE "text" \in DOMAIN t
      BY <3>1
    <3>2. QED
      BY <2>2, <3>1 DEF IsNumber
  <2>4. t.number \in Nat
    BY <2>2, <2>3 DEF Token
  <2>5. QED
    BY <1>2, <2>4 DEF Magnitude
<1>3. QED
  BY <1>1, <1>2

\* An option whose argument is refused, or that ends the process.
LEMMA LeftInv ==
  ASSUME ParserInv, NEW letters \in SUBSET (WithArgument \cup Flags), Getopt(letters),
         NEW how \in {"refused", "told"}, Leave(how)
  PROVE  ParserInv'
<1>1. ctx' \in Contexts /\ status' \notin {"parsing", "accepted"}
  BY DEF Leave, ParserInv, ParserType
<1>2. ParserType'
  BY <1>1, GetoptTypes DEF ParserInv
<1>3. QED
  BY <1>1, <1>2 DEF ParserInv

\* An option that is taken: the Context has to follow what it says.
LEMMA TakenInv ==
  ASSUME ParserInv, NEW letters \in SUBSET (WithArgument \cup Flags), Getopt(letters),
         NEW new \in Contexts, Take(new),
         new.s = IF Letter = "s" THEN SizeMeant(optarg) ELSE ctx.s,
         new.S = IF Letter = "S" THEN SizeMeant(optarg) ELSE ctx.S,
         new.level = IF Letter = "l" THEN Magnitude(optarg) ELSE ctx.level,
         ctx.raw \/ Letter = "r" => new.raw
  PROVE  ParserInv'
<1>1. ctx' = new /\ status' = "parsing" /\ status = "parsing"
  BY DEF Take, Getopt
<1>2. ParserType' /\ ParserType
  BY <1>1, GetoptTypes DEF ParserInv
<1>3. \A x : /\ Given(x)' <=> (x = Letter \/ Given(x))
             /\ x = Letter => LastArgument(x)' = optarg
             /\ x # Letter /\ Given(x) => LastArgument(x)' = LastArgument(x)
  BY <1>2, LastAppended DEF Getopt
<1>4. TakenSoFar
  BY <1>1 DEF ParserInv
<1>5. ctx'.s = IF Given("s")' THEN SizeMeant(LastArgument("s")') ELSE 0
  BY <1>1, <1>3, <1>4 DEF TakenSoFar
<1>6. ctx'.S = IF Given("S")' THEN SizeMeant(LastArgument("S")') ELSE 0
  BY <1>1, <1>3, <1>4 DEF TakenSoFar
<1>7. Given("l")' => ctx'.level = Magnitude(LastArgument("l")')
  BY <1>1, <1>3, <1>4 DEF TakenSoFar
<1>8. Given("r")' => ctx'.raw
  BY <1>1, <1>3, <1>4 DEF TakenSoFar
<1>9. TakenSoFar'
  BY <1>5, <1>6, <1>7, <1>8 DEF TakenSoFar
<1>10. QED
  BY <1>1, <1>2, <1>9 DEF ParserInv

\* No option breaks the invariant.
LEMMA OptionInv ==
  ASSUME ParserInv,
         Level \/ Threads \/ Output \/ MinBlockSize \/ MaxBlockSize \/ Flag \/ Tell
  PROVE  ParserInv'
<1> USE DEF WithArgument, Flags
<1>1. ctx \in Contexts /\ ParserType
  BY DEF ParserInv, ParserType
<1>2. ASSUME NEW letters \in SUBSET (WithArgument \cup Flags), Getopt(letters)
      PROVE Letter \in letters /\ optarg \in AWord /\ Magnitude(optarg) \in Nat
  <2>1. optarg \in AWord /\ Letter \in letters
    BY <1>1, <1>2, ArgumentRead DEF Getopt
  <2>2. QED
    BY <2>1, MagnitudeNat
<1>3. MaxLevel \in Nat /\ U32Max \in Nat
  BY CommandLineAssumption
<1>4. CASE Level
  <2>1. Getopt({"l"}) /\ Letter = "l" /\ optarg \in AWord /\ Magnitude(optarg) \in Nat
    BY <1>2, <1>4 DEF Level
  <2>2. CASE WholeNumber(optarg) /\ strtol(optarg) \in 1 .. MaxLevel
    <3> DEFINE new == [ctx EXCEPT !.level = strtol(optarg)]
    <3>1. strtol(optarg) = Magnitude(optarg)
      BY <1>3, <2>1, <2>2 DEF strtol
    <3>2. Take(new)
      BY <1>4, <2>2 DEF Level
    <3>3. new \in Contexts /\ new.s = ctx.s /\ new.S = ctx.S /\ new.level = Magnitude(optarg)
          /\ new.raw = ctx.raw
      BY <1>1, <2>1, <3>1 DEF Contexts
    <3>4. QED
      BY <2>1, <3>2, <3>3, TakenInv
  <2>3. CASE ~(WholeNumber(optarg) /\ strtol(optarg) \in 1 .. MaxLevel)
    <3>1. Leave("refused")
      BY <1>4, <2>3 DEF Level
    <3>2. QED
      BY <2>1, <3>1, LeftInv
  <2>4. QED
    BY <2>2, <2>3
<1>5. CASE Threads
  <2>1. Getopt({"T"}) /\ Letter = "T" /\ optarg \in AWord /\ Magnitude(optarg) \in Nat
    BY <1>2, <1>5 DEF Threads
  <2>2. CASE WholeNumber(optarg) /\ strtol(optarg) \in 1 .. U32Max
    <3> DEFINE new == [ctx EXCEPT !.workers = strtol(optarg)]
    <3>1. strtol(optarg) \in Int
      BY <1>3, <2>2
    <3>2. Take(new)
      BY <1>5, <2>2 DEF Threads
    <3>3. new \in Contexts /\ new.s = ctx.s /\ new.S = ctx.S /\ new.level = ctx.level
          /\ new.raw = ctx.raw
      BY <1>1, <3>1 DEF Contexts
    <3>4. QED
      BY <2>1, <3>2, <3>3, TakenInv
  <2>3. CASE ~(WholeNumber(optarg) /\ strtol(optarg) \in 1 .. U32Max)
    <3>1. Leave("refused")
      BY <1>5, <2>3 DEF Threads
    <3>2. QED
      BY <2>1, <3>1, LeftInv
  <2>4. QED
    BY <2>2, <2>3
<1>6. CASE Output
  <2> DEFINE new == [ctx EXCEPT !.out = optarg]
  <2>1. Getopt({"o"}) /\ Letter = "o" /\ optarg \in AWord /\ Take(new)
    BY <1>2, <1>6 DEF Output
  <2>2. new \in Contexts /\ new.s = ctx.s /\ new.S = ctx.S /\ new.level = ctx.level
        /\ new.raw = ctx.raw
    BY <1>1, <2>1 DEF Contexts
  <2>3. QED
    BY <2>1, <2>2, TakenInv
<1>7. CASE MinBlockSize
  <2>1. Getopt({"s"}) /\ Letter = "s" /\ optarg \in AWord
    BY <1>2, <1>7 DEF MinBlockSize
  <2>2. CASE ValidSize(optarg)
    <3> DEFINE new == [ctx EXCEPT !.s = parseBlockSize(optarg)]
    <3>1. parseBlockSize(optarg) \in Nat /\ parseBlockSize(optarg) = SizeMeant(optarg)
      BY <2>1, <2>2, SizeTypes
    <3>2. Take(new)
      BY <1>7, <2>2 DEF MinBlockSize
    <3>3. new \in Contexts /\ new.s = SizeMeant(optarg) /\ new.S = ctx.S /\ new.level = ctx.level
          /\ new.raw = ctx.raw
      BY <1>1, <3>1 DEF Contexts
    <3>4. QED
      BY <2>1, <3>2, <3>3, TakenInv
  <2>3. CASE ~ValidSize(optarg)
    <3>1. Leave("refused")
      BY <1>7, <2>3 DEF MinBlockSize
    <3>2. QED
      BY <2>1, <3>1, LeftInv
  <2>4. QED
    BY <2>2, <2>3
<1>8. CASE MaxBlockSize
  <2>1. Getopt({"S"}) /\ Letter = "S" /\ optarg \in AWord
    BY <1>2, <1>8 DEF MaxBlockSize
  <2>2. CASE ValidSize(optarg)
    <3> DEFINE new == [ctx EXCEPT !.S = parseBlockSize(optarg)]
    <3>1. parseBlockSize(optarg) \in Nat /\ parseBlockSize(optarg) = SizeMeant(optarg)
      BY <2>1, <2>2, SizeTypes
    <3>2. Take(new)
      BY <1>8, <2>2 DEF MaxBlockSize
    <3>3. new \in Contexts /\ new.s = ctx.s /\ new.S = SizeMeant(optarg) /\ new.level = ctx.level
          /\ new.raw = ctx.raw
      BY <1>1, <3>1 DEF Contexts
    <3>4. QED
      BY <2>1, <3>2, <3>3, TakenInv
  <2>3. CASE ~ValidSize(optarg)
    <3>1. Leave("refused")
      BY <1>8, <2>3 DEF MaxBlockSize
    <3>2. QED
      BY <2>1, <3>1, LeftInv
  <2>4. QED
    BY <2>2, <2>3
<1>9. CASE Flag
  <2> DEFINE letters == {"r", "j", "v", "f"}
             new == [ctx EXCEPT !.raw = @ \/ Letter = "r", !.noTable = @ \/ Letter = "j",
                                !.verbose = @ \/ Letter = "v", !.overwrite = @ \/ Letter = "f"]
  <2>1. Getopt(letters) /\ Letter \in letters /\ Take(new)
    BY <1>2, <1>9 DEF Flag
  <2>2. new \in Contexts /\ new.s = ctx.s /\ new.S = ctx.S /\ new.level = ctx.level
        /\ new.raw = (ctx.raw \/ Letter = "r")
    BY <1>1 DEF Contexts
  <2>3. QED
    BY <2>1, <2>2, TakenInv
<1>10. CASE Tell
  BY <1>10, LeftInv DEF Tell
<1>11. QED
  BY <1>4, <1>5, <1>6, <1>7, <1>8, <1>9, <1>10

\* Nor does one that is none.
LEMMA UnknownInv ==
  ASSUME ParserInv, Unknown
  PROVE  ParserInv'
<1>1. /\ ~NoMoreOptions /\ status' = "refused" /\ UNCHANGED <<line, ctx, returned>>
      /\ operands' = IF cluster # <<>> THEN operands ELSE Skipped
      /\ cluster' = Tail(Word) /\ optind' = After
  BY DEF Unknown, Leave
<1>2. /\ Word \in AWord /\ Word # <<>>
      /\ After \in 1 .. Len(line) + 1
      /\ cluster = <<>> => Skipped \in Seq(AWord)
  BY <1>1, OptionRead DEF ParserInv
<1>3. Tail(Word) \in AWord
  BY <1>2 DEF AWord
<1>4. ParserType'
  BY <1>1, <1>2, <1>3 DEF ParserType, ParserInv
<1>5. QED
  BY <1>1, <1>4 DEF ParserInv

\* What is left for the operands is made of words.
LEMMA RemainingTypes ==
  ASSUME ParserType
  PROVE  Remaining \in Seq(AWord)
<1>1. /\ line \in Seq(AWord) /\ operands \in Seq(AWord) /\ optind \in 1 .. Len(line) + 1
      /\ Len(line) \in Nat /\ NextOptions \in optind .. Len(line) + 1
  BY NextOptionsFound DEF ParserType
<1>2. /\ SubSeq(line, optind, NextOptions - 1) \in Seq(AWord)
      /\ SubSeq(line, NextOptions + 1, Len(line)) \in Seq(AWord)
      /\ SubSeq(line, optind, Len(line)) \in Seq(AWord)
  <2>1. \A i \in 1 .. Len(line) : line[i] \in AWord
    BY <1>1
  <2>2. /\ \A i \in optind .. NextOptions - 1 : line[i] \in AWord
        /\ \A i \in NextOptions + 1 .. Len(line) : line[i] \in AWord
        /\ \A i \in optind .. Len(line) : line[i] \in AWord
    BY <1>1, <2>1
  <2>3. optind \in Int /\ NextOptions - 1 \in Int /\ NextOptions + 1 \in Int /\ Len(line) \in Int
    BY <1>1
  <2>4. QED
    BY <2>2, <2>3, SubSeqProperties
<1>3. Skipped \in Seq(AWord)
  BY <1>1, <1>2 DEF Skipped
<1>4. QED
  BY <1>1, <1>2, <1>3 DEF Remaining

\* The last checks of parseArgs().
LEMMA AcceptInv ==
  ASSUME ParserInv, Accept
  PROVE  ParserInv'
<1> DEFINE in == Remaining[1]
           new == [ctx EXCEPT !.in = in, !.stdin = (in = <<Minus>>),
                              !.raw = @ \/ (in # <<Minus>> /\ ~IsTarName(in))]
<1>1. /\ status = "parsing" /\ Len(Remaining) = 1 /\ SizesOrdered
      /\ ctx' = new /\ UNCHANGED <<line, getoptState, returned>>
  BY DEF Accept, AtEnd
<1>2. ParserType /\ ctx \in Contexts /\ TakenSoFar
  BY <1>1 DEF ParserInv, ParserType
<1>3. in \in AWord
  <2>1. \A s \in Seq(AWord) : Len(s) = 1 => s[1] \in AWord
    OBVIOUS
  <2>2. QED
    BY <1>1, <1>2, <2>1, RemainingTypes, Zenon
<1> HIDE DEF in
<1>4. /\ new \in Contexts /\ new.s = ctx.s /\ new.S = ctx.S /\ new.level = ctx.level
      /\ ctx.raw => new.raw
  BY <1>2, <1>3 DEF Contexts
<1> HIDE DEF new
<1>5. ParserType'
  BY <1>1, <1>2, <1>4 DEF ParserType, getoptState
<1>6. TakenSoFar' /\ SizesOrdered'
  BY <1>1, <1>2, <1>4 DEF TakenSoFar, SizesOrdered, Given, LastArgument
<1>7. QED
  BY <1>5, <1>6 DEF ParserInv

LEMMA NextInv ==
  ASSUME ParserInv, Next
  PROVE  ParserInv'
<1>1. CASE Unknown
  BY <1>1, UnknownInv
<1>2. CASE BadCount \/ BadSizes
  BY <1>2 DEF BadCount, BadSizes, Leave, ParserInv, ParserType, getoptState
<1>3. CASE Accept
  BY <1>3, AcceptInv
<1>4. QED
  BY <1>1, <1>2, <1>3, OptionInv DEF Next

\* The inputs of the harness are sequences of bytes.
Inputs == Seq([strings : Seq(AWord), ended : BOOLEAN])

\* The invariant of the harness.
CliInv ==
  /\ inputs \in Inputs /\ turn \in Nat
  /\ ParserInv

\* The harness has called nothing yet.
LEMMA StartInv ==
  ASSUME NEW batches \in SUBSET Inputs, CliStart(batches)
  PROVE  CliInv
<1>1. line = <<>> /\ cluster = <<>> /\ operands = <<>> /\ returned = <<>> /\ optind = 1
      /\ ctx = newContext /\ status = "idle" /\ inputs \in Inputs /\ turn = 0
  BY DEF CliStart, Start
<1>2. newContext \in Contexts
  BY DEF newContext, Contexts, None, AWord
<1>3. ParserType
  BY <1>1, <1>2 DEF ParserType, AWord
<1>4. QED
  BY <1>1, <1>3 DEF CliInv, ParserInv, Inputs

\* Each call starts on a new Context and at the first word.
LEMMA SplitInv ==
  ASSUME CliInv, Split
  PROVE  CliInv'
<1>1. /\ turn < Len(inputs) /\ line' = SubSeq(input.strings, 1, argc - 1)
      /\ optind' = 1 /\ operands' = <<>> /\ cluster' = <<>>
      /\ ctx' = newContext /\ returned' = <<>> /\ status' = "parsing" /\ UNCHANGED <<inputs, turn>>
  BY DEF Split, ResetGetopt, cliVars
<1>2. input \in [strings : Seq(AWord), ended : BOOLEAN]
  <2>1. inputs \in Inputs /\ turn + 1 \in 1 .. Len(inputs)
    BY <1>1 DEF CliInv, Inputs
  <2>2. \A S : \A s \in Seq(S) : \A i \in 1 .. Len(s) : s[i] \in S
    OBVIOUS
  <2>3. QED
    BY <2>1, <2>2, Zenon DEF Inputs, input
<1>3. input.strings \in Seq(AWord) /\ argc - 1 \in Int /\ argc - 1 <= Len(input.strings)
  BY <1>2 DEF argc
<1>4. line' \in Seq(AWord)
  BY <1>1, <1>3, SubSeqProperties
<1>5. newContext \in Contexts
  BY DEF newContext, Contexts, None, AWord
<1>6. ParserType'
  BY <1>1, <1>4, <1>5 DEF ParserType, AWord
<1>7. TakenSoFar'
  BY <1>1 DEF TakenSoFar, Given, newContext
<1>8. QED
  BY <1>1, <1>6, <1>7 DEF CliInv, ParserInv

\* No step of the harness breaks the invariant.
LEMMA CliStep ==
  ASSUME CliInv, CliNext
  PROVE  CliInv'
<1>1. CASE Split
  BY <1>1, SplitInv
<1>2. CASE TooMany
  BY <1>2 DEF TooMany, CliInv, ParserInv, ParserType, vars, getoptState, Inputs, TakenSoFar,
     Given, LastArgument, SizesOrdered
<1>3. CASE Parse
  BY <1>3, NextInv DEF Parse, CliInv, cliVars
<1>4. CASE Return
  BY <1>4 DEF Return, CliInv, ParserInv, ParserType, getoptState, Inputs
<1>5. QED
  BY <1>1, <1>2, <1>3, <1>4 DEF CliNext

LEMMA CliStutter ==
  ASSUME CliInv, UNCHANGED <<vars, cliVars>>
  PROVE  CliInv'
BY DEF CliInv, ParserInv, ParserType, vars, getoptState, cliVars, TakenSoFar, Given,
   LastArgument, SizesOrdered

LEMMA CliInvariant == CliSpec => []CliInv
<1>1. CliStart(Batches) => CliInv
  <2>1. Batches \in SUBSET Inputs
    BY FuzzCliAssumption DEF Inputs, AWord
  <2>2. QED
    BY <2>1, StartInv
<1>2. CliInv /\ [CliNext]_<<vars, cliVars>> => CliInv'
  BY CliStep, CliStutter
<1>3. QED
  BY <1>1, <1>2, PTL DEF CliSpec

LEMMA BesideInvariant == MCSpec => []CliInv
<1>1. MCInit => CliInv
  <2>1. Batches \in SUBSET Inputs
    BY FuzzCliAssumption DEF Inputs, AWord
  <2>2. {<<>>} \in SUBSET Inputs
    <3>1. <<>> \in Inputs
      BY DEF Inputs
    <3>2. QED
      BY <3>1
  <2>3. QED
    BY <2>1, <2>2, StartInv DEF MCInit
<1>2. CliInv /\ [MCNext]_<<vars, cliVars, tarVars>> => CliInv'
  BY CliStep, CliStutter DEF MCNext
<1>3. QED
  BY <1>1, <1>2, PTL DEF MCSpec

LEMMA TakenFollows == CliInv => TakenAsMeant
<1> SUFFICES ASSUME CliInv, status = "accepted"
             PROVE  /\ TakenSoFar
                    /\ ctx.S = 0 \/ ctx.s <= ctx.S
  BY DEF TakenAsMeant, TakenSoFar
<1>1. TakenSoFar /\ SizesOrdered /\ ctx.s \in Nat /\ ctx.S \in Nat
  BY DEF CliInv, ParserInv, ParserType, Contexts
<1>2. QED
  BY <1>1 DEF SizesOrdered

\* TakenAsMeant: whatever the command line, of any length and with any numbers,
\* and whatever was parsed before, parseArgs() accepts only the sizes and the
\* level that the last option of each kind says; no product wraps.
THEOREM ParserTakesMeaning == CliSpec => []TakenAsMeant
<1> QED
  BY CliInvariant, TakenFollows, PTL

\* TakenAsMeant again, of the specification that the runs check.
THEOREM FuzzTakesMeaning == MCSpec => []TakenAsMeant
<1> QED
  BY BesideInvariant, TakenFollows, PTL

----------------------------------------------------------------------------
(* An input is parsed the same way whatever came before.  parseArgs() is   *)
(* the repetition of a function of its state, so two runs of it from equal *)
(* states end in equal states; and each input starts it in a state that is *)
(* its own.  The operators below are getopt() and the switch as functions  *)
(* of the values of the variables: l the line, o optind, c cluster, p      *)
(* operands.                                                               *)

NextOf(l, o) ==
  CHOOSE k \in o .. Len(l) + 1 :
    /\ k = Len(l) + 1 \/ IsOptions(l[k])
    /\ \A j \in o .. k - 1 : ~IsOptions(l[j])

SkippedOf(l, o, p) == p \o SubSeq(l, o, NextOf(l, o) - 1)

NextWordOf(l, o) == IF NextOf(l, o) <= Len(l) THEN l[NextOf(l, o)] ELSE None

MarkerOf(l, o) == NextWordOf(l, o) = <<Minus, Minus>> /\ (Permute \/ NextOf(l, o) = o)

EndOf(l, o, c) ==
  c = <<>> /\ (NextWordOf(l, o) = None \/ MarkerOf(l, o) \/ (~Permute /\ NextOf(l, o) > o))

RestOf(l, o, p) ==
  IF MarkerOf(l, o)
  THEN SkippedOf(l, o, p) \o SubSeq(l, NextOf(l, o) + 1, Len(l))
  ELSE p \o SubSeq(l, o, Len(l))

WordOf(l, o, c) == IF c # <<>> THEN c ELSE Tail(NextWordOf(l, o))

AfterOf(l, o, c) == IF c # <<>> THEN o ELSE NextOf(l, o) + 1

LetterOf(l, o, c) == IF IsNumber(WordOf(l, o, c)[1]) THEN "number" ELSE WordOf(l, o, c)[1].text

MissingOf(l, o, c) ==
  LetterOf(l, o, c) \in WithArgument /\ Len(WordOf(l, o, c)) = 1 /\ AfterOf(l, o, c) > Len(l)

OptargOf(l, o, c) ==
  IF LetterOf(l, o, c) \notin WithArgument THEN None
  ELSE IF Len(WordOf(l, o, c)) > 1 THEN Tail(WordOf(l, o, c)) ELSE l[AfterOf(l, o, c)]

\* The operators of the model are these functions of the variables.
LEMMA GetoptFunctions ==
  /\ NextOptions = NextOf(line, optind)
  /\ Skipped = SkippedOf(line, optind, operands)
  /\ NextWord = NextWordOf(line, optind)
  /\ AtMarker <=> MarkerOf(line, optind)
  /\ NoMoreOptions <=> EndOf(line, optind, cluster)
  /\ Remaining = RestOf(line, optind, operands)
  /\ Word = WordOf(line, optind, cluster)
  /\ After = AfterOf(line, optind, cluster)
  /\ Letter = LetterOf(line, optind, cluster)
  /\ Missing <=> MissingOf(line, optind, cluster)
  /\ optarg = OptargOf(line, optind, cluster)
<1>1. NextOptions = NextOf(line, optind)
  BY DEF NextOptions, NextOf
<1>2. Skipped = SkippedOf(line, optind, operands)
  BY <1>1, Zenon DEF Skipped, SkippedOf
<1>3. NextWord = NextWordOf(line, optind)
  BY <1>1, Zenon DEF NextWord, NextWordOf
<1>4. AtMarker <=> MarkerOf(line, optind)
  BY <1>1, <1>3, Zenon DEF AtMarker, MarkerOf
<1>5. NoMoreOptions <=> EndOf(line, optind, cluster)
  BY <1>1, <1>3, <1>4, Zenon DEF NoMoreOptions, EndOf
<1>6. Remaining = RestOf(line, optind, operands)
  BY <1>1, <1>2, <1>4, Zenon DEF Remaining, RestOf
<1>7. Word = WordOf(line, optind, cluster)
  BY <1>3, Zenon DEF Word, WordOf
<1>8. After = AfterOf(line, optind, cluster)
  BY <1>1, Zenon DEF After, AfterOf
<1>9. Letter = LetterOf(line, optind, cluster)
  BY <1>7, Zenon DEF Letter, LetterOf
<1>10. Missing <=> MissingOf(line, optind, cluster)
  BY <1>7, <1>8, <1>9, Zenon DEF Missing, MissingOf
<1>11. optarg = OptargOf(line, optind, cluster)
  BY <1>7, <1>8, <1>9, Zenon DEF optarg, OptargOf
<1> QED
  BY <1>1, <1>2, <1>3, <1>4, <1>5, <1>6, <1>7, <1>8, <1>9, <1>10, <1>11

\* What the switch makes of an option: the Context `x' after it.
ContextAfter(x, letter, arg) ==
  IF letter = "l" THEN
    IF WholeNumber(arg) /\ strtol(arg) \in 1 .. MaxLevel THEN [x EXCEPT !.level = strtol(arg)] ELSE x
  ELSE IF letter = "T" THEN
    IF WholeNumber(arg) /\ strtol(arg) \in 1 .. U32Max THEN [x EXCEPT !.workers = strtol(arg)] ELSE x
  ELSE IF letter = "o" THEN [x EXCEPT !.out = arg]
  ELSE IF letter = "s" THEN
    IF ValidSize(arg) THEN [x EXCEPT !.s = parseBlockSize(arg)] ELSE x
  ELSE IF letter = "S" THEN
    IF ValidSize(arg) THEN [x EXCEPT !.S = parseBlockSize(arg)] ELSE x
  ELSE IF letter \in {"r", "j", "v", "f"} THEN
    [x EXCEPT !.raw = @ \/ letter = "r", !.noTable = @ \/ letter = "j",
              !.verbose = @ \/ letter = "v", !.overwrite = @ \/ letter = "f"]
  ELSE x

\* And whether it goes on.
StatusAfter(letter, arg) ==
  IF letter = "l" THEN
    IF WholeNumber(arg) /\ strtol(arg) \in 1 .. MaxLevel THEN "parsing" ELSE "refused"
  ELSE IF letter = "T" THEN
    IF WholeNumber(arg) /\ strtol(arg) \in 1 .. U32Max THEN "parsing" ELSE "refused"
  ELSE IF letter \in {"s", "S"} THEN
    IF ValidSize(arg) THEN "parsing" ELSE "refused"
  ELSE IF letter \in {"V", "h"} THEN "told"
  ELSE "parsing"

\* The state of parseArgs().
State(l, o, c, p, x, how) ==
  [line |-> l, optind |-> o, cluster |-> c, operands |-> p, ctx |-> x, status |-> how]

\* The state after getopt() returned, or after the checks that follow the loop.
StepOf(l, o, c, p, x) ==
  LET letter == LetterOf(l, o, c)
      arg    == OptargOf(l, o, c)
      rest   == RestOf(l, o, p)
      skip   == IF c # <<>> THEN p ELSE SkippedOf(l, o, p)
  IN  IF EndOf(l, o, c) THEN
        IF Len(rest) # 1 THEN State(l, o, c, p, x, "refused")
        ELSE IF ~(x.S = 0 \/ x.S >= x.s) THEN State(l, o, c, p, x, "sizes refused")
        ELSE State(l, o, c, p,
                   [x EXCEPT !.in = rest[1], !.stdin = (rest[1] = <<Minus>>),
                             !.raw = @ \/ (rest[1] # <<Minus>> /\ ~IsTarName(rest[1]))],
                   "accepted")
      ELSE IF letter \notin WithArgument \cup Flags \/ MissingOf(l, o, c) THEN
        State(l, AfterOf(l, o, c), Tail(WordOf(l, o, c)), skip, x, "refused")
      ELSE
        State(l,
              IF letter \in WithArgument /\ Len(WordOf(l, o, c)) = 1
              THEN AfterOf(l, o, c) + 1 ELSE AfterOf(l, o, c),
              IF letter \in WithArgument THEN <<>> ELSE Tail(WordOf(l, o, c)),
              skip, ContextAfter(x, letter, arg), StatusAfter(letter, arg))

\* The state of parseArgs() now.
Now == State(line, optind, cluster, operands, ctx, status)

\* Every step of parseArgs() is that function.
LEMMA StepIsFunction ==
  ASSUME Next
  PROVE  status = "parsing" /\ Now' = StepOf(line, optind, cluster, operands, ctx)
<1> DEFINE letter == LetterOf(line, optind, cluster)
           arg == OptargOf(line, optind, cluster)
           rest == RestOf(line, optind, operands)
           skip == IF cluster # <<>> THEN operands ELSE SkippedOf(line, optind, operands)
<1>0. /\ NoMoreOptions <=> EndOf(line, optind, cluster)
      /\ Skipped = SkippedOf(line, optind, operands)
      /\ Word = WordOf(line, optind, cluster) /\ After = AfterOf(line, optind, cluster)
      /\ Letter = letter /\ optarg = arg /\ Remaining = rest
      /\ Missing <=> MissingOf(line, optind, cluster)
  BY GetoptFunctions
<1>1. ASSUME NEW letters, letters \subseteq WithArgument \cup Flags, Getopt(letters),
             ctx' = ContextAfter(ctx, letter, arg), status' = StatusAfter(letter, arg)
      PROVE  status = "parsing" /\ Now' = StepOf(line, optind, cluster, operands, ctx)
  <2>1. /\ status = "parsing" /\ ~EndOf(line, optind, cluster)
        /\ ~(letter \notin WithArgument \cup Flags \/ MissingOf(line, optind, cluster))
        /\ line' = line /\ operands' = skip
        /\ cluster' = IF letter \in WithArgument THEN <<>> ELSE Tail(WordOf(line, optind, cluster))
        /\ optind' = IF letter \in WithArgument /\ Len(WordOf(line, optind, cluster)) = 1
                     THEN AfterOf(line, optind, cluster) + 1
                     ELSE AfterOf(line, optind, cluster)
    BY <1>0, <1>1, Zenon DEF Getopt
  <2>2. Now' = State(line', optind', cluster', operands', ctx', status')
    BY DEF Now
  <2> QED
    BY <1>1, <2>1, <2>2, Zenon DEF StepOf
<1>2. CASE Level
  <2>1. Getopt({"l"}) /\ letter = "l"
    BY <1>0, <1>2 DEF Level, Getopt
  <2>2. ctx' = ContextAfter(ctx, letter, arg) /\ status' = StatusAfter(letter, arg)
    <3>1. status = "parsing"
      BY <2>1 DEF Getopt
    <3> HIDE DEF letter, arg
    <3> QED
      BY <1>0, <1>2, <2>1, <3>1, Zenon DEF Level, Take, Leave, ContextAfter, StatusAfter
  <2> QED
    BY <1>1, <2>1, <2>2 DEF WithArgument
<1>3. CASE Threads
  <2>1. Getopt({"T"}) /\ letter = "T"
    BY <1>0, <1>3 DEF Threads, Getopt
  <2>2. ctx' = ContextAfter(ctx, letter, arg) /\ status' = StatusAfter(letter, arg)
    <3>1. status = "parsing" /\ "T" # "l"
      BY <2>1 DEF Getopt
    <3> HIDE DEF letter, arg
    <3> QED
      BY <1>0, <1>3, <2>1, <3>1, Zenon DEF Threads, Take, Leave, ContextAfter, StatusAfter
  <2> QED
    BY <1>1, <2>1, <2>2 DEF WithArgument
<1>4. CASE Output
  <2>1. Getopt({"o"}) /\ letter = "o"
    BY <1>0, <1>4 DEF Output, Getopt
  <2>2. ctx' = ContextAfter(ctx, letter, arg) /\ status' = StatusAfter(letter, arg)
    <3>1. /\ status = "parsing" /\ "o" # "l" /\ "o" # "T"
          /\ "o" \notin {"s", "S"} /\ "o" \notin {"V", "h"}
      BY <2>1 DEF Getopt
    <3> HIDE DEF letter, arg
    <3> QED
      BY <1>0, <1>4, <2>1, <3>1, Zenon DEF Output, Take, ContextAfter, StatusAfter
  <2> QED
    BY <1>1, <2>1, <2>2 DEF WithArgument
<1>5. CASE MinBlockSize
  <2>1. Getopt({"s"}) /\ letter = "s"
    BY <1>0, <1>5 DEF MinBlockSize, Getopt
  <2>2. ctx' = ContextAfter(ctx, letter, arg) /\ status' = StatusAfter(letter, arg)
    <3>1. /\ status = "parsing" /\ "s" # "l" /\ "s" # "T" /\ "s" # "o" /\ "s" \in {"s", "S"}
      BY <2>1 DEF Getopt
    <3> HIDE DEF letter, arg
    <3> QED
      BY <1>0, <1>5, <2>1, <3>1, Zenon DEF MinBlockSize, Take, Leave, ContextAfter, StatusAfter
  <2> QED
    BY <1>1, <2>1, <2>2 DEF WithArgument
<1>6. CASE MaxBlockSize
  <2>1. Getopt({"S"}) /\ letter = "S"
    BY <1>0, <1>6 DEF MaxBlockSize, Getopt
  <2>2. ctx' = ContextAfter(ctx, letter, arg) /\ status' = StatusAfter(letter, arg)
    <3>1. /\ status = "parsing" /\ "S" # "l" /\ "S" # "T" /\ "S" # "o" /\ "S" # "s"
          /\ "S" \in {"s", "S"}
      BY <2>1 DEF Getopt
    <3> HIDE DEF letter, arg
    <3> QED
      BY <1>0, <1>6, <2>1, <3>1, Zenon DEF MaxBlockSize, Take, Leave, ContextAfter, StatusAfter
  <2> QED
    BY <1>1, <2>1, <2>2 DEF WithArgument
<1>7. CASE Flag
  <2>1. Getopt({"r", "j", "v", "f"}) /\ letter \in {"r", "j", "v", "f"}
    BY <1>0, <1>7 DEF Flag, Getopt
  <2>2. ctx' = ContextAfter(ctx, letter, arg) /\ status' = StatusAfter(letter, arg)
    <3>1. /\ status = "parsing" /\ letter # "l" /\ letter # "T" /\ letter # "o"
          /\ letter # "s" /\ letter # "S" /\ letter \notin {"s", "S"} /\ letter \notin {"V", "h"}
      <4> HIDE DEF letter
      <4> QED BY <2>1 DEF Getopt
    <3>2. /\ ctx' = [ctx EXCEPT !.raw = @ \/ letter = "r", !.noTable = @ \/ letter = "j",
                                !.verbose = @ \/ letter = "v", !.overwrite = @ \/ letter = "f"]
          /\ status' = status
      BY <1>0, <1>7, Zenon DEF Flag, Take
    <3> HIDE DEF letter, arg
    <3> QED
      BY <2>1, <3>1, <3>2, Zenon DEF ContextAfter, StatusAfter
  <2> QED
    BY <1>1, <2>1, <2>2 DEF Flags
<1>8. CASE Tell
  <2>1. Getopt({"V", "h"}) /\ letter \in {"V", "h"} /\ ctx' = ctx /\ status' = "told"
    BY <1>0, <1>8 DEF Tell, Getopt, Leave
  <2>2. ctx' = ContextAfter(ctx, letter, arg) /\ status' = StatusAfter(letter, arg)
    <3> HIDE DEF letter, arg
    <3>1. /\ letter # "l" /\ letter # "T" /\ letter # "o" /\ letter # "s" /\ letter # "S"
          /\ letter \notin {"s", "S"} /\ letter \notin {"r", "j", "v", "f"}
      BY <2>1
    <3> QED
      BY <2>1, <3>1, Zenon DEF ContextAfter, StatusAfter
  <2> QED
    BY <1>1, <2>1, <2>2 DEF Flags
<1>9. CASE Unknown
  <2>1. /\ status = "parsing" /\ ~EndOf(line, optind, cluster)
        /\ letter \notin WithArgument \cup Flags \/ MissingOf(line, optind, cluster)
        /\ line' = line /\ operands' = skip /\ ctx' = ctx /\ status' = "refused"
        /\ cluster' = Tail(WordOf(line, optind, cluster))
        /\ optind' = AfterOf(line, optind, cluster)
    BY <1>0, <1>9, Zenon DEF Unknown, Leave
  <2>2. Now' = State(line', optind', cluster', operands', ctx', status')
    BY DEF Now
  <2> QED
    BY <2>1, <2>2, Zenon DEF StepOf
<1>10. ASSUME status = "parsing", EndOf(line, optind, cluster), UNCHANGED <<line, getoptState>>,
              ctx' = (IF Len(rest) = 1 /\ (ctx.S = 0 \/ ctx.S >= ctx.s)
                      THEN [ctx EXCEPT !.in = rest[1], !.stdin = (rest[1] = <<Minus>>),
                              !.raw = @ \/ (rest[1] # <<Minus>> /\ ~IsTarName(rest[1]))]
                      ELSE ctx),
              status' = (IF Len(rest) # 1 THEN "refused"
                         ELSE IF ctx.S = 0 \/ ctx.S >= ctx.s THEN "accepted"
                         ELSE "sizes refused")
       PROVE  status = "parsing" /\ Now' = StepOf(line, optind, cluster, operands, ctx)
  <2>1. Now' = State(line, optind, cluster, operands, ctx', status')
    <3>1. line' = line /\ optind' = optind /\ cluster' = cluster /\ operands' = operands
      BY <1>10 DEF getoptState
    <3> QED
      BY <3>1 DEF Now
  <2> QED
    BY <1>10, <2>1, Zenon DEF StepOf
<1>11. CASE BadCount
  <2>1. /\ status = "parsing" /\ EndOf(line, optind, cluster) /\ UNCHANGED <<line, getoptState>>
        /\ Len(rest) # 1 /\ ctx' = ctx /\ status' = "refused"
    BY <1>0, <1>11, Zenon DEF BadCount, AtEnd, Leave
  <2> HIDE DEF rest
  <2> QED
    BY <1>10, <2>1, Zenon
<1>12. CASE BadSizes
  <2>1. /\ status = "parsing" /\ EndOf(line, optind, cluster) /\ UNCHANGED <<line, getoptState>>
        /\ Len(rest) = 1 /\ ~(ctx.S = 0 \/ ctx.S >= ctx.s)
        /\ ctx' = ctx /\ status' = "sizes refused"
    BY <1>0, <1>12, Zenon DEF BadSizes, AtEnd, Leave, SizesOrdered
  <2> HIDE DEF rest
  <2> QED
    BY <1>10, <2>1, Zenon
<1>13. CASE Accept
  <2>1. /\ status = "parsing" /\ EndOf(line, optind, cluster) /\ UNCHANGED <<line, getoptState>>
        /\ Len(rest) = 1 /\ (ctx.S = 0 \/ ctx.S >= ctx.s)
        /\ ctx' = [ctx EXCEPT !.in = rest[1], !.stdin = (rest[1] = <<Minus>>),
                              !.raw = @ \/ (rest[1] # <<Minus>> /\ ~IsTarName(rest[1]))]
        /\ status' = "accepted"
    BY <1>0, <1>13, Zenon DEF Accept, AtEnd, SizesOrdered
  <2> HIDE DEF rest
  <2> QED
    BY <1>10, <2>1, Zenon
<1> QED
  BY <1>2, <1>3, <1>4, <1>5, <1>6, <1>7, <1>8, <1>9, <1>11, <1>12, <1>13 DEF Next

\* A set of naturals that holds 0 and the successors of its elements holds all.
LEMMA SetInduction ==
  ASSUME NEW S, 0 \in S, \A n \in Nat : n \in S => n + 1 \in S
  PROVE  Nat \subseteq S
<1>1. SUFFICES ASSUME Nat \ S # {} PROVE FALSE
  OBVIOUS
<1>2. PICK x \in Nat \ S : \A y \in Nat \ S : ~(<<y, x>> \in OpToRel(<, Nat))
  BY <1>1, NatLessThanWellFounded, WFMin
<1>3. x \in Nat /\ x # 0 /\ x \notin S
  OBVIOUS
<1> DEFINE y == x - 1
<1>4. y \in Nat /\ y < x /\ y + 1 = x
  BY <1>3
<1> HIDE DEF y
<1>5. <<y, x>> \in OpToRel(<, Nat)
  BY <1>3, <1>4 DEF OpToRel
<1>6. y \in S
  BY <1>2, <1>5, <1>4
<1> QED
  BY <1>3, <1>6, <1>4

\* n steps of parseArgs() from the state `from': the states g[0], ..., g[n].
Trace(g, n, from) ==
  /\ g[0] = from
  /\ \A k \in Nat : k < n =>
       /\ g[k].status = "parsing"
       /\ g[k + 1] = StepOf(g[k].line, g[k].optind, g[k].cluster, g[k].operands, g[k].ctx)

\* Two runs of parseArgs() to the end from the same state are the same.
LEMMA TracesAgree ==
  ASSUME NEW from, NEW g, NEW n \in Nat, Trace(g, n, from), g[n].status # "parsing",
         NEW h, NEW m \in Nat, Trace(h, m, from), h[m].status # "parsing"
  PROVE  g[n] = h[m]
<1> DEFINE S == {k \in Nat : k <= n /\ k <= m => g[k] = h[k]}
<1>1. 0 \in S
  BY DEF Trace
<1>2. ASSUME NEW k \in Nat, k \in S PROVE k + 1 \in S
  <2>1. SUFFICES ASSUME k + 1 <= n, k + 1 <= m PROVE g[k + 1] = h[k + 1]
    OBVIOUS
  <2>2. k < n /\ k < m /\ g[k] = h[k]
    BY <1>2, <2>1
  <2>3. g[k + 1] = StepOf(g[k].line, g[k].optind, g[k].cluster, g[k].operands, g[k].ctx)
    BY <2>2, Zenon DEF Trace
  <2>4. h[k + 1] = StepOf(h[k].line, h[k].optind, h[k].cluster, h[k].operands, h[k].ctx)
    BY <2>2, Zenon DEF Trace
  <2> QED
    BY <2>2, <2>3, <2>4, Zenon
<1>3. \A k \in Nat : k <= n /\ k <= m => g[k] = h[k]
  <2>1. Nat \subseteq S
    <3> HIDE DEF S
    <3> QED BY <1>1, <1>2, SetInduction
  <2> QED
    BY <2>1
<1>4. ~(n < m)
  <2>1. SUFFICES ASSUME n < m PROVE FALSE
    OBVIOUS
  <2>2. h[n].status = "parsing"
    BY <2>1, Zenon DEF Trace
  <2>3. g[n] = h[n]
    BY <1>3, <2>1
  <2> QED
    BY <2>2, <2>3, Zenon
<1>5. ~(m < n)
  <2>1. SUFFICES ASSUME m < n PROVE FALSE
    OBVIOUS
  <2>2. g[m].status = "parsing"
    BY <2>1, Zenon DEF Trace
  <2>3. g[m] = h[m]
    BY <1>3, <2>1
  <2> QED
    BY <2>2, <2>3, Zenon
<1>6. n = m
  BY <1>4, <1>5
<1>7. g[n] = h[n]
  BY <1>3, <1>6
<1> QED
  BY <1>6, <1>7, Zenon

\* A run of parseArgs() goes on by one step.
LEMMA TraceGrows ==
  ASSUME NEW from, NEW g, NEW n \in Nat, Trace(g, n, from), g[n] = Now, Next
  PROVE  \E h : Trace(h, n + 1, from) /\ h[n + 1] = Now'
<1> DEFINE next == StepOf(line, optind, cluster, operands, ctx)
           h == [k \in 0 .. n + 1 |-> IF k = n + 1 THEN next ELSE g[k]]
<1>1. Now' = next /\ status = "parsing"
  BY StepIsFunction
<1>2. /\ g[n].line = line /\ g[n].optind = optind /\ g[n].cluster = cluster
      /\ g[n].operands = operands /\ g[n].ctx = ctx /\ g[n].status = status
  BY DEF Now, State
<1> HIDE DEF next
<1>3. h[n + 1] = next /\ \A k \in Nat : k <= n => h[k] = g[k]
  OBVIOUS
<1> HIDE DEF h
<1>4. h[0] = from
  BY <1>3 DEF Trace
<1>5. ASSUME NEW k \in Nat, k < n + 1
      PROVE  /\ h[k].status = "parsing"
             /\ h[k + 1] = StepOf(h[k].line, h[k].optind, h[k].cluster, h[k].operands, h[k].ctx)
  <2>1. CASE k = n
    <3>1. h[k] = g[n] /\ h[k + 1] = next
      BY <1>3, <2>1
    <3>2. g[n].status = "parsing"
      BY <1>1, <1>2
    <3>3. next = StepOf(g[n].line, g[n].optind, g[n].cluster, g[n].operands, g[n].ctx)
      BY <1>2, Zenon DEF next
    <3> QED
      BY <3>1, <3>2, <3>3, Zenon
  <2>2. CASE k < n
    <3>1. h[k] = g[k] /\ h[k + 1] = g[k + 1]
      BY <1>3, <2>2
    <3>2. /\ g[k].status = "parsing"
          /\ g[k + 1] = StepOf(g[k].line, g[k].optind, g[k].cluster, g[k].operands, g[k].ctx)
      BY <2>2, Zenon DEF Trace
    <3> QED
      BY <3>1, <3>2, Zenon
  <2>3. k = n \/ k < n
    BY <1>5
  <2> QED
    BY <2>1, <2>2, <2>3
<1>6. Trace(h, n + 1, from)
  BY <1>4, <1>5 DEF Trace
<1> QED
  BY <1>1, <1>3, <1>6

\* The words of an input, whether they are taken, and the state that
\* parseArgs() starts on them in.
ArgcOf(in) == 1 + Len(in.strings) - (IF in.ended THEN 0 ELSE 1)

Fresh(in) ==
  State(SubSeq(in.strings, 1, ArgcOf(in) - 1), 1, <<>>, <<>>, newContext, "parsing")

\* `r' is what parseArgs() makes of the input `in' by itself.
ResultOf(in, r) ==
  IF ArgcOf(in) <= MaxArgc
  THEN \E n \in Nat : \E g :
         /\ Trace(g, n, Fresh(in)) /\ g[n].status # "parsing"
         /\ r = <<g[n].status, g[n].ctx>>
  ELSE r = <<"skipped", newContext>>

LEMMA ResultUnique ==
  ASSUME NEW in, NEW r, NEW q, ResultOf(in, r), ResultOf(in, q)
  PROVE  r = q
<1>1. CASE ArgcOf(in) <= MaxArgc
  <2>1. PICK n \in Nat : \E g : /\ Trace(g, n, Fresh(in)) /\ g[n].status # "parsing"
                                /\ r = <<g[n].status, g[n].ctx>>
    BY <1>1, Zenon DEF ResultOf
  <2>2. PICK g : /\ Trace(g, n, Fresh(in)) /\ g[n].status # "parsing"
                 /\ r = <<g[n].status, g[n].ctx>>
    BY <2>1
  <2>3. PICK m \in Nat : \E h : /\ Trace(h, m, Fresh(in)) /\ h[m].status # "parsing"
                                /\ q = <<h[m].status, h[m].ctx>>
    BY <1>1, Zenon DEF ResultOf
  <2>4. PICK h : /\ Trace(h, m, Fresh(in)) /\ h[m].status # "parsing"
                 /\ q = <<h[m].status, h[m].ctx>>
    BY <2>3
  <2>5. g[n] = h[m]
    BY <2>2, <2>4, TracesAgree
  <2> QED
    BY <2>2, <2>4, <2>5, Zenon
<1>2. CASE ~(ArgcOf(in) <= MaxArgc)
  BY <1>2, Zenon DEF ResultOf
<1> QED
  BY <1>1, <1>2

\* Every result so far is its input's own, and parseArgs() is on the way to
\* that of the input it has.
AfreshInv ==
  /\ turn \in Nat
  /\ \E S : results \in Seq(S)
  /\ Len(results) = turn
  /\ \A k \in 1 .. turn : ResultOf(inputs[k], results[k])
  /\ status # "idle" =>
       /\ ArgcOf(input) <= MaxArgc
       /\ \E n \in Nat : \E g : Trace(g, n, Fresh(input)) /\ g[n] = Now

\* One more result keeps the invariant.
LEMMA ResultAppended ==
  ASSUME AfreshInv, NEW r, ResultOf(input, r),
         results' = Append(results, r), turn' = turn + 1, inputs' = inputs, status' = "idle"
  PROVE  AfreshInv'
<1>1. PICK S : results \in Seq(S)
  BY DEF AfreshInv
<1> DEFINE T == S \cup {r}
<1>2. results \in Seq(T) /\ r \in T /\ turn \in Nat /\ Len(results) = turn
  BY <1>1 DEF AfreshInv
<1> HIDE DEF T
<1>3. /\ results' \in Seq(T) /\ Len(results') = turn + 1
      /\ \A k \in 1 .. turn : results'[k] = results[k]
      /\ results'[turn + 1] = r
  <2>1. /\ Append(results, r) \in Seq(T) /\ Len(Append(results, r)) = Len(results) + 1
        /\ Append(results, r)[Len(results) + 1] = r
        /\ \A k \in 1 .. Len(results) : Append(results, r)[k] = results[k]
    BY <1>2
  <2> QED
    BY <1>2, <2>1
<1>4. ASSUME NEW k \in 1 .. turn + 1 PROVE ResultOf(inputs[k], results'[k])
  <2>1. CASE k = turn + 1
    BY <1>3, <2>1, Zenon DEF input
  <2>2. CASE k \in 1 .. turn
    <3>1. ResultOf(inputs[k], results[k])
      BY <2>2, Zenon DEF AfreshInv
    <3> QED
      BY <1>3, <2>2, <3>1, Zenon
  <2>3. k = turn + 1 \/ k \in 1 .. turn
    BY <1>2
  <2> QED
    BY <2>1, <2>2, <2>3
<1>5. turn' \in Nat /\ Len(results') = turn' /\ \E X : results' \in Seq(X)
  BY <1>2, <1>3
<1>6. \A k \in 1 .. turn' : ResultOf(inputs'[k], results'[k])
  BY <1>4
<1> QED
  BY <1>5, <1>6 DEF AfreshInv

\* No step of the harness breaks the invariant.
LEMMA AfreshStep ==
  ASSUME AfreshInv, CliNext
  PROVE  AfreshInv'
<1>1. CASE Split
  <2>1. /\ ArgcOf(input) <= MaxArgc /\ UNCHANGED <<inputs, turn, results>>
        /\ line' = SubSeq(input.strings, 1, ArgcOf(input) - 1)
        /\ optind' = 1 /\ operands' = <<>> /\ cluster' = <<>>
        /\ ctx' = newContext /\ status' = "parsing"
    BY <1>1 DEF Split, ResetGetopt, cliVars, WithinArgc, argc, ArgcOf
  <2>2. input' = input
    BY <2>1 DEF input
  <2>3. Now' = Fresh(input)
    BY <2>1 DEF Now, Fresh
  <2>4. \E n \in Nat : \E g : Trace(g, n, Fresh(input)) /\ g[n] = Now'
    <3> DEFINE g == [k \in {0} |-> Fresh(input)]
    <3>1. g[0] = Fresh(input)
      OBVIOUS
    <3> HIDE DEF g
    <3>2. Trace(g, 0, Fresh(input))
      BY <3>1 DEF Trace
    <3>3. 0 \in Nat
      OBVIOUS
    <3> QED
      BY <2>3, <3>1, <3>2, <3>3, Zenon
  <2> QED
    BY <2>1, <2>2, <2>4 DEF AfreshInv
<1>2. CASE TooMany
  <2>1. /\ status = "idle" /\ ~(ArgcOf(input) <= MaxArgc) /\ turn' = turn + 1
        /\ results' = Append(results, <<"skipped", newContext>>)
        /\ inputs' = inputs /\ status' = status
    BY <1>2 DEF TooMany, vars, WithinArgc, argc, ArgcOf
  <2>2. ResultOf(input, <<"skipped", newContext>>)
    BY <2>1, Zenon DEF ResultOf
  <2> QED
    BY <2>1, <2>2, ResultAppended
<1>3. CASE Parse
  <2>1. Next /\ UNCHANGED <<inputs, turn, results>>
    BY <1>3 DEF Parse, cliVars
  <2>2. input' = input
    BY <2>1 DEF input
  <2>3. status # "idle"
    BY <2>1, StepIsFunction
  <2>4. PICK n \in Nat : \E g : Trace(g, n, Fresh(input)) /\ g[n] = Now
    BY <2>3 DEF AfreshInv
  <2>5. PICK g : Trace(g, n, Fresh(input)) /\ g[n] = Now
    BY <2>4
  <2>6. \E h : Trace(h, n + 1, Fresh(input)) /\ h[n + 1] = Now'
    BY <2>1, <2>5, TraceGrows
  <2>7. n + 1 \in Nat
    OBVIOUS
  <2>8. \E m \in Nat : \E h : Trace(h, m, Fresh(input)) /\ h[m] = Now'
    BY <2>6, <2>7, Zenon
  <2> QED
    BY <2>1, <2>2, <2>3, <2>8 DEF AfreshInv
<1>4. CASE Return
  <2>1. /\ status # "idle" /\ status # "parsing" /\ turn' = turn + 1
        /\ results' = Append(results, <<status, ctx>>) /\ inputs' = inputs /\ status' = "idle"
    BY <1>4 DEF Return
  <2>2. ArgcOf(input) <= MaxArgc
    BY <2>1 DEF AfreshInv
  <2>3. PICK n \in Nat : \E g : Trace(g, n, Fresh(input)) /\ g[n] = Now
    BY <2>1 DEF AfreshInv
  <2>4. PICK g : Trace(g, n, Fresh(input)) /\ g[n] = Now
    BY <2>3
  <2>5. g[n].status = status /\ g[n].ctx = ctx
    BY <2>4 DEF Now, State
  <2>6. ResultOf(input, <<status, ctx>>)
    BY <2>1, <2>2, <2>4, <2>5, Zenon DEF ResultOf
  <2> QED
    BY <2>1, <2>6, ResultAppended
<1> QED
  BY <1>1, <1>2, <1>3, <1>4 DEF CliNext

LEMMA AfreshStutter ==
  ASSUME AfreshInv, UNCHANGED <<vars, cliVars>>
  PROVE  AfreshInv'
<1>1. /\ UNCHANGED <<inputs, turn, results>> /\ status' = status
      /\ line' = line /\ optind' = optind /\ cluster' = cluster /\ operands' = operands
      /\ ctx' = ctx
  BY DEF vars, getoptState, cliVars
<1>2. Now' = Now /\ input' = input
  BY <1>1 DEF Now, input
<1> QED
  BY <1>1, <1>2 DEF AfreshInv

\* The harness has no results yet.
LEMMA AfreshStart ==
  ASSUME NEW batches, CliStart(batches)
  PROVE  AfreshInv
<1>1. turn = 0 /\ results = <<>> /\ status = "idle"
  BY DEF CliStart
<1>2. results \in Seq({}) /\ Len(results) = 0
  BY <1>1
<1> QED
  BY <1>1, <1>2 DEF AfreshInv

LEMMA AfreshInvariant == CliSpec => []AfreshInv
<1>1. CliStart(Batches) => AfreshInv
  BY AfreshStart
<1>2. AfreshInv /\ [CliNext]_<<vars, cliVars>> => AfreshInv'
  BY AfreshStep, AfreshStutter
<1> QED
  BY <1>1, <1>2, PTL DEF CliSpec

LEMMA AfreshBeside == MCSpec => []AfreshInv
<1>1. MCInit => AfreshInv
  BY AfreshStart DEF MCInit
<1>2. AfreshInv /\ [MCNext]_<<vars, cliVars, tarVars>> => AfreshInv'
  BY AfreshStep, AfreshStutter DEF MCNext
<1> QED
  BY <1>1, <1>2, PTL DEF MCSpec

LEMMA ResultsAgree == AfreshInv => ParsedAfresh
<1> SUFFICES ASSUME AfreshInv, NEW i \in DOMAIN results, NEW j \in DOMAIN results,
                    inputs[i] = inputs[j]
             PROVE  results[i] = results[j]
  BY DEF ParsedAfresh
<1>1. DOMAIN results = 1 .. turn
  BY DEF AfreshInv
<1>2. ResultOf(inputs[i], results[i]) /\ ResultOf(inputs[j], results[j])
  BY <1>1 DEF AfreshInv
<1>3. ResultOf(inputs[i], results[j])
  BY <1>2, Zenon
<1> QED
  BY <1>2, <1>3, ResultUnique

\* An input of the harness of parseArgs() gives the same result whatever was
\* parsed before it: nothing of getopt() and of the Context is left.
THEOREM ParserStartsAfresh == CliSpec => []ParsedAfresh
BY AfreshInvariant, ResultsAgree, PTL

\* ParsedAfresh again, of the specification that the runs check.
THEOREM FuzzStartsAfresh == MCSpec => []ParsedAfresh
BY AfreshBeside, ResultsAgree, PTL
==============================================================================
