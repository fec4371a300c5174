----------------------------- MODULE OutputFile -----------------------------
(***************************************************************************)
(* The life of the output file of one run, from the check that it does not *)
(* exist to the end of the process: main(), prepareOutput(), the end of    *)
(* cleanupCompression() and the two functions that remove a partial        *)
(* archive, against SIGINT, SIGTERM and other processes that use the same  *)
(* file name.  What is written is left to the other modules: the data of a *)
(* file is somebody else's, a partial archive of the run or a complete     *)
(* one.                                                                    *)
(***************************************************************************)
EXTENDS Naturals, FiniteSets

CONSTANTS
  MaxOthers   \* bound: steps of other processes on the output name

ASSUME OutputFileAssumption == MaxOthers \in Nat

Signals == {"SIGINT", "SIGTERM"}

\* Inodes: one the name may refer to at the start, one for each file created.
Nodes == 1 .. MaxOthers + 2

NoNode == 0

VARIABLES
  force,          \* -f
  terminal,       \* stdin is a terminal, and not the input
  ignored,        \* the signals the parent process set to be ignored
  name,           \* the inode that outFilename refers to, or NoNode
  node,           \* the inodes: their kind and their data
  others,         \* steps of other processes so far
  pc,             \* the next step of the run
  disposition,    \* what signal() set for each signal
  partialOutput,  \* partialOutput is not NULL
  partialFile,    \* partialFile is not NULL
  stream,         \* the state of outFile
  regular,        \* the local of prepareOutput()
  seen,           \* the inode that lstat() found, or NoNode (history)
  out,            \* the inode that outFile writes to
  yes,            \* the answer to the prompt
  replaced,       \* the run truncated a file of somebody else (history)
  kept,           \* remove() or unlink() failed, and the file stays (history)
  status          \* "running", or how the run ended

world == <<name, node, others, kept>>

args == <<force, terminal, ignored>>

vars == <<args, world, pc, disposition, partialOutput, partialFile, stream,
          regular, seen, out, yes, replaced, kept, status>>

Free == [kind |-> "none", data |-> "none"]

Labels == {"access", "prompt", "SIGINT", "SIG_IGN SIGINT", "SIGTERM", "SIG_IGN SIGTERM",
           "prepareInput", "lstat", "fopen", "partialOutput", "partialFile", "compress",
           "cleanup", "fclose", "complete", "return", "exit", "remove"}

Init ==
  /\ force \in BOOLEAN
  /\ terminal \in BOOLEAN
  /\ ignored \in SUBSET Signals
  /\ \E kind \in {"none", "file", "special"} :
       /\ name = IF kind = "none" THEN NoNode ELSE 1
       /\ node = [i \in Nodes |->
                    IF i = name THEN [kind |-> kind, data |-> "theirs"] ELSE Free]
  /\ others = 0
  /\ pc = "access"
  /\ disposition = [s \in Signals |-> IF s \in ignored THEN "SIG_IGN" ELSE "SIG_DFL"]
  /\ partialOutput = FALSE
  /\ partialFile = FALSE
  /\ stream = "none"
  /\ regular = FALSE
  /\ seen = NoNode
  /\ out = NoNode
  /\ yes = FALSE
  /\ replaced = FALSE
  /\ kept = FALSE
  /\ status = "running"

\* The second signal() call for a signal that was ignored.
SigIgn == [SIGINT |-> "SIG_IGN SIGINT", SIGTERM |-> "SIG_IGN SIGTERM"]

At(label) == status = "running" /\ pc = label

Goto(label) == pc' = label

End(how) == status' = how /\ pc' = pc

file == <<partialOutput, partialFile, stream, regular, seen, out, replaced>>

\* Variables that only the steps that say so change.
Quiet == UNCHANGED <<args, world, disposition, file, yes>>

Unused(i) == node[i] = Free

----------------------------------------------------------------------------
(* main(), before the compression. *)

\* Mutant: off a terminal an existing output is replaced.
AccessUnasked ==
  /\ At("access")
  /\ \/ /\ force \/ name = NoNode \/ ~terminal
        /\ Goto("SIGINT") /\ UNCHANGED status
     \/ /\ ~force /\ name # NoNode /\ terminal
        /\ Goto("prompt") /\ UNCHANGED status
  /\ Quiet

\* access() decides whether to ask; off a terminal the run is refused.
Access ==
  /\ At("access")
  /\ \/ /\ force \/ name = NoNode
        /\ Goto("SIGINT") /\ UNCHANGED status
     \/ /\ ~force /\ name # NoNode /\ terminal
        /\ Goto("prompt") /\ UNCHANGED status
     \/ /\ ~force /\ name # NoNode /\ ~terminal
        /\ End("refused")
  /\ Quiet

Prompt ==
  /\ At("prompt")
  /\ \/ yes' = TRUE /\ Goto("SIGINT") /\ UNCHANGED status
     \/ yes' = FALSE /\ End("declined")
  /\ UNCHANGED <<args, world, disposition, file>>

\* signal(s, removePartialOutputOnSignal) tells what was set before ...
InstallHandler(s, next) ==
  /\ At(s)
  /\ disposition' = [disposition EXCEPT ![s] = "handler"]
  /\ Goto(IF disposition[s] = "SIG_IGN" THEN SigIgn[s] ELSE next)
  /\ UNCHANGED <<args, world, file, yes, status>>

\* Mutant: a signal that was ignored is handled.
IgnoreAgainHandled(s, next) ==
  /\ At(SigIgn[s])
  /\ Goto(next)
  /\ UNCHANGED <<args, world, disposition, file, yes, status>>

\* ... and a signal that was ignored is ignored again.
IgnoreAgain(s, next) ==
  /\ At(SigIgn[s])
  /\ disposition' = [disposition EXCEPT ![s] = "SIG_IGN"]
  /\ Goto(next)
  /\ UNCHANGED <<args, world, file, yes, status>>

----------------------------------------------------------------------------
(* compressFile(). *)

\* prepareInput() may wait for the writer of a FIFO, or fail.
PrepareInput ==
  /\ At("prepareInput")
  /\ Goto("lstat") \/ Goto("exit")
  /\ UNCHANGED status
  /\ Quiet

\* Mutant: whatever has the output's name is taken for a regular file.
LstatAny ==
  /\ At("lstat")
  /\ regular' = TRUE
  /\ seen' = name
  /\ Goto("fopen")
  /\ UNCHANGED <<args, world, disposition, yes, partialOutput, partialFile,
                 stream, out, replaced, status>>

Lstat ==
  /\ At("lstat")
  /\ regular' = (name = NoNode \/ node[name].kind = "file")
  /\ seen' = name
  /\ Goto("fopen")
  /\ UNCHANGED <<args, world, disposition, yes, partialOutput, partialFile,
                 stream, out, replaced, status>>

\* fopen(outFilename, "wb") truncates the file, or creates one.
Fopen ==
  /\ At("fopen")
  /\ \E i \in Nodes :
       /\ IF name = NoNode THEN Unused(i) ELSE i = name
       /\ node' = [node EXCEPT ![i] =
                     [kind |-> IF name = NoNode THEN "file" ELSE @.kind, data |-> "partial"]]
       /\ name' = i
       /\ out' = i
  /\ replaced' = (name # NoNode)
  /\ stream' = "open"
  /\ Goto(IF regular THEN "partialOutput" ELSE "compress")
  /\ UNCHANGED <<args, others, kept, disposition, yes, partialOutput, partialFile,
                 regular, seen, status>>

CannotOpen ==
  /\ At("fopen")
  /\ Goto("exit")
  /\ UNCHANGED status
  /\ Quiet

SetPartialOutput ==
  /\ At("partialOutput")
  /\ partialOutput' = TRUE
  /\ Goto("partialFile")
  /\ UNCHANGED <<args, world, disposition, yes, partialFile, stream, regular,
                 seen, out, replaced, status>>

SetPartialFile ==
  /\ At("partialFile")
  /\ partialFile' = TRUE
  /\ Goto("compress")
  /\ UNCHANGED <<args, world, disposition, yes, partialOutput, stream, regular,
                 seen, out, replaced, status>>

\* The frames and the seek table are written, or the run fails: the input is
\* refused, a read, a write or libzstd fails.
Compress ==
  /\ At("compress")
  /\ Goto("cleanup") \/ Goto("exit")
  /\ UNCHANGED status
  /\ Quiet

\* Mutant: the stream stays recorded while fclose() closes it.
CleanupRecorded ==
  /\ At("cleanup")
  /\ Goto("fclose")
  /\ UNCHANGED <<args, world, disposition, file, yes, status>>

\* partialFile = NULL, as fclose() closes the stream even when it fails.
Cleanup ==
  /\ At("cleanup")
  /\ partialFile' = FALSE
  /\ Goto("fclose")
  /\ UNCHANGED <<args, world, disposition, yes, partialOutput, stream, regular,
                 seen, out, replaced, status>>

\* Mutant: fclose() is not checked.
FcloseUnchecked ==
  /\ At("fclose")
  /\ stream' = "closed"
  /\ Goto("complete")
  /\ node' = [node EXCEPT ![out].data = "complete"] \/ UNCHANGED node
  /\ UNCHANGED <<args, name, others, kept, disposition, yes, partialOutput,
                 partialFile, regular, seen, out, replaced, status>>

\* fclose() writes the last bytes, or fails to.
Fclose ==
  /\ At("fclose")
  /\ stream' = "closed"
  /\ \/ Goto("complete") /\ node' = [node EXCEPT ![out].data = "complete"]
     \/ Goto("exit") /\ UNCHANGED node
  /\ UNCHANGED <<args, name, others, kept, disposition, yes, partialOutput,
                 partialFile, regular, seen, out, replaced, status>>

\* partialOutput = NULL: complete, keep it.
Complete ==
  /\ At("complete")
  /\ partialOutput' = FALSE
  /\ Goto("return")
  /\ UNCHANGED <<args, world, disposition, yes, partialFile, stream, regular, seen,
                 out, replaced, status>>

\* return EXIT_SUCCESS runs the atexit() handler too.
Return ==
  /\ At("return")
  /\ IF partialOutput THEN Goto("remove") /\ UNCHANGED status ELSE End("ok")
  /\ Quiet

----------------------------------------------------------------------------
(* The end of a run that fails. *)

\* Mutant: a run that fails once the stream is closed keeps the file.
ExitClosed ==
  /\ At("exit")
  /\ IF ~partialFile
     THEN End("failed") /\ UNCHANGED stream
     ELSE /\ Goto("remove") /\ UNCHANGED status
          /\ stream' = IF stream = "open" THEN "closed" ELSE "closed twice"
  /\ UNCHANGED <<args, world, disposition, yes, partialOutput, partialFile, regular,
                 seen, out, replaced>>

\* exit(EXIT_FAILURE) calls removePartialOutput(), which closes the stream ...
Exit ==
  /\ At("exit")
  /\ IF ~partialOutput
     THEN End("failed") /\ UNCHANGED stream
     ELSE /\ Goto("remove") /\ UNCHANGED status
          /\ stream' = CASE ~partialFile     -> stream
                         [] stream = "open"  -> "closed"
                         [] OTHER            -> "closed twice"
  /\ UNCHANGED <<args, world, disposition, yes, partialOutput, partialFile, regular,
                 seen, out, replaced>>

\* remove() or unlink(): whatever file has the name by then loses it, unless
\* the call fails, as when the directory cannot be written.
Unlink ==
  \/ name' = NoNode /\ UNCHANGED kept
  \/ name # NoNode /\ kept' = TRUE /\ UNCHANGED name

\* ... and removes the output, whether remove() succeeds or not.
Remove ==
  /\ At("remove")
  /\ Unlink
  /\ End("failed")
  /\ UNCHANGED <<args, node, others, disposition, file, yes>>

\* SIGINT or SIGTERM comes between two steps; removePartialOutputOnSignal()
\* removes the output, whether unlink() succeeds or not, then dies of the
\* signal.
Signal(s) ==
  /\ status = "running"
  /\ disposition[s] # "SIG_IGN"
  /\ IF disposition[s] = "handler" /\ partialOutput
     THEN Unlink
     ELSE UNCHANGED <<name, kept>>
  /\ disposition' = [disposition EXCEPT ![s] = "SIG_DFL"]
  /\ End("interrupted")
  /\ UNCHANGED <<args, node, others, file, yes>>

----------------------------------------------------------------------------
(* Another process creates, replaces (rename(2)) or removes the output: a  *)
(* regular file, or a FIFO, a device or a link.                            *)

OtherWrites ==
  /\ others < MaxOthers
  /\ others' = others + 1
  /\ \E i \in Nodes, kind \in {"file", "special"} :
       /\ Unused(i)
       /\ node' = [node EXCEPT ![i] = [kind |-> kind, data |-> "theirs"]]
       /\ name' = i
  /\ UNCHANGED <<args, kept, pc, disposition, file, yes, status>>

OtherRemoves ==
  /\ others < MaxOthers
  /\ name # NoNode
  /\ others' = others + 1
  /\ name' = NoNode
  /\ UNCHANGED <<args, node, kept, pc, disposition, file, yes, status>>

Step ==
  \/ Access \/ Prompt
  \/ InstallHandler("SIGINT", "SIGTERM") \/ IgnoreAgain("SIGINT", "SIGTERM")
  \/ InstallHandler("SIGTERM", "prepareInput") \/ IgnoreAgain("SIGTERM", "prepareInput")
  \/ PrepareInput \/ Lstat \/ Fopen \/ CannotOpen \/ SetPartialOutput \/ SetPartialFile
  \/ Compress \/ Cleanup \/ Fclose \/ Complete \/ Return
  \/ Exit \/ Remove

Next ==
  \/ Step
  \/ \E s \in Signals : Signal(s)
  \/ OtherWrites \/ OtherRemoves

Spec == Init /\ [][Next]_vars
----------------------------------------------------------------------------
TypeOK ==
  /\ force \in BOOLEAN /\ terminal \in BOOLEAN /\ ignored \subseteq Signals
  /\ name \in Nodes \cup {NoNode}
  /\ node \in [Nodes -> [kind : {"none", "file", "special"},
                         data : {"none", "theirs", "partial", "complete"}]]
  /\ others \in 0 .. MaxOthers
  /\ pc \in Labels
  /\ disposition \in [Signals -> {"SIG_DFL", "SIG_IGN", "handler"}]
  /\ partialOutput \in BOOLEAN /\ partialFile \in BOOLEAN
  /\ partialFile => partialOutput
  /\ stream \in {"none", "open", "closed", "closed twice"}
  /\ regular \in BOOLEAN /\ {seen, out} \subseteq Nodes \cup {NoNode}
  /\ yes \in BOOLEAN /\ replaced \in BOOLEAN /\ kept \in BOOLEAN
  /\ status \in {"running", "ok", "failed", "interrupted", "refused", "declined"}

\* The file written is a partial archive, and still has the output's name;
\* prepareOutput() found a regular file there, or nothing.
PartialArchive ==
  /\ regular /\ out # NoNode /\ name = out
  /\ node[out].kind = "file" /\ node[out].data = "partial"

\* A run that fails leaves no partial archive under the output's name,
\* wherever it fails, and neither does one ended by a signal once the file is
\* recorded as partialOutput: it always tries to remove it.  One stays only
\* where remove() or unlink() itself fails, as with -f on a file of a directory
\* that cannot be written: the result of both calls is ignored.
NoPartialArchive ==
  /\ status = "failed" => ~PartialArchive \/ kept
  /\ status = "interrupted" /\ pc # "partialOutput" => ~PartialArchive \/ kept

\* A run that succeeds has written the whole archive, and has not removed it:
\* it is under the output's name unless another process touched that name.
CompleteKept ==
  status = "ok" =>
    /\ node[out].data = "complete"
    /\ name = out \/ others > 0

\* outFile is never closed twice: not when fclose() itself fails the run.
ClosedOnce == stream # "closed twice"

\* An output that exists is replaced only with -f or after a yes (README: "an
\* existing output is replaced only after a yes typed on a terminal"), unless
\* another process made it after access() found none.
ReplacedOnlyIfAgreed == replaced => force \/ yes \/ others > 0

\* The output's name refers to a FIFO, a device or a link.
NamesSpecial == name # NoNode /\ node[name].kind = "special"

\* No step of the run takes away a special file, such as a FIFO or /dev/null,
\* that the output named when lstat() looked at it.  One that another process
\* puts there later is not taken away either as long as nothing is open.
SpecialFileKept ==
  [][NamesSpecial /\ others' = others /\ (name = seen \/ out = NoNode)
       => name' = name]_vars

\* Once the run reads its input, a signal ends it only if the parent process
\* did not have it ignored.
IgnoredStaysIgnored ==
  pc \in {"prepareInput", "compress", "fclose"} =>
    \A s \in ignored : disposition[s] = "SIG_IGN"

\* No partial archive that unlink() could remove is left by a run ended by SIGINT
\* or SIGTERM ("from the moment it is created until it is complete: main()
\* removes it").
InterruptedLeavesNothing == status = "interrupted" => ~PartialArchive \/ kept

\* "A failed run removes the output only if it is a regular file: not a
\* symbolic link, a FIFO or a device that -o names": here the one it opened.
OnlyRegularRemoved ==
  [][status = "running" /\ status' = "failed" /\ NamesSpecial /\ name = out
       => name' = name]_vars
=============================================================================
