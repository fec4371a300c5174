---------------------------- MODULE FilesProofs ----------------------------
(***************************************************************************)
(* Theorems about the files of a run: about OutputFile, for any number of  *)
(* steps of the other processes that use the output's name, and about      *)
(* Launch, which opens the input and the output, for any number of lines   *)
(* typed at the prompt.                                                    *)
(***************************************************************************)
EXTENDS MCFiles, Sequences, TLAPS

(***************************************************************************)
(* OutputFile.                                                             *)
(***************************************************************************)


(***************************************************************************)
(* The inductive invariant.                                                *)
(***************************************************************************)

\* Before the output is opened, while it is open, and until it is complete.
Before == {"access", "prompt", "SIGINT", "SIG_IGN SIGINT", "SIGTERM", "SIG_IGN SIGTERM",
           "prepareInput", "lstat", "fopen"}

Open == {"partialOutput", "partialFile", "compress", "cleanup", "fclose"}

Written == {"complete", "return"}

\* What the run knows of its output at each step.
KnowsOutput ==
  /\ stream # "closed twice"
  /\ partialOutput => regular /\ out # NoNode
  /\ out # NoNode => node[out].kind # "none"
  /\ status = "running" =>
       /\ pc \in Before => out = NoNode /\ stream = "none" /\ ~partialOutput /\ ~replaced
       /\ pc \in Open => out # NoNode /\ stream = "open"
       /\ pc \in {"compress", "cleanup", "fclose"} => (regular => partialOutput)
       /\ pc = "partialOutput" => regular /\ ~partialOutput
       /\ pc = "partialFile" => partialOutput
       /\ pc = "fclose" => ~partialFile
       /\ pc \in Written => /\ out # NoNode /\ ~partialFile /\ stream = "closed"
                            /\ node[out].data = "complete"
       /\ pc = "return" => ~partialOutput
       /\ pc = "exit" => /\ regular /\ out # NoNode => partialOutput
                         /\ partialFile => stream = "open"
       /\ pc = "remove" => partialOutput

\* What the output's name refers to at each step, and what lstat() found.
NameKept ==
  /\ status = "running" /\ pc \in Open \cup Written => name = out \/ others > 0
  /\ status = "running" /\ pc \in Before \ {"access", "prompt"} =>
       force \/ yes \/ name = NoNode \/ others > 0
  /\ name # NoNode => node[name].kind # "none"
  /\ seen # NoNode => node[seen].kind # "none"
  /\ regular /\ seen # NoNode => node[seen].kind = "file"
  /\ status = "ok" => out # NoNode

\* A signal that the parent process had ignored still is, but between two
\* calls; the others are handled once the output can be partial.
Handled ==
  /\ "SIGINT" \in ignored /\ pc # "SIG_IGN SIGINT" => disposition["SIGINT"] = "SIG_IGN"
  /\ "SIGTERM" \in ignored /\ pc # "SIG_IGN SIGTERM" => disposition["SIGTERM"] = "SIG_IGN"
  /\ status = "running" =>
       /\ pc \notin {"access", "prompt", "SIGINT"} => disposition["SIGINT"] # "SIG_DFL"
       /\ pc \notin {"access", "prompt", "SIGINT", "SIG_IGN SIGINT", "SIGTERM"} =>
            disposition["SIGTERM"] # "SIG_DFL"

IInv ==
  /\ TypeOK /\ KnowsOutput /\ NameKept /\ Handled
  /\ NoPartialArchive /\ CompleteKept /\ ReplacedOnlyIfAgreed

\* The steps of other processes are counted.
LEMMA Counted ==
  ASSUME TypeOK
  PROVE  others \in Nat /\ MaxOthers \in Nat
<1>1. others \in 0 .. MaxOthers
  BY DEF TypeOK
<1>2. MaxOthers \in Nat
  BY OutputFileAssumption
<1> QED
  BY <1>1, <1>2

(***************************************************************************)
(* The invariant holds at the start, and a step preserves it.              *)
(***************************************************************************)

\* The run has done nothing yet.
LEMMA InitInv ==
  ASSUME Init
  PROVE  IInv
<1> USE OutputFileAssumption DEF Init, Signals, Nodes, NoNode, Free
<1>1. PICK kind \in {"none", "file", "special"} :
        /\ name = IF kind = "none" THEN 0 ELSE 1
        /\ node = [i \in Nodes |->
                     IF i = name THEN [kind |-> kind, data |-> "theirs"] ELSE Free]
  OBVIOUS
<1>2. TypeOK
  <2>1. name \in Nodes \cup {NoNode}
    BY <1>1
  <2>2. node \in [Nodes -> [kind : {"none", "file", "special"},
                            data : {"none", "theirs", "partial", "complete"}]]
    BY <1>1
  <2>3. others \in 0 .. MaxOthers /\ out \in Nodes \cup {NoNode}
    OBVIOUS
  <2>4. disposition \in [Signals -> {"SIG_DFL", "SIG_IGN", "handler"}]
    OBVIOUS
  <2> QED
    BY <2>1, <2>2, <2>3, <2>4 DEF TypeOK, Labels
<1>3. KnowsOutput /\ NameKept
  BY <1>1 DEF KnowsOutput, NameKept, Before, Open, Written
<1>4. Handled
  BY DEF Handled
<1>5. NoPartialArchive /\ CompleteKept /\ ReplacedOnlyIfAgreed
  BY DEF NoPartialArchive, CompleteKept, ReplacedOnlyIfAgreed
<1> QED
  BY <1>2, <1>3, <1>4, <1>5 DEF IInv

\* What the next step of the run keeps when it only goes to another label, asks,
\* or installs a handler.
LEMMA QuietSteps ==
  ASSUME IInv,
         \/ Access \/ Prompt \/ PrepareInput \/ CannotOpen \/ Compress
         \/ InstallHandler("SIGINT", "SIGTERM") \/ InstallHandler("SIGTERM", "prepareInput")
         \/ IgnoreAgain("SIGINT", "SIGTERM") \/ IgnoreAgain("SIGTERM", "prepareInput")
  PROVE  IInv'
<1> USE OutputFileAssumption DEF IInv, TypeOK, KnowsOutput, NameKept, Handled,
    NoPartialArchive, PartialArchive, CompleteKept, ReplacedOnlyIfAgreed,
    At, Goto, End, Quiet, file, world, args, SigIgn, Signals, Before, Open, Written,
    Labels, Nodes, NoNode
<1>1. CASE Access
  <2>1. TypeOK' /\ KnowsOutput'
    BY <1>1 DEF Access
  <2>2. NameKept' /\ Handled'
    BY <1>1 DEF Access
  <2>3. NoPartialArchive' /\ CompleteKept' /\ ReplacedOnlyIfAgreed'
    BY <1>1 DEF Access
  <2> QED
    BY <2>1, <2>2, <2>3
<1>2. CASE Prompt
  <2>1. TypeOK' /\ KnowsOutput'
    BY <1>2 DEF Prompt
  <2>2. NameKept' /\ Handled'
    BY <1>2 DEF Prompt
  <2>3. NoPartialArchive' /\ CompleteKept' /\ ReplacedOnlyIfAgreed'
    BY <1>2 DEF Prompt
  <2> QED
    BY <2>1, <2>2, <2>3
<1>3. CASE PrepareInput
  <2>1. TypeOK' /\ KnowsOutput'
    BY <1>3 DEF PrepareInput
  <2>2. NameKept' /\ Handled'
    BY <1>3 DEF PrepareInput
  <2>3. NoPartialArchive' /\ CompleteKept' /\ ReplacedOnlyIfAgreed'
    BY <1>3 DEF PrepareInput
  <2> QED
    BY <2>1, <2>2, <2>3
<1>4. CASE CannotOpen
  BY <1>4 DEF CannotOpen
<1>5. CASE Compress
  <2>1. TypeOK' /\ KnowsOutput'
    BY <1>5 DEF Compress
  <2>2. NameKept' /\ Handled'
    BY <1>5 DEF Compress
  <2>3. NoPartialArchive' /\ CompleteKept' /\ ReplacedOnlyIfAgreed'
    BY <1>5 DEF Compress
  <2> QED
    BY <2>1, <2>2, <2>3
<1>6. CASE InstallHandler("SIGINT", "SIGTERM")
  <2>1. TypeOK' /\ KnowsOutput'
    BY <1>6 DEF InstallHandler
  <2>2. NameKept' /\ Handled'
    BY <1>6 DEF InstallHandler
  <2>3. NoPartialArchive' /\ CompleteKept' /\ ReplacedOnlyIfAgreed'
    BY <1>6 DEF InstallHandler
  <2> QED
    BY <2>1, <2>2, <2>3
<1>7. CASE InstallHandler("SIGTERM", "prepareInput")
  <2>1. TypeOK' /\ KnowsOutput'
    BY <1>7 DEF InstallHandler
  <2>2. NameKept' /\ Handled'
    BY <1>7 DEF InstallHandler
  <2>3. NoPartialArchive' /\ CompleteKept' /\ ReplacedOnlyIfAgreed'
    BY <1>7 DEF InstallHandler
  <2> QED
    BY <2>1, <2>2, <2>3
<1>8. CASE IgnoreAgain("SIGINT", "SIGTERM")
  <2>1. TypeOK' /\ KnowsOutput'
    BY <1>8 DEF IgnoreAgain
  <2>2. NameKept' /\ Handled'
    BY <1>8 DEF IgnoreAgain
  <2>3. NoPartialArchive' /\ CompleteKept' /\ ReplacedOnlyIfAgreed'
    BY <1>8 DEF IgnoreAgain
  <2> QED
    BY <2>1, <2>2, <2>3
<1>9. CASE IgnoreAgain("SIGTERM", "prepareInput")
  <2>1. TypeOK' /\ KnowsOutput'
    BY <1>9 DEF IgnoreAgain
  <2>2. NameKept' /\ Handled'
    BY <1>9 DEF IgnoreAgain
  <2>3. NoPartialArchive' /\ CompleteKept' /\ ReplacedOnlyIfAgreed'
    BY <1>9 DEF IgnoreAgain
  <2> QED
    BY <2>1, <2>2, <2>3
<1> QED
  BY <1>1, <1>2, <1>3, <1>4, <1>5, <1>6, <1>7, <1>8, <1>9

\* fopen() opens what the name refers to, or a new regular file.
LEMMA FopenStep ==
  ASSUME IInv, Fopen
  PROVE  IInv'
<1>1. /\ TypeOK /\ status = "running" /\ pc = "fopen"
      /\ replaced' = (name # NoNode) /\ stream' = "open"
      /\ pc' = IF regular THEN "partialOutput" ELSE "compress"
      /\ UNCHANGED <<args, others, kept, disposition, yes, partialOutput, partialFile,
                     regular, seen, status>>
  BY DEF IInv, Fopen, At, Goto
<1>2. PICK i \in Nodes :
        /\ IF name = NoNode THEN node[i] = Free ELSE i = name
        /\ node' = [node EXCEPT ![i] =
             [kind |-> IF name = NoNode THEN "file" ELSE node[i].kind, data |-> "partial"]]
        /\ name' = i /\ out' = i
  BY DEF Fopen, Unused
<1>3. PICK kind : kind = IF name = NoNode THEN "file" ELSE node[i].kind
  OBVIOUS
<1>4. node' = [node EXCEPT ![i] = [kind |-> kind, data |-> "partial"]]
  BY <1>2, <1>3
<1>5. i # NoNode
  BY OutputFileAssumption DEF Nodes, NoNode
<1>6. kind \in {"file", "special"} /\ (name # NoNode => kind = node[i].kind)
  <2>1. node[i].kind \in {"none", "file", "special"}
    BY <1>1 DEF TypeOK
  <2>2. name # NoNode => node[name].kind # "none"
    BY DEF IInv, NameKept
  <2> QED
    BY <1>2, <1>3, <2>1, <2>2
<1>7. /\ node' \in [Nodes -> [kind : {"none", "file", "special"},
                              data : {"none", "theirs", "partial", "complete"}]]
      /\ node'[i].kind = kind
      /\ \A j \in Nodes : j # i => node'[j] = node[j]
  BY <1>1, <1>4, <1>6 DEF TypeOK
<1>13. seen # NoNode => node'[seen].kind = node[seen].kind
  <2>1. seen \in Nodes \cup {NoNode} /\ (seen # NoNode => node[seen].kind # "none")
    BY <1>1 DEF TypeOK, IInv, NameKept
  <2>2. name = NoNode => node[i].kind = "none"
    BY <1>2 DEF Free
  <2> QED
    BY <1>6, <1>7, <2>1, <2>2
<1>8. TypeOK'
  <2>1. /\ name' \in Nodes \cup {NoNode} /\ out' \in Nodes \cup {NoNode}
        /\ replaced' \in BOOLEAN
    BY <1>1, <1>2
  <2>2. pc' \in Labels /\ stream' \in {"none", "open", "closed", "closed twice"}
    BY <1>1 DEF Labels
  <2> QED
    BY <1>1, <1>7, <2>1, <2>2 DEF TypeOK, args
<1>9. KnowsOutput'
  BY <1>1, <1>2, <1>4, <1>5, <1>6, <1>7
     DEF IInv, KnowsOutput, TypeOK, Before, Open, Written
<1>10. NameKept'
  BY <1>1, <1>2, <1>6, <1>7, <1>13 DEF IInv, NameKept, Before, Open, Written
<1>11. Handled' /\ NoPartialArchive' /\ CompleteKept'
  BY <1>1 DEF IInv, Handled, NoPartialArchive, CompleteKept, args
<1>12. ReplacedOnlyIfAgreed'
  BY <1>1 DEF IInv, NameKept, ReplacedOnlyIfAgreed, Before, args
<1> QED
  BY <1>8, <1>9, <1>10, <1>11, <1>12 DEF IInv

\* The steps that open the output and record it as partial.
LEMMA OpenSteps ==
  ASSUME IInv, Lstat \/ Fopen \/ SetPartialOutput \/ SetPartialFile
  PROVE  IInv'
<1> USE OutputFileAssumption DEF IInv, TypeOK, KnowsOutput, NameKept, Handled,
    NoPartialArchive, PartialArchive, CompleteKept, ReplacedOnlyIfAgreed,
    At, Goto, file, world, args, Signals, Before, Open, Written, Labels, Nodes, NoNode
<1>1. CASE Lstat
  BY <1>1 DEF Lstat
<1>2. CASE Fopen
  BY <1>2, FopenStep
<1>3. CASE SetPartialOutput
  BY <1>3 DEF SetPartialOutput
<1>4. CASE SetPartialFile
  BY <1>4 DEF SetPartialFile
<1> QED
  BY <1>1, <1>2, <1>3, <1>4

\* The steps that close the output, and end the run.
LEMMA CloseSteps ==
  ASSUME IInv, Cleanup \/ Fclose \/ Complete \/ Return \/ Exit \/ Remove
  PROVE  IInv'
<1> USE OutputFileAssumption DEF IInv, TypeOK, KnowsOutput, NameKept, Handled,
    NoPartialArchive, PartialArchive, CompleteKept, ReplacedOnlyIfAgreed,
    At, Goto, End, Quiet, file, world, args, Signals, Before, Open, Written, Labels,
    Nodes, NoNode
<1>1. CASE Cleanup
  <2>1. TypeOK'
    BY <1>1 DEF Cleanup
  <2>2. KnowsOutput'
    BY <1>1 DEF Cleanup
  <2>3. NameKept' /\ Handled'
    BY <1>1 DEF Cleanup
  <2>4. NoPartialArchive' /\ CompleteKept' /\ ReplacedOnlyIfAgreed'
    BY <1>1 DEF Cleanup
  <2> QED
    BY <2>1, <2>2, <2>3, <2>4
<1>2. CASE Fclose
  <2>1. /\ At("fclose") /\ out \in Nodes /\ stream' = "closed"
        /\ \/ pc' = "complete" /\ node' = [node EXCEPT ![out].data = "complete"]
           \/ pc' = "exit" /\ node' = node
        /\ UNCHANGED <<args, name, others, kept, disposition, yes, partialOutput,
                       partialFile, regular, seen, out, replaced, status>>
    BY <1>2 DEF Fclose
  <2>2. /\ node' \in [Nodes -> [kind : {"none", "file", "special"},
                                data : {"none", "theirs", "partial", "complete"}]]
        /\ \A i \in Nodes : node'[i].kind = node[i].kind
        /\ pc' = "complete" => node'[out].data = "complete"
    BY <2>1
  <2>3. TypeOK'
    BY <2>1, <2>2
  <2>4. KnowsOutput'
    BY <2>1, <2>2
  <2>5. NameKept'
    BY <2>1, <2>2
  <2>6. Handled' /\ NoPartialArchive' /\ CompleteKept' /\ ReplacedOnlyIfAgreed'
    BY <2>1, <2>2
  <2> QED
    BY <2>3, <2>4, <2>5, <2>6
<1>3. CASE Complete
  <2>1. TypeOK' /\ KnowsOutput'
    BY <1>3 DEF Complete
  <2>2. NameKept' /\ Handled'
    BY <1>3 DEF Complete
  <2>3. NoPartialArchive' /\ CompleteKept' /\ ReplacedOnlyIfAgreed'
    BY <1>3 DEF Complete
  <2> QED
    BY <2>1, <2>2, <2>3
<1>4. CASE Return
  BY <1>4 DEF Return
<1>5. CASE Exit
  <2>1. TypeOK'
    BY <1>5 DEF Exit
  <2>4. KnowsOutput'
    BY <1>5 DEF Exit
  <2>2. NameKept' /\ Handled'
    BY <1>5 DEF Exit
  <2>3. NoPartialArchive' /\ CompleteKept' /\ ReplacedOnlyIfAgreed'
    BY <1>5 DEF Exit
  <2> QED
    BY <2>1, <2>2, <2>3, <2>4
<1>6. CASE Remove
  <2>1. TypeOK' /\ KnowsOutput'
    BY <1>6 DEF Remove, Unlink
  <2>2. NameKept' /\ Handled'
    BY <1>6 DEF Remove, Unlink
  <2>3. NoPartialArchive' /\ CompleteKept' /\ ReplacedOnlyIfAgreed'
    BY <1>6 DEF Remove, Unlink
  <2> QED
    BY <2>1, <2>2, <2>3
<1> QED
  BY <1>1, <1>2, <1>3, <1>4, <1>5, <1>6

\* A step of another process keeps the types of what only the run changes.
LEMMA TypeKept ==
  ASSUME TypeOK, UNCHANGED <<args, kept, pc, disposition, file, yes, status>>,
         name' \in Nodes \cup {NoNode}, others' \in 0 .. MaxOthers,
         node' \in [Nodes -> [kind : {"none", "file", "special"},
                              data : {"none", "theirs", "partial", "complete"}]]
  PROVE  TypeOK'
<1>1. /\ force' = force /\ terminal' = terminal /\ ignored' = ignored
      /\ pc' = pc /\ disposition' = disposition /\ yes' = yes /\ status' = status
  BY DEF args
<1>2. /\ partialOutput' = partialOutput /\ partialFile' = partialFile
      /\ stream' = stream /\ regular' = regular /\ seen' = seen /\ out' = out
      /\ replaced' = replaced /\ kept' = kept
  BY DEF file
<1>3. force' \in BOOLEAN /\ terminal' \in BOOLEAN /\ ignored' \subseteq Signals
  BY <1>1, Zenon DEF TypeOK
<1>4. pc' \in Labels /\ disposition' \in [Signals -> {"SIG_DFL", "SIG_IGN", "handler"}]
  BY <1>1, Zenon DEF TypeOK
<1>5. /\ partialOutput' \in BOOLEAN /\ partialFile' \in BOOLEAN
      /\ partialFile' => partialOutput'
      /\ stream' \in {"none", "open", "closed", "closed twice"}
  BY <1>2, Zenon DEF TypeOK
<1>6. /\ regular' \in BOOLEAN /\ {seen', out'} \subseteq Nodes \cup {NoNode}
      /\ yes' \in BOOLEAN /\ replaced' \in BOOLEAN /\ kept' \in BOOLEAN
  BY <1>1, <1>2, Zenon DEF TypeOK
<1>7. status' \in {"running", "ok", "failed", "interrupted", "refused", "declined"}
  BY <1>1, Zenon DEF TypeOK
<1> QED
  BY <1>3, <1>4, <1>5, <1>6, <1>7, Zenon DEF TypeOK

\* Signals and other processes.
LEMMA OtherSteps ==
  ASSUME IInv, (\E s \in Signals : Signal(s)) \/ OtherWrites \/ OtherRemoves
  PROVE  IInv'
<1>1. TypeOK /\ others \in Nat /\ MaxOthers \in Nat
  BY Counted DEF IInv
<1>2. ASSUME NEW s \in Signals, Signal(s)
      PROVE  IInv'
  <2>1. /\ status = "running" /\ disposition[s] # "SIG_IGN"
        /\ \/ disposition[s] = "handler" /\ partialOutput /\ Unlink
           \/ ~(disposition[s] = "handler" /\ partialOutput) /\ UNCHANGED <<name, kept>>
        /\ disposition' = [disposition EXCEPT ![s] = "SIG_DFL"]
        /\ status' = "interrupted" /\ pc' = pc
        /\ UNCHANGED <<args, node, others, file, yes>>
    BY <1>2 DEF Signal, End
  <2>2. name' \in {name, NoNode} /\ kept' \in BOOLEAN
    BY <1>1, <2>1 DEF Unlink, TypeOK
  <2>3. /\ disposition' \in [Signals -> {"SIG_DFL", "SIG_IGN", "handler"}]
        /\ \A r \in Signals : disposition'[r] = disposition[r] \/ r = s
    BY <1>1, <2>1 DEF TypeOK
  <2>4. TypeOK'
    BY <1>1, <2>1, <2>2, <2>3 DEF TypeOK, args, file
  <2>5. Handled'
    BY <2>1, <2>3 DEF IInv, Handled, Signals, args
  <2>6. KnowsOutput' /\ NameKept'
    BY <2>1, <2>2 DEF IInv, KnowsOutput, NameKept, args, file
  <2>7. CompleteKept' /\ ReplacedOnlyIfAgreed'
    BY <2>1 DEF IInv, CompleteKept, ReplacedOnlyIfAgreed, args, file
  <2>8. NoPartialArchive'
    <3>1. SUFFICES ASSUME pc # "partialOutput", PartialArchive', ~kept' PROVE FALSE
      BY <2>1 DEF NoPartialArchive
    <3>2. /\ regular /\ out # NoNode /\ node[out].data = "partial" /\ name' # NoNode
      BY <2>1, <3>1 DEF PartialArchive, file
    <3>3. pc \in Labels \ (Before \cup Written \cup {"partialOutput"})
      BY <1>1, <2>1, <3>1, <3>2 DEF IInv, KnowsOutput, TypeOK, Written
    <3>4. partialOutput
      BY <2>1, <3>2, <3>3 DEF IInv, KnowsOutput, Labels, Before, Written
    <3>5. disposition[s] # "SIG_DFL"
      BY <2>1, <3>3 DEF IInv, Handled, Signals, Before
    <3>6. disposition[s] = "handler"
      BY <1>1, <2>1, <3>5 DEF TypeOK
    <3> QED
      BY <2>1, <3>1, <3>2, <3>4, <3>6 DEF Unlink
  <2> QED
    BY <2>4, <2>5, <2>6, <2>7, <2>8 DEF IInv
<1>3. CASE OtherWrites
  <2>1. PICK i \in Nodes, kind \in {"file", "special"} : node[i] = Free /\ name' = i
          /\ node' = [node EXCEPT ![i] = [kind |-> kind, data |-> "theirs"]]
    BY <1>3 DEF OtherWrites, Unused
  <2>2. /\ others' = others + 1 /\ others < MaxOthers
        /\ UNCHANGED <<args, kept, pc, disposition, file, yes, status>>
    BY <1>3 DEF OtherWrites
  <2>3. /\ node' \in [Nodes -> [kind : {"none", "file", "special"},
                                data : {"none", "theirs", "partial", "complete"}]]
        /\ node'[i].kind = kind /\ node'[i].data = "theirs"
        /\ \A j \in Nodes : j # i => node'[j] = node[j]
    BY <1>1, <2>1 DEF TypeOK
  <2>4. /\ out # NoNode => out # i /\ node'[out] = node[out]
        /\ seen # NoNode => node'[seen] = node[seen]
    <3>1. out \in Nodes \cup {NoNode} /\ seen \in Nodes \cup {NoNode}
      BY <1>1 DEF TypeOK
    <3>2. node[i].kind = "none"
      BY <2>1 DEF Free
    <3>3. /\ out # NoNode => node[out].kind # "none"
          /\ seen # NoNode => node[seen].kind # "none"
      BY DEF IInv, KnowsOutput, NameKept
    <3> QED
      BY <2>3, <3>1, <3>2, <3>3
  <2>5. others' \in 0 .. MaxOthers /\ others' > 0
    BY <1>1, <2>2
  <2>6. TypeOK'
    <3>1. /\ name' \in Nodes \cup {NoNode} /\ others' \in 0 .. MaxOthers
          /\ node' \in [Nodes -> [kind : {"none", "file", "special"},
                                 data : {"none", "theirs", "partial", "complete"}]]
      BY <2>1, <2>3, <2>5
    <3> QED
      BY <1>1, <2>2, <3>1, TypeKept
  <2>7. KnowsOutput' /\ Handled'
    BY <2>2, <2>4 DEF IInv, KnowsOutput, Handled, args, file, Open, Written
  <2>8. NameKept' /\ ReplacedOnlyIfAgreed'
    BY <2>1, <2>2, <2>3, <2>4, <2>5 DEF IInv, NameKept, ReplacedOnlyIfAgreed, args, file
  <2>9. NoPartialArchive' /\ CompleteKept'
    BY <2>1, <2>2, <2>4, <2>5
       DEF IInv, NameKept, NoPartialArchive, PartialArchive, CompleteKept, args, file
  <2> QED
    BY <2>6, <2>7, <2>8, <2>9 DEF IInv
<1>4. CASE OtherRemoves
  <2>1. /\ others' = others + 1 /\ others < MaxOthers /\ name' = NoNode
        /\ UNCHANGED <<args, node, kept, pc, disposition, file, yes, status>>
    BY <1>4 DEF OtherRemoves
  <2>2. others' \in 0 .. MaxOthers /\ others' > 0
    BY <1>1, <2>1
  <2>3. TypeOK'
    <3>1. /\ name' \in Nodes \cup {NoNode} /\ others' \in 0 .. MaxOthers
          /\ node' \in [Nodes -> [kind : {"none", "file", "special"},
                                 data : {"none", "theirs", "partial", "complete"}]]
      BY <1>1, <2>1, <2>2 DEF TypeOK
    <3> QED
      BY <1>1, <2>1, <3>1, TypeKept
  <2>4. KnowsOutput' /\ Handled'
    BY <2>1 DEF IInv, KnowsOutput, Handled, args, file
  <2>5. NameKept' /\ ReplacedOnlyIfAgreed' /\ NoPartialArchive' /\ CompleteKept'
    BY <2>1, <2>2 DEF IInv, NameKept, ReplacedOnlyIfAgreed, NoPartialArchive,
       PartialArchive, CompleteKept, args, file
  <2> QED
    BY <2>3, <2>4, <2>5 DEF IInv
<1> QED
  BY <1>2, <1>3, <1>4

\* A step that changes nothing.
LEMMA StutterStep ==
  ASSUME IInv, UNCHANGED vars
  PROVE  IInv'
<1>1. UNCHANGED <<force, terminal, ignored, name, node, others, pc, disposition,
                  partialOutput, partialFile, stream, regular, seen, out, yes, replaced,
                  kept, status>>
  BY DEF vars, args, world
<1>2. TypeOK
  BY DEF IInv
<1>3. TypeOK'
  BY <1>1, <1>2, ZenonT(60) DEF TypeOK
<1>4. KnowsOutput'
  BY <1>1 DEF IInv, KnowsOutput
<1>5. NameKept' /\ Handled'
  BY <1>1 DEF IInv, NameKept, Handled
<1>6. NoPartialArchive' /\ CompleteKept' /\ ReplacedOnlyIfAgreed'
  BY <1>1 DEF IInv, NoPartialArchive, PartialArchive, CompleteKept, ReplacedOnlyIfAgreed
<1> QED
  BY <1>3, <1>4, <1>6, <1>5 DEF IInv

\* Every step keeps the invariant.
LEMMA InvStep ==
  ASSUME IInv, [Next]_vars
  PROVE  IInv'
  BY QuietSteps, OpenSteps, CloseSteps, OtherSteps, StutterStep DEF Next, Step

\* The invariant holds in every state of every run.
LEMMA Inductive == Spec => []IInv
  BY InitInv, InvStep, PTL DEF Spec

(***************************************************************************)
(* What follows from it.                                                   *)
(***************************************************************************)

\* However a run fails, and whatever other processes do to the output's name,
\* no partial archive of the run has that name afterwards unless remove() itself
\* failed; the same of a run that a signal ends once the file is recorded, and
\* of unlink().
THEOREM NoPartialArchiveLeft == Spec => []NoPartialArchive
  BY Inductive, PTL DEF IInv

\* A run that succeeds keeps its whole archive.
THEOREM CompleteArchiveKept == Spec => []CompleteKept
  BY Inductive, PTL DEF IInv

\* The output is closed at most once.
THEOREM NeverClosedTwice == Spec => []ClosedOnce
<1>1. IInv => ClosedOnce
  BY DEF IInv, KnowsOutput, ClosedOnce
<1> QED
  BY <1>1, Inductive, PTL

\* A file that was there when the run started is replaced only with consent.
THEOREM NeverReplacedUnasked == Spec => []ReplacedOnlyIfAgreed
  BY Inductive, PTL DEF IInv

\* A signal ignored at the start is ignored while the run works.
THEOREM IgnoredSignalsStay == Spec => []IgnoredStaysIgnored
<1>1. IInv => IgnoredStaysIgnored
  BY DEF IInv, TypeOK, Handled, IgnoredStaysIgnored, Signals
<1> QED
  BY <1>1, Inductive, PTL

\* No step of the run removes or replaces a special file that lstat() found,
\* nor any before the output is open, whatever other processes put there.
THEOREM SpecialFilesStay == Spec => SpecialFileKept
<1> DEFINE Kept == NamesSpecial /\ others' = others /\ (name = seen \/ out = NoNode)
                     => name' = name
<1>1. ASSUME IInv, [Next]_vars PROVE [Kept]_vars
  <2>1. SUFFICES ASSUME name # NoNode, node[name].kind = "special", others' = others, Next,
                        name = seen \/ out = NoNode
                 PROVE  name' = name
    BY <1>1 DEF NamesSpecial
  <2>2. ~partialOutput
    BY <1>1, <2>1 DEF IInv, KnowsOutput, NameKept
  <2>9. others \in Nat
    BY <1>1, Counted DEF IInv
  <2>3. CASE Step
    BY <1>1, <2>1, <2>2, <2>3 DEF Step, Access, Prompt, InstallHandler, IgnoreAgain,
       PrepareInput, Lstat, Fopen, CannotOpen, SetPartialOutput, SetPartialFile, Compress,
       Cleanup, Fclose, Complete, Return, Exit, Remove, Quiet, world, At, IInv, KnowsOutput
  <2>4. CASE \E s \in Signals : Signal(s)
    BY <2>2, <2>4 DEF Signal
  <2>5. CASE OtherWrites \/ OtherRemoves
    BY <2>1, <2>9, <2>5 DEF OtherWrites, OtherRemoves
  <2> QED
    BY <2>1, <2>3, <2>4, <2>5 DEF Next
<1> QED
  BY <1>1, Inductive, PTL DEF Spec, SpecialFileKept

(***************************************************************************)
(* Launch.  LInv says how far each of its promises is on its way at each   *)
(* label: which descriptors are as the shell left them, what               *)
(* outputIsInput() found out of the names, what is left of the answer in   *)
(* the buffer of stdin.                                                    *)
(***************************************************************************)

\* What descriptors 0, 1 and 2 may be before the output is opened ...
Given0 == {Launch!Closed, Launch!Fd("terminal", "rw"), Launch!Fd("pipe", "r"),
           Launch!Fd("in", "r"), Launch!Fd("out", "r")}
Given1 == {Launch!Closed, Launch!Fd("terminal", "rw"), Launch!Fd("pipe", "w")}
Given2 == {Launch!Closed, Launch!Fd("terminal", "rw"), Launch!Fd("/dev/null", "w")}

\* ... and any of them after.
Files == Given0 \cup Given1 \cup Given2 \cup {Launch!Fd("in", "w"), Launch!Fd("out", "w")}

\* The types of what a step may change.
Typed ==
  /\ arg \in [dash : BOOLEAN, raw : BOOLEAN, force : BOOLEAN, out : {"absent", "-", "name"}]
  /\ at[1] \in Given0 /\ at[2] \in Given1
  /\ outName \in {"none", "out", "in"}
  /\ ctx \in [stdinMode : BOOLEAN, stdoutMode : BOOLEAN,
              mapped : BOOLEAN, out : 0 .. Launch!NoFd]
  /\ stdin \in [buffer : {<<>>, <<"\n">>, <<"e", "\n">>}, eof : BOOLEAN]
  /\ fd \in [Launch!Fds -> Files] /\ fd[2] \in Given2

\* The shell may have redirected the file of the output, if there is one.
Names == at[1].obj = "out" => outName = "out"

\* The descriptors are as they were at the start until the output is opened, but
\* for stderr, which is open, and for a stdin that was redirected to the input.
Descriptors ==
  /\ stage # "stderr" => fd[2] # Launch!Closed
  /\ stage # "compress" => /\ fd[0] \in Given0 /\ fd[1] = at[2]
                        /\ fd[3] = Launch!Closed /\ fd[4] = Launch!Closed
                        /\ truncated = "none"
  /\ stage \notin {"output", "compress"} =>
       fd[0] = at[1] /\ ctx.stdinMode = arg.dash /\ ~ctx.mapped

\* The input is known once it is open, and the output is not the input once
\* they were compared.
Compared ==
  /\ stage = "output" =>
       /\ ctx.mapped => inKind = "regular"
       /\ ~ctx.mapped => /\ Launch!Readable(fd[0]) => fd[0].obj = Launch!asked
                         /\ ~arg.dash => Launch!Readable(fd[0])
  /\ stage \in {"exists", "prompt", "open", "output"} /\ ~ctx.stdoutMode =>
       outName = "none" \/ outName # Launch!asked

\* A line is taken from the buffer to its end before anything else is done.
Answer ==
  /\ stage # "prompt" => stdin.buffer = <<>>
  /\ c = "none" \/ Launch!LineEnds => stdin.buffer = <<>>

LInv ==
  /\ Typed /\ Names /\ Descriptors /\ Compared /\ Answer
  /\ Launch!ReadsInput /\ Launch!InputIntact /\ Launch!OutputApart

\* main() starts from what the shell left.
LEMMA LaunchInit == Launch!Init => LInv
<1> SUFFICES ASSUME Launch!Init PROVE LInv
  OBVIOUS
<1>1. PICK f0 \in Given0, f1 \in Given1, f2 \in Given2 :
        /\ at = <<f0, f1>>
        /\ fd = [n \in Launch!Fds |-> CASE n = 0 -> f0 [] n = 1 -> f1 [] n = 2 -> f2
                                 [] OTHER -> Launch!Closed]
        /\ f0.obj = "out" => outName = "out"
  BY DEF Launch!Init, Given0, Given1, Given2
<1>2. /\ fd \in [Launch!Fds -> Files] /\ fd[0] = f0 /\ fd[1] = f1 /\ fd[2] = f2
      /\ fd[3] = Launch!Closed /\ fd[4] = Launch!Closed
  BY <1>1 DEF Launch!Fds, Files, Given0
<1>3. Typed /\ Names
  BY <1>1, <1>2 DEF Launch!Init, Typed, Names, Launch!NoFd
<1> QED
  BY <1>1, <1>2, <1>3 DEF Launch!Init, LInv, Descriptors, Compared, Answer, Launch!ReadsInput,
     Launch!InputIntact, Launch!OutputApart, Launch!Compressing

\* Before the output is opened nothing is promised, and nothing truncated.
LEMMA NotYet ==
  ASSUME stage' # "compress", truncated' = "none"
  PROVE  (Launch!ReadsInput /\ Launch!InputIntact /\ Launch!OutputApart)'
  BY DEF Launch!ReadsInput, Launch!InputIntact, Launch!OutputApart, Launch!Compressing

\* main() looks at the descriptors and the names.
LEMMA FixStderrStep == LInv /\ Launch!FixStderr => LInv'
<1> SUFFICES ASSUME LInv, Launch!FixStderr PROVE LInv'
  OBVIOUS
<1>1. /\ stage = "stderr" /\ stage' = "input"
      /\ UNCHANGED <<arg, at, inKind, outName, Launch!prompt, ctx, truncated>>
      /\ fd' = Launch!WithStderr
  BY DEF Launch!FixStderr, Launch!At, Launch!Goto, Launch!given
<1>2. /\ fd'[2] \in Given2 /\ fd'[2] # Launch!Closed /\ fd' \in [Launch!Fds -> Files]
      /\ \A n \in Launch!Fds \ {2} : fd'[n] = fd[n]
  <2>1. fd \in [Launch!Fds -> Files] /\ fd[2] \in Given2
    BY DEF LInv, Typed
  <2>2. CASE fd[2] = Launch!Closed
    <3>1. fd' = [fd EXCEPT ![2] = Launch!Fd("/dev/null", "w")]
      BY <1>1, <2>2 DEF Launch!WithStderr
    <3>2. fd'[2] = Launch!Fd("/dev/null", "w") /\ fd' \in [Launch!Fds -> Files]
          /\ \A n \in Launch!Fds \ {2} : fd'[n] = fd[n]
      <4>1. Launch!Fd("/dev/null", "w") \in Files /\ 2 \in Launch!Fds
        BY DEF Files, Given2, Launch!Fds
      <4> QED
        BY <2>1, <3>1, <4>1
    <3> QED
      BY <3>2 DEF Given2, Launch!Closed, Launch!Fd
  <2>3. CASE fd[2] # Launch!Closed
    BY <1>1, <2>1, <2>3 DEF Launch!WithStderr
  <2> QED
    BY <2>2, <2>3
<1>3. Typed' /\ Names'
  BY <1>1, <1>2 DEF LInv, Typed, Names, Launch!prompt
<1>4. Descriptors' /\ Compared' /\ Answer'
  BY <1>1, <1>2 DEF LInv, Descriptors, Compared, Answer, Launch!LineEnds, Launch!prompt,
     Launch!Fds
<1>5. stage' # "compress" /\ truncated' = "none"
  BY <1>1 DEF LInv, Descriptors
<1> QED
  BY <1>3, <1>4, <1>5, NotYet DEF LInv

\* It compares, and asks, without a change.
LEMMA CheckSteps ==
  ASSUME LInv,
         \/ Launch!CheckInput \/ Launch!CheckSame
         \/ Launch!CheckExists \/ Launch!Answered
  PROVE  LInv'
<1>1. UNCHANGED <<arg, at, inKind, outName, fd, Launch!prompt, ctx, truncated>>
  BY DEF Launch!CheckInput, Launch!CheckSame, Launch!CheckExists, Launch!Answered, Launch!Quiet,
     Launch!given
<1>2. /\ stage \in {"input", "same", "exists", "prompt"}
      /\ stage' \in {stage, "destination", "exists", "prompt", "open"}
      /\ stage' \in {"exists", "prompt", "open"} =>
           \/ stage \in {"exists", "prompt"}
           \/ stage = "same" /\ (ctx.stdoutMode \/ ~Launch!outputIsInput)
      /\ stage' = "prompt" \/ stage # "prompt" \/ Launch!LineEnds
  BY DEF Launch!CheckInput, Launch!CheckSame, Launch!CheckExists, Launch!Answered, Launch!At,
     Launch!Goto, Launch!End
<1>3. Typed' /\ Names'
  BY <1>1 DEF LInv, Typed, Names, Launch!prompt
<1>4. Descriptors' /\ Answer'
  BY <1>1, <1>2 DEF LInv, Descriptors, Answer, Launch!LineEnds, Launch!prompt
<1>5. Compared'
  BY <1>1, <1>2 DEF LInv, Descriptors, Compared, Launch!outputIsInput, Launch!asked
<1>6. stage' # "compress" /\ truncated' = "none"
  BY <1>1, <1>2 DEF LInv, Descriptors
<1> QED
  BY <1>3, <1>4, <1>5, <1>6, NotYet DEF LInv

\* Whether the output is stdout has nothing to do with the input.
LEMMA DestinationStep == LInv /\ Launch!Destination => LInv'
<1> SUFFICES ASSUME LInv, Launch!Destination PROVE LInv'
  OBVIOUS
<1>1. /\ UNCHANGED <<arg, at, inKind, outName, fd, Launch!prompt, truncated>>
      /\ stage = "destination" /\ stage' \in {"destination", "same"}
      /\ \/ ctx' = ctx
         \/ ctx' = [ctx EXCEPT !.stdoutMode =
                      arg.out = "-" \/ (arg.out = "absent" /\ ctx.stdinMode)]
  BY DEF Launch!Destination, Launch!given, Launch!At, Launch!Goto, Launch!End
<1>2. /\ ctx'.stdinMode = ctx.stdinMode /\ ctx'.mapped = ctx.mapped
      /\ ctx' \in [stdinMode : BOOLEAN, stdoutMode : BOOLEAN,
                   mapped : BOOLEAN, out : 0 .. Launch!NoFd]
  BY <1>1 DEF LInv, Typed
<1>3. Typed' /\ Names'
  BY <1>1, <1>2 DEF LInv, Typed, Names, Launch!prompt
<1>4. Descriptors' /\ Answer' /\ Compared'
  BY <1>1, <1>2 DEF LInv, Descriptors, Answer, Compared, Launch!LineEnds, Launch!prompt
<1>5. stage' # "compress" /\ truncated' = "none"
  BY <1>1 DEF LInv, Descriptors
<1> QED
  BY <1>3, <1>4, <1>5, NotYet DEF LInv

\* The answer is read.
LEMMA GetcharStep == LInv /\ Launch!Getchar => LInv'
<1> SUFFICES ASSUME LInv, Launch!Getchar PROVE LInv'
  OBVIOUS
<1>1. /\ UNCHANGED <<arg, at, inKind, outName, fd, ctx, truncated, stage>>
      /\ stage = "prompt" /\ Launch!getchar
  BY DEF Launch!Getchar, Launch!given, Launch!At
<1>2. /\ stdin' \in [buffer : {<<>>, <<"\n">>, <<"e", "\n">>}, eof : BOOLEAN]
      /\ c' \in {"\n", "EOF"} => stdin'.buffer = <<>>
      /\ c' # "none"
  <2>1. stdin \in [buffer : {<<>>, <<"\n">>, <<"e", "\n">>}, eof : BOOLEAN]
    BY DEF LInv, Typed
  <2>2. CASE stdin.buffer # <<>>
    <3>1. c' = Head(stdin.buffer) /\ stdin' = [stdin EXCEPT !.buffer = Tail(@)]
      BY <1>1, <2>2 DEF Launch!getchar
    <3>2. CASE stdin.buffer = <<"\n">>
      BY <2>1, <3>1, <3>2
    <3>3. CASE stdin.buffer = <<"e", "\n">>
      BY <2>1, <3>1, <3>3
    <3> QED
      BY <2>1, <2>2, <3>2, <3>3
  <2>3. CASE stdin.buffer = <<>>
    <3>1. PICK line \in Launch!Lines :
            IF line = <<>> THEN c' = "EOF" /\ stdin' = [stdin EXCEPT !.eof = TRUE]
            ELSE c' = Head(line) /\ stdin' = [stdin EXCEPT !.buffer = Tail(line)]
      BY <1>1, <2>3 DEF Launch!getchar
    <3>2. CASE line = <<>>
      BY <2>1, <2>3, <3>1, <3>2
    <3>3. CASE line = <<"y", "\n">>
      BY <2>1, <3>1, <3>3
    <3>4. CASE line = <<"n", "\n">>
      BY <2>1, <3>1, <3>4
    <3>5. CASE line = <<"y", "e", "\n">>
      BY <2>1, <3>1, <3>5
    <3>6. CASE line = <<"\n">>
      BY <2>1, <3>1, <3>6
    <3>7. CASE line = <<"y">>
      BY <2>1, <3>1, <3>7
    <3> QED
      BY <3>1, <3>2, <3>3, <3>4, <3>5, <3>6, <3>7 DEF Launch!Lines
  <2> QED
    BY <2>2, <2>3
<1>3. Typed' /\ Names'
  BY <1>1, <1>2 DEF LInv, Typed, Names
<1>4. Descriptors' /\ Compared'
  BY <1>1 DEF LInv, Descriptors, Compared, Launch!asked, Launch!Readable
<1>5. Answer'
  BY <1>1, <1>2 DEF Answer, Launch!LineEnds
<1>6. stage' # "compress" /\ truncated' = "none"
  BY <1>1 DEF LInv, Descriptors
<1> QED
  BY <1>3, <1>4, <1>5, <1>6, NotYet DEF LInv

\* The input is opened.
LEMMA InputSteps ==
  ASSUME LInv,
         \/ Launch!SkipInput \/ Launch!RejectInput
         \/ Launch!MapInput \/ Launch!RedirectInput
  PROVE  LInv'
<1>1. /\ UNCHANGED <<arg, at, inKind, outName, Launch!prompt, truncated>>
      /\ stage = "open" /\ stage' \in {"open", "output"}
      /\ ctx'.stdoutMode = ctx.stdoutMode /\ ctx'.out = ctx.out
      /\ ctx' \in [stdinMode : BOOLEAN, stdoutMode : BOOLEAN,
                   mapped : BOOLEAN, out : 0 .. Launch!NoFd]
  BY DEF Launch!SkipInput, Launch!RejectInput, Launch!MapInput, Launch!RedirectInput,
     Launch!Redirected, Launch!Opening, Launch!Quiet, Launch!given, Launch!At, Launch!Goto,
     Launch!End, LInv, Typed
<1>2. /\ fd'[0] \in Given0 /\ fd' \in [Launch!Fds -> Files]
      /\ \A n \in Launch!Fds \ {0} : fd'[n] = fd[n]
  BY DEF Launch!SkipInput, Launch!RejectInput, Launch!MapInput, Launch!RedirectInput,
     Launch!Opening, Launch!Quiet, Launch!At, LInv, Typed, Descriptors, Given0, Files,
     Launch!Fds
<1>3. Typed' /\ Names'
  <2>1. 2 \in Launch!Fds \ {0}
    BY DEF Launch!Fds
  <2>2. fd'[2] = fd[2]
    BY <1>2, <2>1
  <2> QED
    BY <1>1, <1>2, <2>2 DEF LInv, Typed, Names, Launch!prompt
<1>4. Answer'
  BY <1>1 DEF LInv, Answer, Launch!LineEnds, Launch!prompt
<1>5. Descriptors'
  BY <1>1, <1>2 DEF LInv, Descriptors, Launch!Fds, Launch!SkipInput, Launch!RejectInput,
     Launch!MapInput, Launch!RedirectInput, Launch!Quiet, Launch!Goto, Launch!End
<1>6. Compared'
  <2>1. ctx.stdinMode = arg.dash /\ ~ctx.mapped /\ fd[0] = at[1]
    BY <1>1 DEF LInv, Descriptors
  <2>2. ~ctx'.stdoutMode => outName' = "none" \/ outName' # Launch!asked'
    BY <1>1 DEF LInv, Compared, Launch!asked
  <2>3. CASE Launch!SkipInput \/ Launch!RejectInput \/ Launch!MapInput
    BY <1>1, <2>1, <2>2, <2>3 DEF Launch!SkipInput, Launch!RejectInput, Launch!MapInput,
       Launch!Opening, Launch!Quiet, Launch!Goto, Launch!End, Compared, Launch!asked, LInv,
       Typed
  <2>4. CASE Launch!RedirectInput
    <3>1. fd'[0] = Launch!Fd("in", "r") /\ ~arg.dash
      BY <2>1, <2>4 DEF Launch!RedirectInput, Launch!Opening, LInv, Typed, Launch!Fds
    <3>2. ~ctx'.mapped
      BY <2>1, <2>4 DEF Launch!RedirectInput, Launch!Redirected, LInv, Typed
    <3> QED
      BY <1>1, <2>2, <3>1, <3>2 DEF Compared, Launch!asked, Launch!Fd, Launch!Readable
  <2> QED
    BY <2>3, <2>4
<1>7. stage' # "compress" /\ truncated' = "none"
  BY <1>1 DEF LInv, Descriptors
<1> QED
  BY <1>3, <1>4, <1>5, <1>6, <1>7, NotYet DEF LInv

\* The output is opened: what the run starts from.
LEMMA OutputStep == LInv /\ Launch!PrepareOutput => LInv'
<1> SUFFICES ASSUME LInv, Launch!PrepareOutput PROVE LInv'
  OBVIOUS
<1>1. /\ UNCHANGED <<arg, at, inKind, Launch!prompt>> /\ stage = "output" /\ stage' = "compress"
  BY DEF Launch!PrepareOutput, Launch!given, Launch!At, Launch!Goto
<1>2. /\ fd \in [Launch!Fds -> Files] /\ fd[0] \in Given0 /\ fd[1] = at[2] /\ at[2] \in Given1
      /\ fd[2] \in Given2 \ {Launch!Closed} /\ fd[3] = Launch!Closed /\ fd[4] = Launch!Closed
      /\ outName \in {"none", "out", "in"} /\ truncated = "none"
      /\ at[1] \in Given0
      /\ ctx \in [stdinMode : BOOLEAN, stdoutMode : BOOLEAN,
                  mapped : BOOLEAN, out : 0 .. Launch!NoFd]
  BY <1>1 DEF LInv, Typed, Descriptors
<1>3. /\ ctx.mapped => inKind = "regular"
      /\ ~ctx.mapped => /\ stdin.buffer = <<>>
                        /\ Launch!Readable(fd[0]) => fd[0].obj = Launch!asked
                        /\ ~arg.dash => Launch!Readable(fd[0])
      /\ ~ctx.stdoutMode => outName = "none" \/ outName # Launch!asked
  BY <1>1 DEF LInv, Compared, Answer
<1>4. Answer'
  BY <1>1 DEF LInv, Answer, Launch!LineEnds, Launch!prompt
<1>5. fd[2].obj \in {"terminal", "/dev/null"}
  BY <1>2 DEF Given2, Launch!Fd, Launch!Closed
<1>6. Launch!asked' = Launch!asked
  BY <1>1 DEF Launch!asked
<1>7. CASE ctx.stdoutMode
  <2>1. ctx' = [ctx EXCEPT !.out = 1] /\ UNCHANGED <<fd, outName, truncated>>
    BY <1>7 DEF Launch!PrepareOutput
  <2>2. /\ ctx' \in [stdinMode : BOOLEAN, stdoutMode : BOOLEAN,
                     mapped : BOOLEAN, out : 0 .. Launch!NoFd]
        /\ ctx'.stdoutMode /\ (ctx'.mapped <=> ctx.mapped)
    BY <1>2, <1>7, <2>1 DEF Launch!NoFd
  <2>3. Typed' /\ Names' /\ Descriptors' /\ Compared'
    BY <1>1, <1>2, <2>1, <2>2 DEF LInv, Typed, Names, Descriptors, Compared, Launch!prompt
  <2>4. Launch!ReadsInput' /\ Launch!InputIntact' /\ Launch!OutputApart'
    BY <1>1, <1>2, <1>3, <1>5, <1>6, <2>1, <2>2
       DEF Launch!ReadsInput, Launch!InputIntact, Launch!OutputApart, Launch!prompt
  <2> QED
    BY <1>4, <2>3, <2>4 DEF LInv
<1>8. CASE ~ctx.stdoutMode
  <2>1. PICK n : n = Launch!Min({k \in Launch!Fds : fd[k] = Launch!Closed})
    OBVIOUS
  <2>2. n \in {0, 1, 3} /\ fd[n] = Launch!Closed
    <3>1. \A k \in Launch!Fds : k \in {0, 1, 2, 3, 4}
      BY DEF Launch!Fds
    <3>2. PICK m \in {0, 1, 3} :
            fd[m] = Launch!Closed /\ \A k \in Launch!Fds : fd[k] = Launch!Closed => m <= k
      <4>1. CASE fd[0] = Launch!Closed
        BY <3>1, <4>1
      <4>2. CASE fd[0] # Launch!Closed /\ fd[1] = Launch!Closed
        BY <3>1, <4>2
      <4>3. CASE fd[0] # Launch!Closed /\ fd[1] # Launch!Closed
        BY <1>2, <3>1, <4>3
      <4> QED
        BY <4>1, <4>2, <4>3
    <3>3. /\ n \in {k \in Launch!Fds : fd[k] = Launch!Closed}
          /\ \A k \in {k \in Launch!Fds : fd[k] = Launch!Closed} : n <= k
      BY <2>1, <3>2 DEF Launch!Min, Launch!Fds
    <3> QED
      BY <3>2, <3>3 DEF Launch!Fds
  <2>3. /\ ctx' = [ctx EXCEPT !.out = n] /\ truncated' = outName
        /\ outName' = (IF outName = "none" THEN "out" ELSE outName)
        /\ fd' = [fd EXCEPT ![n] = Launch!Fd(outName', "w")]
    BY <1>8, <2>1 DEF Launch!PrepareOutput
  <2>4. /\ ctx' \in [stdinMode : BOOLEAN, stdoutMode : BOOLEAN,
                     mapped : BOOLEAN, out : 0 .. Launch!NoFd]
        /\ ~ctx'.stdoutMode /\ (ctx'.mapped <=> ctx.mapped) /\ ctx'.out = n
    BY <1>2, <1>8, <2>2, <2>3 DEF Launch!NoFd
  <2>5. /\ fd' \in [Launch!Fds -> Files] /\ fd'[n] = Launch!Fd(outName', "w")
        /\ \A k \in Launch!Fds \ {n} : fd'[k] = fd[k]
        /\ fd'[2] = fd[2]
    <3>1. outName' \in {"in", "out"}
      BY <1>2, <2>3
    <3>2. PICK target \in Files : target = Launch!Fd(outName', "w")
      BY <3>1 DEF Files
    <3>3. n \in Launch!Fds /\ 2 \in Launch!Fds \ {n} /\ fd \in [Launch!Fds -> Files]
      BY <1>2, <2>2 DEF Launch!Fds
    <3>4. fd' = [fd EXCEPT ![n] = target]
      BY <2>3, <3>2
    <3> QED
      BY <3>2, <3>3, <3>4
  <2>6. outName' \in {"in", "out"} /\ outName' # Launch!asked'
    <3>1. outName = "none" => Launch!asked # "out"
      BY DEF LInv, Names, Launch!asked
    <3> QED
      BY <1>2, <1>3, <1>6, <1>8, <2>3, <3>1
  <2>7. Typed' /\ Names' /\ Descriptors' /\ Compared'
    BY <1>1, <1>2, <2>3, <2>4, <2>5, <2>6 DEF LInv, Typed, Names, Descriptors, Compared,
       Launch!prompt
  <2>8. Launch!ReadsInput'
    <3>1. Launch!Readable(fd'[0]) <=> Launch!Readable(fd[0])
      <4>1. CASE n = 0
        BY <2>2, <2>5, <4>1 DEF Launch!Readable, Launch!Fd, Launch!Closed
      <4>2. CASE n # 0
        BY <2>5, <4>2 DEF Launch!Fds
      <4> QED
        BY <4>1, <4>2
    <3>2. Launch!Readable(fd[0]) => fd'[0] = fd[0]
      <4>1. CASE n = 0
        BY <2>2, <4>1 DEF Launch!Readable, Launch!Fd, Launch!Closed
      <4>2. CASE n # 0
        BY <2>5, <4>2 DEF Launch!Fds
      <4> QED
        BY <4>1, <4>2
    <3> QED
      BY <1>1, <1>3, <1>6, <2>4, <3>1, <3>2 DEF Launch!ReadsInput, Launch!prompt
  <2>9. Launch!InputIntact'
    BY <1>3, <1>6, <1>8, <2>3 DEF Launch!InputIntact
  <2>10. Launch!OutputApart'
    <3>1. \A k \in Launch!Fds \ {n} : fd'[k] # Launch!Fd(outName', "w")
      <4>1. \A g \in Given0 \cup Given1 \cup Given2 : g # Launch!Fd(outName', "w")
        BY <2>6 DEF Given0, Given1, Given2, Launch!Fd, Launch!Closed
      <4>2. \A k \in Launch!Fds : fd[k] \in Given0 \cup Given1 \cup Given2
        BY <1>2 DEF Launch!Fds, Given0
      <4> QED
        BY <2>5, <4>1, <4>2
    <3> QED
      BY <1>5, <2>4, <2>5, <2>6, <3>1 DEF Launch!OutputApart
  <2> QED
    BY <1>4, <2>7, <2>8, <2>9, <2>10 DEF LInv
<1> QED
  BY <1>7, <1>8

\* LInv is inductive.
LEMMA LaunchInductive == Launch!Spec => []LInv
<1>1. LInv /\ [Launch!Next]_(Launch!vars) => LInv'
  <2> SUFFICES ASSUME LInv, [Launch!Next]_(Launch!vars) PROVE LInv'
    OBVIOUS
  <2>1. CASE UNCHANGED Launch!vars
    BY <2>1 DEF Launch!vars, Launch!given, Launch!prompt, LInv, Typed, Names, Descriptors,
       Compared, Answer, Launch!LineEnds, Launch!asked, Launch!ReadsInput, Launch!InputIntact,
       Launch!OutputApart, Launch!Compressing
  <2> QED
    BY <2>1, FixStderrStep, CheckSteps, DestinationStep, GetcharStep, InputSteps, OutputStep
       DEF Launch!Next
<1> QED
  BY <1>1, LaunchInit, PTL DEF Launch!Spec

\* A run compresses the input it was asked to, from its first byte, whatever
\* was typed at the prompt and whichever descriptors were closed.
THEOREM RunReadsInput == Launch!Spec => []ReadsInput
  BY LaunchInductive, PTL DEF LInv, ReadsInput

\* No run truncates its input.
THEOREM InputNeverTruncated == Launch!Spec => []InputIntact
  BY LaunchInductive, PTL DEF LInv, InputIntact

\* Nothing but the archive goes to the output.
THEOREM OutputKeptApart == Launch!Spec => []OutputApart
  BY LaunchInductive, PTL DEF LInv, OutputApart
=============================================================================
