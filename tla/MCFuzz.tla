------------------------------- MODULE MCFuzz -------------------------------
(***************************************************************************)
(* The instances of FuzzTar and of FuzzCli that TLC checks, side by side:  *)
(* a process runs one harness or the other.                                *)
(***************************************************************************)
EXTENDS FuzzCli

CONSTANTS MaxBlocks, MaxFrames

VARIABLES harness, blocks, pc, live, context, set, std, jumped, frames, unwritten, twice, cause

tarVars ==
  <<harness, blocks, pc, live, context, set, std, jumped, frames, unwritten, twice, cause>>

Tar == INSTANCE FuzzTar WITH ctx <- context

ASSUME FuzzTarAssumption == Tar!ConstantsFit

----------------------------------------------------------------------------
(* Inputs of the harness of parseArgs(). *)

Option(letter) == <<Minus, Text(letter)>>

Sizes ==
  {<<Number(n)>> : n \in {0, 1, 3, 300, 600}}
    \cup {<<Number(n), Text(t)>> : n \in {3, 5, 300}, t \in {"k", "KB", "GiB", "MB", "x"}}
    \cup {<<Minus, Number(3)>>, <<Space, Number(3)>>, <<Text("k")>>}

Others ==
  {Option("r"), Option("r") \o <<Text("s"), Number(3), Text("k")>>,
   Option("l") \o <<Number(3)>>, Option("l") \o <<Number(300)>>,
   Option("T") \o <<Minus, Number(3)>>, Option("j") \o <<Text("o"), Minus>>}

Options == {Option(l) \o a : l \in {"s", "S"}, a \in Sizes} \cup Others

Files == {<<Text("a"), Text(".TAR")>>, <<Text("a")>>, <<Minus>>}

\* Two options and an operand before or after them, or too many or no operands.
Lines ==
  LET all == Options \cup Files
  IN  (Files \X all \X all) \cup (all \X all \X (Files \cup Others))

\* Words that leave getopt() inside a cluster of options, or without an argument.
Words ==
  {Option("r") \o <<Text("l")>>, Option("h") \o <<Text("j")>>, Option("s"),
   <<Minus, Minus>>, Option("z") \o <<Text("r")>>, <<Text("a"), Text(".tar")>>}

\* An input of up to two words, or of too many.
Input ==
  [strings : (BoundedSeq(Words, 2) \ {<<>>}) \cup {[k \in 1 .. MaxArgc |-> <<Text("a")>>]},
   ended : BOOLEAN]

\* No input, one command line, or an input, any other one and the first again.
MCBatches ==
  {<<>>} \cup {<<[strings |-> l, ended |-> TRUE]>> : l \in Lines}
    \cup {<<a, b, a>> : a \in Input, b \in Input}

----------------------------------------------------------------------------
\* One of the two has nothing to do.
MCInit == Tar!Init /\ CliStart(IF pc = "done" THEN Batches ELSE {<<>>})

MCNext ==
  \/ CliNext /\ UNCHANGED tarVars
  \/ Tar!Next /\ UNCHANGED <<vars, cliVars>>

MCSpec == MCInit /\ [][MCNext]_<<vars, cliVars, tarVars>>

\* The harness and the run free all they allocate, once (see FuzzTar).
FreedOnce == Tar!FreedOnce

\* The oracle reads the archive once it is flushed (see FuzzTar).
OracleSeesOutput == Tar!OracleSeesOutput
=============================================================================
