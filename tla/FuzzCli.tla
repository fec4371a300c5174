------------------------------ MODULE FuzzCli ------------------------------
(***************************************************************************)
(* The harness that calls parseArgs() many times in one process: it splits *)
(* each input into words, and resets what getopt() keeps between calls.    *)
(***************************************************************************)
EXTENDS CommandLine

CONSTANTS
  Batches,   \* sequences of inputs: strings, each ended by '\0' but perhaps the last
  MaxArgc    \* 64

ASSUME FuzzCliAssumption ==
  /\ Batches \subseteq Seq([strings : Seq(Seq(Token)), ended : BOOLEAN])
  /\ MaxArgc \in Nat

VARIABLES
  inputs,   \* the inputs given to the harness, one after the other
  turn,     \* the one that the harness runs
  results   \* what parseArgs() did with the inputs so far

cliVars == <<inputs, turn, results>>

\* The harness starts on one of `batches'.
CliStart(batches) ==
  /\ inputs \in batches
  /\ turn = 0
  /\ results = <<>>
  /\ status = "idle"
  /\ Start(<<>>)

input == inputs[turn + 1]

\* The strings are counted by their '\0', so that a last one without is none.
argc == 1 + Len(input.strings) - (IF input.ended THEN 0 ELSE 1)

\* No more than MaxArgc words, the program's name included.
WithinArgc == argc <= MaxArgc

\* Mutant: as a program does that calls getopt() again.
ResetGetoptIndex == optind' = 1 /\ operands' = <<>> /\ UNCHANGED cluster

\* optind = 0 also takes getopt() out of a word that it left half read.
ResetGetopt == optind' = 1 /\ operands' = <<>> /\ cluster' = <<>>

Split ==
  /\ status = "idle" /\ turn < Len(inputs) /\ WithinArgc
  /\ line' = SubSeq(input.strings, 1, argc - 1)
  /\ ResetGetopt
  /\ ctx' = newContext /\ returned' = <<>>
  /\ status' = "parsing"
  /\ UNCHANGED cliVars

\* More than 64 strings: return 0.
TooMany ==
  /\ status = "idle" /\ turn < Len(inputs) /\ ~WithinArgc
  /\ turn' = turn + 1
  /\ results' = Append(results, <<"skipped", newContext>>)
  /\ UNCHANGED <<inputs, vars>>

Parse == Next /\ UNCHANGED cliVars

\* parseArgs() returned, or exit() jumped back.
Return ==
  /\ status \notin {"idle", "parsing"}
  /\ results' = Append(results, <<status, ctx>>)
  /\ turn' = turn + 1
  /\ status' = "idle"
  /\ UNCHANGED <<inputs, line, getoptState, ctx, returned>>

CliNext == Split \/ TooMany \/ Parse \/ Return

CliSpec == CliStart(Batches) /\ [][CliNext]_<<vars, cliVars>>
----------------------------------------------------------------------------
\* An input gives the same result whatever was parsed before it: nothing of the
\* state of getopt() is left from one call of parseArgs() to the next.
ParsedAfresh ==
  \A i, j \in DOMAIN results : i < j /\ inputs[i] = inputs[j] => results[i] = results[j]
=============================================================================
