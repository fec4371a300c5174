------------------------------- MODULE Config -------------------------------
(***************************************************************************)
(* The inputs and the command lines of a run, and the block sizes that     *)
(* compressFile() derives from the command line before it reads anything.  *)
(***************************************************************************)
EXTENDS Tar

CONSTANTS
  MaxFrameSize,   \* MAX_FRAME_SIZE, 2 GiB - 1
  Inputs,         \* the inputs considered, a set of Streams
  Options         \* the command lines considered

\* -r, -j, -s and -S (0 when absent) as parseArgs() lets them through.
CommandLine ==
  {o \in [raw : BOOLEAN, noTable : BOOLEAN, s : Nat, S : Nat] : o.S = 0 \/ o.s <= o.S}

ASSUME ConfigAssumption ==
  /\ MaxFrameSize \in Nat \ {0}
  /\ MaxFrameSize < U64Max
  /\ \A st \in Inputs : st \in Stream
  /\ \A o \in Options : o \in CommandLine

\* compressFile() cuts every input into frames the seek table can describe;
\* -S does not apply to raw mode.
maxBlockSize(o) ==
  IF o.raw \/ o.S = 0 \/ o.S > MaxFrameSize THEN MaxFrameSize ELSE o.S

minBlockSize(o) == IF o.s > MaxFrameSize THEN MaxFrameSize ELSE o.s
=============================================================================
