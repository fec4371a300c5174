------------------------------ MODULE Framing ------------------------------
(***************************************************************************)
(* What t2sz promises of the frames it cuts an input into, whichever way   *)
(* the input is read: the abstract specification that the file path        *)
(* (MmapFile) and the two standard input paths (StdinTar, StdinRaw)        *)
(* implement.                                                              *)
(*                                                                         *)
(* A frame is closed at the first of: the largest frame allowed, the end   *)
(* of an element once the frame holds the minimum, the end of the input.   *)
(* In tar mode an element is an entry with the entries that join it, or a  *)
(* run of null blocks; raw mode has no elements.                           *)
(***************************************************************************)
EXTENDS Elements

VARIABLES
  input,    \* the input, an element of Inputs
  opts,     \* the command line, an element of Options
  layout,   \* the elements of the input
  ends,     \* the end of each frame written so far, as an offset in the input
  status    \* "running", or how the run ended

given == <<input, opts, layout>>

vars == <<given, ends, status>>

----------------------------------------------------------------------------
(* Where a frame ends. *)

\* Raw mode takes any input, tar mode an archive, empty ones excepted.
WellFormed == opts.raw \/ (Total(input) > 0 /\ layout.whole)

Limit ==
  IF opts.raw /\ minBlockSize(opts) > 0 THEN minBlockSize(opts) ELSE maxBlockSize(opts)

\* Bytes of the input covered by the frames.
Covered == IF ends = <<>> THEN 0 ELSE ends[Len(ends)]

\* Where the next frame may end: the first of these is where it does.
FrameEnds ==
  {Covered + Limit}
    \cup (IF opts.raw THEN {}
          ELSE {e \in layout.ends : e > Covered /\ e >= Covered + minBlockSize(opts)})
    \cup (IF WellFormed THEN {Total(input)} ELSE {})

IsFrameEnd(e) == e \in FrameEnds /\ \A f \in FrameEnds : e <= f

----------------------------------------------------------------------------
Init ==
  /\ input \in Inputs
  /\ opts \in Options
  /\ layout = Layout(input)
  /\ ends = <<>>
  /\ status = "running"

\* The next frame is written.
Emit ==
  /\ status = "running"
  /\ Covered < Total(input)
  /\ \E e \in FrameEnds :
       /\ IsFrameEnd(e) /\ e <= Total(input)
       /\ ends' = Append(ends, e)
  /\ UNCHANGED <<given, status>>

\* The whole input is in the frames.
Finish ==
  /\ status = "running"
  /\ WellFormed
  /\ Covered = Total(input)
  /\ status' = "ok"
  /\ UNCHANGED <<given, ends>>

\* An input that is no tar archive, or a truncated one, is refused.
Reject ==
  /\ status = "running"
  /\ ~WellFormed
  /\ status' = "failed"
  /\ UNCHANGED <<given, ends>>

\* Reading the input or writing the output may fail at any time.
IOError ==
  /\ status = "running"
  /\ status' = "ioError"
  /\ UNCHANGED <<given, ends>>

Next == Emit \/ Finish \/ Reject \/ IOError

\* A run ends: nothing but its own steps delays it.
Spec == Init /\ [][Next]_vars /\ WF_vars(Emit \/ Finish \/ Reject)

----------------------------------------------------------------------------
(* What this means to who uses t2sz. *)

\* The size of the i-th frame.
FrameSize(i) == ends[i] - (IF i = 1 THEN 0 ELSE ends[i - 1])

\* A run that succeeds has every byte of the input in its frames, none of
\* which is empty or larger than allowed: the archive decompresses to the
\* input and the seek table can describe it (README: "No block is larger than
\* 2 GiB - 1 byte, the most the seek table describes").
Lossless ==
  /\ \A i \in 1 .. Len(ends) : FrameSize(i) \in 1 .. Limit
  /\ status = "ok" => Covered = Total(input)

\* With -s equal to -S, and in raw mode with -s, every frame but the last of
\* the input has exactly that size (usage(): "If -S and -s are equal the input
\* block will be of exactly that size, if there is enough input data").
ExactBlocks ==
  minBlockSize(opts) = Limit =>
    \A i \in 1 .. Len(ends) : ends[i] < Total(input) => FrameSize(i) = Limit

\* A frame ends inside an element only because it is as large as allowed: an
\* entry is not split without -S, and an extended header, or an AppleDouble
\* file, stays with the entry it describes (usage(): "A file is never split
\* unless -S is used").
SplitOnlyAtLimit ==
  \A i \in 1 .. Len(ends) :
    ends[i] \notin layout.ends \cup {Total(input)} => FrameSize(i) = Limit
=============================================================================
