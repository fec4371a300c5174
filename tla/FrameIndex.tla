----------------------------- MODULE FrameIndex -----------------------------
(***************************************************************************)
(* What t2sz promises of its seek table: the frames written, in order, and *)
(* nothing else, or no table at all.                                       *)
(***************************************************************************)
EXTENDS Naturals, Sequences

CONSTANTS
  Sizes,       \* the sizes a frame may have, compressed or not
  MaxFrames,   \* frames the seekable format cannot describe
  None         \* what a reader finds where there is no table

VARIABLES
  frames,      \* the frames recorded
  skip,        \* no table will be written
  published    \* what a reader of the archive finds

vars == <<frames, skip, published>>

Entry == [compressed : Sizes, decompressed : Sizes]

Init == frames = <<>> /\ skip \in BOOLEAN /\ published = None

Add ==
  /\ published = None /\ ~skip
  /\ \E e \in Entry : frames' = Append(frames, e)
  /\ UNCHANGED <<skip, published>>

\* The table is given up: only when the format cannot describe it.
GiveUp ==
  /\ ~skip /\ Len(frames) + 1 = MaxFrames
  /\ skip' = TRUE
  /\ UNCHANGED <<frames, published>>

Publish ==
  /\ published = None /\ ~skip
  /\ published' = frames
  /\ UNCHANGED <<frames, skip>>

Spec == Init /\ [][Add \/ GiveUp \/ Publish]_vars
=============================================================================
