------------------------------ MODULE Elements ------------------------------
(***************************************************************************)
(* The elements a tar archive is cut at: an entry with the entries that    *)
(* join it, or a run of null blocks.  This is the layout of an archive     *)
(* stated on its own, without reads, buffers or frames.                    *)
(***************************************************************************)
EXTENDS Config

\* The sizes of files and pipes are 63 bits wide (off_t): no byte of an input,
\* nor the end of the block after it, is out of the reach of a size_t.
ASSUME InputsAssumption == \A st \in Inputs : Total(st) + TarBlock <= U64Max

\* Where the entry at `off' ends, when `paxNextSize' is the size given to it.
EntryEnd(st, off, paxNextSize) ==
  off + TarBlock + SparseExt(st, off)
      + Padded(tarEntrySize(BlockAt(st, off), paxNextSize))

\* Whether the block at `off' starts an entry that the stream holds whole.
IsWholeEntry(st, off, paxNextSize) ==
  /\ isTarHeader(BlockAt(st, off))
  /\ ~TooLarge(tarEntrySize(BlockAt(st, off), paxNextSize))
  /\ EntryEnd(st, off, paxNextSize) <= Total(st)

IsNullBlock(st, off) == HasBlock(st, off) /\ isZeroTarBlock(BlockAt(st, off))

\* The size that an entry at `off' leaves for the next one.
PaxNext(st, off, paxNextSize) ==
  LET h == BlockAt(st, off)
  IN  IF h.type = "x" THEN paxSize(st, off + TarBlock, h.size)
      ELSE PaxLeft(h, paxNextSize)

\* The places a parser may be at: a byte, and the size for the next entry.
Places(st) == (0 .. Total(st)) \X (0 .. U64Max)

\* An element that ends at `end', unless it joins the next one, before `rest'.
WithEnd(rest, join, end) ==
  IF join THEN rest ELSE [rest EXCEPT !.ends = @ \cup {end}]

\* The stream from byte `off' on, given what it is from later bytes on.
LayoutAt(rest, st, off, pax) ==
  LET none == [whole |-> FALSE, ends |-> {}]
  IN  IF off = Total(st) THEN [whole |-> TRUE, ends |-> {}]
      ELSE IF ~HasBlock(st, off) THEN none
      ELSE IF IsNullBlock(st, off)
      THEN LET end == off + TarBlock
           IN  WithEnd(rest[<<end, pax>>], IsNullBlock(st, end), end)
      ELSE IF ~IsWholeEntry(st, off, pax) THEN none
      ELSE LET end == EntryEnd(st, off, pax)
           IN  WithEnd(rest[<<end, PaxNext(st, off, pax)>>],
                       joinsNextEntry(BlockAt(st, off)), end)

\* Of the stream from each place: whether it is made of whole entries and null
\* blocks (`whole'), and where its elements end up to the first thing that is
\* neither (`ends').
Rest(st) ==
  LET rest[p \in Places(st)] == LayoutAt(rest, st, p[1], p[2]) IN rest

Layout(st) == Rest(st)[<<0, NoSize>>]
=============================================================================
