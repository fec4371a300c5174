-------------------------------- MODULE Tar --------------------------------
(***************************************************************************)
(* What t2sz reads in a tar stream, and the helpers that read it.          *)
(*                                                                         *)
(* A stream is a sequence of blocks of TarBlock bytes followed by `tail'   *)
(* bytes, fewer than a block.  Of the 512 bytes of a block only what the   *)
(* program tells apart is kept:                                            *)
(*   kind   a null block, a header whose checksum matches, or other bytes; *)
(*   type   the type flag of a header;                                     *)
(*   size   the value of its size field;                                   *)
(*   apple  whether its name is an AppleDouble name ("._...");             *)
(*   isext  byte 482, which says that a sparse map goes on in a block;     *)
(*   more   byte 504, the same of a sparse map extension block;            *)
(*   pax    the value of a pax "size" record held in the block, or NoSize. *)
(***************************************************************************)
EXTENDS Integers, Sequences, FiniteSetsExt

CONSTANTS
  TarBlock,   \* bytes of a tar block, 512
  U64Max      \* UINT64_MAX, the largest 64-bit value

ASSUME TarAssumption ==
  /\ TarBlock \in Nat \ {0}
  /\ U64Max \in Nat
  /\ 2 * TarBlock <= U64Max

\* UINT64_MAX, the value that means "no size" and "size not known".
NoSize == U64Max

\* The type flags the program tells apart; "0" stands for every other one.
Types == {"0", "S", "x", "g", "L", "K"}

Block == [kind : {"null", "header", "other"}, type : Types, size : 0 .. U64Max,
          apple : BOOLEAN, isext : BOOLEAN, more : BOOLEAN, pax : 0 .. U64Max]

NullBlock == [kind |-> "null", type |-> "0", size |-> 0, apple |-> FALSE,
              isext |-> FALSE, more |-> FALSE, pax |-> NoSize]

Stream == [blocks : Seq(Block), tail : 0 .. TarBlock - 1]

Total(st) == Len(st.blocks) * TarBlock + st.tail

\* The block at byte `off' of the stream, a multiple of TarBlock.
BlockAt(st, off) == st.blocks[off \div TarBlock + 1]

\* A complete block starts at byte `off'.
HasBlock(st, off) == off + TarBlock <= Total(st)

isTarHeader(b) == b.kind = "header"

isZeroTarBlock(b) == b.kind = "null"

isExtensionHeader(h) == h.type \in {"x", "g", "L", "K"}

joinsNextEntry(h) == isExtensionHeader(h) \/ h.apple

hasSparseExtension(h) == h.type = "S" /\ h.isext

\* The first "size" record in the `len' bytes of pax data at byte `from'.
paxSize(st, from, len) ==
  LET found == {i \in 1 .. Len(st.blocks) :
                  /\ from <= (i - 1) * TarBlock
                  /\ (i - 1) * TarBlock < from + len
                  /\ st.blocks[i].pax # NoSize}
  IN  IF found = {} THEN NoSize ELSE st.blocks[Min(found)].pax

\* tarEntrySize() returns the size of the payload of an entry ...
tarEntrySize(h, paxNextSize) ==
  IF isExtensionHeader(h) \/ paxNextSize = NoSize THEN h.size ELSE paxNextSize

\* ... and uses up the size that a pax header before the entry gave.
PaxLeft(h, paxNextSize) ==
  IF isExtensionHeader(h) THEN paxNextSize ELSE NoSize

\* A payload of `size' bytes is padded to whole blocks.
Padded(size) ==
  IF size % TarBlock = 0 THEN size ELSE size - (size % TarBlock) + TarBlock

\* The guard that keeps Padded(size), and a header with it, within 64 bits.
TooLarge(size) == size > U64Max - 2 * TarBlock

\* Bytes of the extension blocks between the header at `off' and its payload:
\* the first one is always there, the next ones as long as a block in the
\* stream says that another follows.
SparseExt(st, off) ==
  IF ~hasSparseExtension(BlockAt(st, off)) THEN 0
  ELSE TarBlock * Min({k \in 1 .. Len(st.blocks) + 1 :
                         \/ ~HasBlock(st, off + k * TarBlock)
                         \/ ~BlockAt(st, off + k * TarBlock).more})
=============================================================================
