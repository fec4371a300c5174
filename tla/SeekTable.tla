----------------------------- MODULE SeekTable -----------------------------
(***************************************************************************)
(* The seek table in memory and in the file: seekTableAdd(), the array     *)
(* that seekTableEnsureCap() grows, and writeSeekTable(), against a reader *)
(* of the zstd seekable format.  The frames themselves are in ZstdFrame.   *)
(***************************************************************************)
EXTENDS Integers, SequencesExt

CONSTANTS
  Base,         \* the values of a byte, 256
  SizeMax,      \* SIZE_MAX
  StartCap,     \* the first capacity, 1024
  MaxFrames,    \* 0x8000000
  Sizes,        \* the sizes considered of a frame, compressed or not
  SkipMagic,    \* ZSTD_MAGIC_SKIPPABLE_START | 0xE
  SeekMagic,    \* 0x8F92EAB1
  None          \* a model value

EntrySize == 8   \* sizeof(SeekTableEntry)

U32 == Base * Base * Base * Base

ASSUME SeekTableAssumption ==
  /\ Base \in Nat /\ Base > 1
  /\ StartCap \in Nat \ {0} /\ MaxFrames \in Nat \ {0}
  /\ SizeMax \in Nat /\ EntrySize * StartCap <= SizeMax
  /\ EntrySize * 2 * MaxFrames <= SizeMax
  /\ EntrySize * MaxFrames + 9 < U32
  /\ Sizes \subseteq 0 .. U32 - 1
  /\ SkipMagic \in 0 .. U32 - 1 /\ SeekMagic \in 0 .. U32 - 1

VARIABLES
  seekTable,   \* the slots allocated, from 0 as in C
  cap,         \* seekTableCap
  len,         \* seekTableLen
  skip,        \* skipSeekTable
  newCap,      \* the local of seekTableEnsureCap()
  entry,       \* the entry being added
  pc,          \* the next step
  disk,        \* the bytes written after the frames
  given        \* the sizes seekTableAdd() was called with, by frame (history)

vars == <<seekTable, cap, len, skip, newCap, entry, pc, disk, given>>

table == <<seekTable, cap, len>>

Entry == [compressed : Sizes, decompressed : Sizes]

Init ==
  /\ seekTable = [i \in {} |-> None]
  /\ cap = 0
  /\ len = 0
  /\ skip \in BOOLEAN
  /\ newCap = 0
  /\ entry = None
  /\ pc = "idle"
  /\ disk = <<>>
  /\ given = <<>>

----------------------------------------------------------------------------
(* seekTableAdd() and seekTableEnsureCap(). *)

\* Mutant: the limit is tested with the frames recorded, not with one more.
TooManyLate == len >= MaxFrames

TooMany == len + 1 >= MaxFrames

\* Mutant: a capacity that was never set is doubled.
startCapUnset == cap

startCap == IF cap > 0 THEN cap ELSE StartCap

\* A frame is counted; it is recorded unless there is no table, or too many
\* frames for one.  (Bound: one frame more than the table may hold.)
Add(e) ==
  /\ pc = "idle" /\ Len(given) <= MaxFrames
  /\ given' = Append(given, e)
  /\ CASE skip -> UNCHANGED <<skip, entry, newCap, pc>>
       [] ~skip /\ TooMany -> skip' = TRUE /\ UNCHANGED <<entry, newCap, pc>>
       [] ~skip /\ ~TooMany ->
            /\ entry' = e
            /\ newCap' = startCap
            /\ pc' = IF cap >= len + 1 THEN "store" ELSE "grow"
            /\ UNCHANGED skip
  /\ UNCHANGED <<table, disk>>

\* The loop that doubles the capacity, in a size_t.
Double ==
  /\ pc = "grow" /\ newCap < len + 1
  /\ newCap' = (newCap * 2) % (SizeMax + 1)
  /\ UNCHANGED <<table, skip, entry, pc, disk, given>>

\* Mutant: the size is given in entries.
slotsInEntries == newCap \div EntrySize

\* The slots in the bytes asked for.
slots == ((newCap * EntrySize) % (SizeMax + 1)) \div EntrySize

kept(i) == IF i \in DOMAIN seekTable THEN seekTable[i] ELSE None

\* realloc() gives as many slots as the size asked for holds, and keeps the
\* content of the old ones; the new ones hold anything.
Realloc ==
  /\ pc = "grow" /\ newCap >= len + 1
  /\ seekTable' = [i \in 0 .. slots - 1 |-> kept(i)]
  /\ cap' = newCap
  /\ pc' = "store"
  /\ UNCHANGED <<len, skip, newCap, entry, disk, given>>

\* "Out of memory while growing seek table".
ReallocFails ==
  /\ pc = "grow" /\ newCap >= len + 1
  /\ pc' = "failed"
  /\ UNCHANGED <<table, skip, newCap, entry, disk, given>>

Store ==
  /\ pc = "store"
  /\ seekTable' = [seekTable EXCEPT ![len] =
       [compressed |-> entry.compressed % U32, decompressed |-> entry.decompressed % U32]]
  /\ len' = len + 1
  /\ entry' = None
  /\ pc' = "idle"
  /\ UNCHANGED <<cap, skip, newCap, disk, given>>

----------------------------------------------------------------------------
(* writeSeekTable(). *)

\* Mutant: the most significant byte first.
writeBE32(v) ==
  <<(v \div (Base * Base * Base)) % Base, (v \div (Base * Base)) % Base,
    (v \div Base) % Base, v % Base>>

\* writeLE32(): the same bytes whichever way the host orders its own.
writeLE32(v) ==
  LET a == v \div Base
      b == a \div Base
      c == b \div Base
  IN  <<v % Base, a % Base, b % Base, c % Base>>

\* Number of bytes in the skippable frame, the 9 of its footer included.
frameSize == (len * EntrySize + 9) % U32

\* The fields, in the order they are written.
Fields ==
  <<writeLE32(SkipMagic), writeLE32(frameSize)>>
    \o [k \in 1 .. 2 * len |->
          LET e == seekTable[(k - 1) \div 2]
          IN  writeLE32(IF k % 2 = 1 THEN e.compressed ELSE e.decompressed)]
    \o <<writeLE32(len % U32), <<0>>, writeLE32(SeekMagic)>>

\* writeSeekTable(), called unless the table was disabled.  Each field is a
\* call of checkedFwrite(), which ends the run when it fails.
writeSeekTable ==
  /\ pc = "idle"
  /\ IF skip THEN pc' = "done" /\ UNCHANGED disk
     ELSE \/ pc' = "done" /\ disk' = FlattenSeq(Fields)
          \/ /\ pc' = "failed"
             /\ \E k \in 0 .. Len(Fields) - 1 : disk' = FlattenSeq(SubSeq(Fields, 1, k))
  /\ UNCHANGED <<table, skip, newCap, entry, given>>

Next ==
  \/ \E e \in Entry : Add(e)
  \/ Double \/ Realloc \/ ReallocFails \/ Store
  \/ writeSeekTable

Spec == Init /\ [][Next]_vars /\ WF_vars(Double \/ Realloc \/ Store)

----------------------------------------------------------------------------
(* A reader of the zstd seekable format: the footer tells how many entries *)
(* come before it, and so where the skippable frame starts.                *)

readLE32(bytes, at) ==
  bytes[at] + Base * (bytes[at + 1] + Base * (bytes[at + 2] + Base * bytes[at + 3]))

reader(bytes) ==
  LET L     == Len(bytes)
      n     == readLE32(bytes, L - 8)
      start == L - 9 - n * EntrySize - 8
      At(i) == start + 8 + (i - 1) * EntrySize
  IN  IF L < 17 THEN None
      ELSE IF /\ readLE32(bytes, L - 3) = SeekMagic
              /\ bytes[L - 4] = 0
              /\ start >= 0
              /\ readLE32(bytes, start + 1) = SkipMagic
              /\ readLE32(bytes, start + 5) = n * EntrySize + 9
           THEN [i \in 1 .. n |-> [compressed   |-> readLE32(bytes, At(i) + 1),
                                   decompressed |-> readLE32(bytes, At(i) + 5)]]
           ELSE None

Recorded == [i \in 1 .. len |-> seekTable[i - 1]]

----------------------------------------------------------------------------
TypeOK ==
  /\ DOMAIN seekTable = 0 .. cap - 1
  /\ cap \in Nat /\ len \in 0 .. cap /\ newCap \in 0 .. 2 * MaxFrames + StartCap
  /\ \A i \in 0 .. len - 1 : seekTable[i] \in Entry
  /\ skip \in BOOLEAN
  /\ entry \in Entry \cup {None}
  /\ pc \in {"idle", "grow", "store", "done", "failed"}
  /\ disk \in Seq(0 .. Base - 1)
  /\ given \in Seq(Entry)

\* Every store is to a slot that was allocated: the capacity recorded is that
\* of the array, however often it was doubled, and neither the doubling nor
\* the size given to realloc() wraps around.
StoreInBounds ==
  /\ pc = "store" => len \in DOMAIN seekTable
  /\ pc = "grow" => EntrySize * newCap <= SizeMax

\* Nothing recorded is lost or moved when the array grows: the table holds the
\* frames added, from the first one on, all of them unless it was given up.
RecordsFrames ==
  /\ len <= Len(given)
  /\ \A i \in 1 .. len : seekTable[i - 1] = given[i]
  /\ ~skip /\ pc = "idle" => len = Len(given)

\* A reader of the file finds the frames of the archive, with their sizes.
ReaderFindsFrames == pc = "done" /\ ~skip => reader(disk) = given

\* The doubling of the capacity ends.
GrowthEnds == (pc = "grow") ~> (pc # "grow")

\* The table is that of FrameIndex.
Index == INSTANCE FrameIndex WITH
  frames    <- Recorded,
  published <- IF pc = "done" THEN reader(disk) ELSE None

ImplementsIndex == Index!Spec
=============================================================================
