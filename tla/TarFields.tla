----------------------------- MODULE TarFields -----------------------------
(***************************************************************************)
(* The numbers in a tar header: checksum(), isTarHeader(), parseTarSize(), *)
(* and the mutator of the tar harnesses, which writes the checksum of      *)
(* every block of its input.  The other modules take these fields as read. *)
(*                                                                         *)
(* A byte is a number below Byte.  Octal becomes base Radix, base-256 base *)
(* Byte, and a header its size field and its checksum field.               *)
(***************************************************************************)
EXTENDS Integers, SequencesExt, FiniteSetsExt

CONSTANTS
  Radix,    \* 8
  Byte,     \* 256
  Digits,   \* octal digits that snprintf("%06o") writes, 6
  Samples,  \* bytes considered
  MaxBlocks \* bound: blocks of the input of a mutator

NUL == 0

Space == 1

Digit(d) == 2 + d

Minus == Radix + 2

TopBit == Byte \div 2

\* Bytes of the size field: the first, those above a 64-bit number, and two
\* where the header has eight; of the checksum field.
SizeWidth == 4

ChecksumWidth == Digits + 2

U64Max == Byte * Byte - 1

\* The numbers that `n' digits can write.
Power(base, n) ==
  LET power[k \in 0 .. n] == IF k = 0 THEN 1 ELSE power[k - 1] * base
  IN  power[n]

\* The characters are below TopBit, as those of ASCII.
ASSUME TarFieldsAssumption ==
  /\ Radix \in Nat \ {0, 1} /\ Byte \in Nat /\ Minus < TopBit
  /\ Power(Radix, SizeWidth) <= U64Max
  /\ SizeWidth * (Byte - 1) + ChecksumWidth < Power(Radix, Digits)
  /\ Samples \subseteq 0 .. Byte - 1
  /\ {Digits, MaxBlocks} \subseteq Nat

----------------------------------------------------------------------------
(* Reading. *)

\* The number in base `base' of a sequence of digits.
ValueOf(ds, base) ==
  LET value[k \in 0 .. Len(ds)] == IF k = 0 THEN 0 ELSE value[k - 1] * base + ds[k]
  IN  value[Len(ds)]

IsDigit(byte) == byte \in {Digit(d) : d \in 0 .. Radix - 1}

\* strtoul() and strtoull(): spaces, a sign, and digits up to the first byte
\* that is none.
strtoul(field) ==
  LET text   == Append(field, NUL)
      first  == Min({k \in DOMAIN text : text[k] # Space})
      from   == IF text[first] = Minus THEN first + 1 ELSE first
      to     == Min({k \in from .. Len(text) : ~IsDigit(text[k])})
      number == ValueOf([k \in 1 .. to - from |-> text[from + k - 1] - Digit(0)], Radix)
  IN  IF text[first] = Minus THEN (-number) % (U64Max + 1) ELSE number

Sum(field) == ValueOf(field, 1)

\* The checksum field counts as spaces.
checksum(h) == Sum(h.size) + ChecksumWidth * Space

\* Mutant: the digits of a POSIX checksum only.
isTarHeaderSix(h) == checksum(h) = strtoul(SubSeq(h.chksum, 1, Digits))

isTarHeader(h) == checksum(h) = strtoul(h.chksum)

\* Mutant: the bytes above a 64-bit number are not looked at.
parseTarSizeAny(field) ==
  IF field[1] < TopBit THEN strtoul(field)
  ELSE ValueOf(SubSeq(field, 3, SizeWidth), Byte)

parseTarSize(field) ==
  IF field[1] < TopBit THEN strtoul(field)
  ELSE IF field[1] # TopBit \/ field[2] # 0 THEN U64Max
  ELSE ValueOf(SubSeq(field, 3, SizeWidth), Byte)

----------------------------------------------------------------------------
(* Writing: what other programs write, and the mutator. *)

\* `n' in `width' digits.
InDigits(n, width, base) == [k \in 1 .. width |-> (n \div Power(base, width - k)) % base]

Octal(n, width) == [k \in 1 .. width |-> Digit(InDigits(n, width, Radix)[k])]

SizeFormats == {"NUL", "space", "full", "padded", "base-256", "negative", "wide"}

\* A size field, and the size that it stands for.
Encoded(format, n) ==
  CASE format = "NUL"      -> Append(Octal(n, SizeWidth - 1), NUL)
    [] format = "space"    -> Append(Octal(n, SizeWidth - 1), Space)
    [] format = "full"     -> Octal(n, SizeWidth)
    [] format = "padded"   -> <<Space>> \o Octal(n, SizeWidth - 2) \o <<Space>>
    [] format = "base-256" -> <<TopBit, 0>> \o InDigits(n, 2, Byte)
    [] format = "negative" -> <<Byte - 1, Byte - 1>> \o InDigits(n, 2, Byte)
    [] format = "wide"     -> <<TopBit, 1>> \o InDigits(n, 2, Byte)

Largest(format) ==
  CASE format \in {"NUL", "space"} -> Power(Radix, SizeWidth - 1) - 1
    [] format = "full"             -> Power(Radix, SizeWidth) - 1
    [] format = "padded"           -> Power(Radix, SizeWidth - 2) - 1
    [] OTHER                       -> U64Max

Meant(format, n) == IF format \in {"negative", "wide"} THEN U64Max ELSE n

\* POSIX: digits, a NUL and a space; git archive: digits and a NUL.
Posix(n) == Octal(n, Digits) \o <<NUL, Space>>

Git(n) == Octal(n, Digits + 1) \o <<NUL>>

fix_tar_checksum(h) == [h EXCEPT !.chksum = Posix(checksum(h))]

----------------------------------------------------------------------------
VARIABLES
  blocks,  \* the complete blocks of an input of the mutator
  first,   \* the input before it
  off,     \* the block it is at
  meant    \* the size that the first block was written for, or -1

vars == <<blocks, first, off, meant>>

Null == [k \in 1 .. SizeWidth |-> NUL]

Field(byte) == [k \in 1 .. ChecksumWidth |-> byte]

\* A header with a size, or an input for the mutator.
Init ==
  /\ \/ \E format \in SizeFormats : \E n \in 0 .. Largest(format) :
          /\ blocks = <<[size |-> Encoded(format, n), chksum |-> Field(NUL)]>>
          /\ meant = Meant(format, n)
     \/ /\ LET any == [size : [1 .. SizeWidth -> Samples], chksum : {Field(NUL), Field(Byte - 1)}]
            IN  blocks \in UNION {[1 .. n -> any] : n \in 1 .. MaxBlocks}
        /\ meant = -1
  /\ first = blocks
  /\ off = 0

isZero(h) == Sum(h.size) + Sum(h.chksum) = 0

\* Mutant: as a parser that looks at one byte.
FixBlockFirstByte ==
  /\ off < Len(blocks)
  /\ blocks' = IF blocks[off + 1].size[1] = NUL THEN blocks
               ELSE [blocks EXCEPT ![off + 1] = fix_tar_checksum(@)]
  /\ off' = off + 1
  /\ UNCHANGED <<first, meant>>

\* LLVMFuzzerCustomMutator() writes the checksum of every block but null ones.
FixBlock ==
  /\ off < Len(blocks)
  /\ blocks' = IF isZero(blocks[off + 1]) THEN blocks
               ELSE [blocks EXCEPT ![off + 1] = fix_tar_checksum(@)]
  /\ off' = off + 1
  /\ UNCHANGED <<first, meant>>

Next == FixBlock

Spec == Init /\ [][Next]_vars
----------------------------------------------------------------------------
\* A size is read as it was written, in every way that tar programs write it,
\* with and without a byte to end it; one that does not fit in 64 bits, or is
\* negative, is never taken for a size.
SizeRead == meant # -1 => parseTarSize(blocks[1].size) = meant

\* A header is taken with its checksum in the format of POSIX and in that of
\* git archive, and not with any other checksum.
ChecksumFormats ==
  off = 0 /\ meant # -1 =>
    \A n \in 0 .. Power(Radix, Digits) - 1 : \A chksum \in {Posix(n), Git(n)} :
      LET h == [blocks[1] EXCEPT !.chksum = chksum]
      IN  isTarHeader(h) <=> n = checksum(h)

\* The parser gets past every block of a mutated input: it is null or a header
\* with the right checksum, whatever its bytes; and only checksums changed.
MutatedAccepted ==
  off = Len(blocks) =>
    \A k \in DOMAIN blocks :
      /\ isZero(blocks[k]) \/ isTarHeader(blocks[k])
      /\ blocks[k].size = first[k].size
      /\ isZero(first[k]) => blocks[k] = first[k]
=============================================================================
