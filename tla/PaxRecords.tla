----------------------------- MODULE PaxRecords -----------------------------
(***************************************************************************)
(* paxSize(): the search of the size in the data of a pax extended header, *)
(* a list of "<length> <key>=<value>\n" records.  The other modules take   *)
(* the value of the record as given; here it is found byte by byte.        *)
(*                                                                         *)
(* A byte is a digit, a number below Radix, or one of four characters.  Of *)
(* " size=" two characters are kept.  Numbers are in base Radix where the  *)
(* program has base 10.                                                    *)
(***************************************************************************)
EXTENDS Integers, SequencesExt, FiniteSetsExt

CONSTANTS
  Radix,      \* the base of the numbers, 10
  U64Max,     \* UINT64_MAX
  SizeMax,    \* SIZE_MAX
  MaxData,    \* bound: bytes of any data
  MaxDigits   \* bound: digits of the value of a well-formed record

\* What the model assumes of the constants.
ConstantsFit ==
  /\ Radix \in Nat \ {0, 1} /\ U64Max \in Nat /\ U64Max >= Radix
  /\ SizeMax \in Nat /\ Radix * (MaxData + 1) <= SizeMax
  /\ MaxData \in Nat /\ MaxDigits \in Nat
  /\ MaxDigits + 7 < Radix * Radix * Radix * Radix  \* lengths have at most four digits
  /\ 2 * (MaxDigits + 7) <= SizeMax                 \* a list of records fits in memory

DigitBytes == 0 .. Radix - 1

Space == Radix

Key == <<Space, Radix + 1>>     \* " size="

OtherKey == <<Space, Radix + 2>>

Newline == Radix + 3

----------------------------------------------------------------------------
(* The data considered: any bytes, and well-formed lists of records, for   *)
(* which what paxSize() should return is plain.                            *)

\* The number that a sequence of digits stands for.
Number(ds) ==
  LET value[k \in 0 .. Len(ds)] == IF k = 0 THEN 0 ELSE value[k - 1] * Radix + ds[k]
  IN  value[Len(ds)]

Text(n) ==
  CHOOSE ds \in BoundedSeq(DigitBytes, 4) :
    Number(ds) = n /\ ds # <<>> /\ (ds[1] = 0 => Len(ds) = 1)

\* A record of a key and a value: its length counts the digits of itself.
Record(key, value) ==
  LET rest == key \o value \o <<Newline>>
      n    == Min({k \in 1 .. Len(rest) + 5 : k = Len(Text(k)) + Len(rest)})
  IN  Text(n) \o rest

Values == UNION {[1 .. n -> DigitBytes] : n \in 1 .. MaxDigits}

Records == {[key |-> k, value |-> v] : k \in {Key, OtherKey}, v \in Values}

Lists == {<<r>> : r \in Records} \cup {<<[key |-> OtherKey, value |-> <<0>>], r>> : r \in Records}

Encoded(rs) == FlattenSeq([i \in DOMAIN rs |-> Record(rs[i].key, rs[i].value)])

\* What a list of records says of the size.
NoSize == U64Max

Sized(rs) == {i \in DOMAIN rs : rs[i].key = Key}

Said(rs) == Number(rs[Min(Sized(rs))].value)

----------------------------------------------------------------------------
VARIABLES
  data,      \* the data of the header
  records,   \* the records it was made of, or <<>> when it is any bytes
  pos, recLen, i, size,   \* the locals of paxSize()
  pc,        \* the next step
  result     \* what it returns

vars == <<data, records, pos, recLen, i, size, pc, result>>

Start == pos = 0 /\ recLen = 0 /\ i = 0 /\ size = 0 /\ result = 0

Init ==
  /\ \/ records = <<>> /\ data \in BoundedSeq(DigitBytes \cup {Key[1], Key[2]}, MaxData)
     \/ records \in Lists /\ data = Encoded(records)
  /\ Start
  /\ pc = "record"

\* No call of paxSize().
Idle == records = <<>> /\ data = <<>> /\ Start /\ pc = "done"

len == Len(data)

ByteAt(at) == data[at + 1]

IsDigit(at) == at < len /\ ByteAt(at) \in DigitBytes

Return(value) == pc' = "done" /\ result' = value

\* while(pos < len): the next record, or none.
NextRecord ==
  /\ pc = "record"
  /\ IF pos < len
     THEN recLen' = 0 /\ i' = pos /\ pc' = "length" /\ UNCHANGED result
     ELSE Return(NoSize) /\ UNCHANGED <<recLen, i>>
  /\ UNCHANGED <<data, records, pos, size>>

\* Its length, which is read no further than a number larger than the data.
LengthDigit ==
  /\ pc = "length" /\ IsDigit(i) /\ recLen <= len
  /\ recLen' = (recLen * Radix + ByteAt(i)) % (SizeMax + 1)
  /\ i' = i + 1
  /\ UNCHANGED <<data, records, pos, size, pc, result>>

LengthEnds == pc = "length" /\ ~(IsDigit(i) /\ recLen <= len)

Malformed == recLen = 0 \/ recLen > len - pos

RejectRecord ==
  /\ LengthEnds /\ Malformed
  /\ Return(NoSize)
  /\ UNCHANGED <<data, records, pos, recLen, i, size>>

\* pos + recLen - i > 6, in unsigned arithmetic: a length with more digits than
\* its value makes the difference wrap around.
HasRoom == (pos + recLen - i) % (SizeMax + 1) > Len(Key)

\* The bytes compared with " size=" may lie past the data when it wraps: they
\* are then anything.
KeyMatches ==
  IF i + Len(Key) <= len THEN {SubSeq(data, i + 1, i + Len(Key)) = Key} ELSE BOOLEAN

\* Mutant: the search goes on from the start of the data, not of the record.
SkippedFromStart == recLen

Skipped == pos + recLen

SkipRecord ==
  /\ LengthEnds /\ ~Malformed
  /\ ~HasRoom \/ FALSE \in KeyMatches
  /\ pos' = Skipped
  /\ pc' = "record"
  /\ UNCHANGED <<data, records, recLen, i, size, result>>

FoundKey ==
  /\ LengthEnds /\ ~Malformed
  /\ HasRoom /\ TRUE \in KeyMatches
  /\ i' = i + Len(Key)
  /\ size' = 0
  /\ pc' = "value"
  /\ UNCHANGED <<data, records, pos, recLen, result>>

InValue == i < pos + recLen /\ IsDigit(i)

\* Mutant: the test leaves no room for the digit.
TooLargeTight == size > U64Max \div Radix

\* The number, with one more digit, would not fit in 64 bits.
TooLarge == size > (U64Max - (Radix - 1)) \div Radix

ValueDigit ==
  /\ pc = "value" /\ InValue
  /\ IF TooLarge
     THEN Return(NoSize) /\ UNCHANGED <<i, size>>
     ELSE /\ size' = (size * Radix + ByteAt(i)) % (U64Max + 1) /\ i' = i + 1
          /\ UNCHANGED <<pc, result>>
  /\ UNCHANGED <<data, records, pos, recLen>>

ValueEnds ==
  /\ pc = "value" /\ ~InValue
  /\ Return(size)
  /\ UNCHANGED <<data, records, pos, recLen, i, size>>

Next ==
  \/ NextRecord \/ LengthDigit \/ RejectRecord \/ SkipRecord \/ FoundKey
  \/ ValueDigit \/ ValueEnds

Spec == Init /\ [][Next]_vars
----------------------------------------------------------------------------
\* In a well-formed list the first size record is found, wherever it is, and
\* its number returned exactly, up to the last digit that fits; a number that
\* does not fit in 64 bits is never taken for a smaller one.
FindsSize ==
  pc = "done" /\ records # <<>> =>
    IF Sized(records) = {} THEN result = NoSize
    ELSE /\ Said(records) > U64Max => result = NoSize
         /\ Said(records) <= U64Max - Radix => result = Said(records)
         /\ result \in {Said(records), NoSize}

\* The search ends on any data, however its lengths and its values lie about
\* what follows them.
Termination == <>(pc = "done")
=============================================================================
