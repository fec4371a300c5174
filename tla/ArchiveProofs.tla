--------------------------- MODULE ArchiveProofs ---------------------------
(***************************************************************************)
(* Theorems about what an archive holds: about SeekTable, for every number *)
(* of frames, first capacity and width of size_t that the assumptions      *)
(* allow (the program's own 0x8000000, 1024 and 64 bits are far out of     *)
(* TLC's reach); about ZstdFrame, for every size of the frames and of the  *)
(* output buffer and every way in which libzstd takes its input and gives  *)
(* its output; and about the two together.                                 *)
(***************************************************************************)
EXTENDS Archive, SequenceTheorems, WellFoundedInduction, TLAPS

(***************************************************************************)
(* SeekTable.                                                              *)
(***************************************************************************)


(***************************************************************************)
(* The inductive invariant.                                                *)
(***************************************************************************)

Shape ==
  /\ cap \in Nat /\ len \in Nat /\ newCap \in Nat /\ skip \in BOOLEAN
  /\ given \in Seq(Entry)
  /\ DOMAIN seekTable = 0 .. cap - 1
  /\ len <= cap /\ len < MaxFrames

\* While the array grows it is full, and the new capacity is the first one, or
\* less than twice the frames that a table can hold.
Growing ==
  /\ pc = "grow" =>
       /\ cap < len + 1
       /\ newCap <= StartCap \/ newCap <= 2 * MaxFrames
  /\ pc = "store" => len < cap
  /\ pc \in {"grow", "store"} => len + 1 < MaxFrames

\* The entry being added is the last one given; those before it are recorded.
Pending ==
  /\ pc \in {"grow", "store"} =>
       /\ ~skip /\ entry \in Entry
       /\ Len(given) = len + 1 /\ given[len + 1] = entry
  /\ RecordsFrames

Recording == Shape /\ Growing /\ Pending

\* The bytes on disk, once all of them are there, are those of what was recorded.
OnDisk ==
  /\ pc \in {"idle", "grow", "store"} => disk = <<>>
  /\ pc = "done" => IF skip THEN disk = <<>>
                    ELSE reader(disk) = Recorded /\ len = Len(given)

IInv == Recording /\ OnDisk

(***************************************************************************)
(* Facts about numbers.                                                    *)
(***************************************************************************)

\* A remainder is below the divisor.
LEMMA ModFacts ==
  ASSUME NEW a \in Nat, NEW b \in Nat \ {0}
  PROVE  a % b \in 0 .. b - 1 /\ (a < b => a % b = a)
  OBVIOUS

\* A number of entries whose bytes fit in a size_t is not cut.
LEMMA SlotsFit ==
  ASSUME NEW n \in Nat, NEW m \in Nat, 8 * n <= m
  PROVE  ((n * 8) % (m + 1)) \div 8 = n
<1>1. n * 8 \in Nat /\ m + 1 \in Nat \ {0} /\ n * 8 < m + 1
  OBVIOUS
<1>2. (n * 8) % (m + 1) = n * 8
  BY <1>1, ModFacts
<1>3. (n * 8) \div 8 = n
  OBVIOUS
<1> QED
  BY <1>2, <1>3

\* The assumptions on the constants, as numbers.
LEMMA Numbers ==
  /\ U32 \in Nat \ {0} /\ StartCap \in Nat \ {0} /\ MaxFrames \in Nat \ {0}
  /\ SizeMax \in Nat /\ 8 * StartCap <= SizeMax /\ 16 * MaxFrames <= SizeMax
<1>1. U32 \in Nat \ {0}
  <2>1. Base \in Nat /\ Base > 1
    BY SeekTableAssumption
  <2>2. \A a, b \in Nat : a > 0 /\ b > 0 => a * b \in Nat /\ a * b > 0
    OBVIOUS
  <2>3. Base * Base \in Nat /\ Base * Base > 0
    BY <2>1, <2>2
  <2>4. Base * Base * Base \in Nat /\ Base * Base * Base > 0
    BY <2>1, <2>2, <2>3
  <2>5. Base * Base * Base * Base \in Nat /\ Base * Base * Base * Base > 0
    BY <2>1, <2>2, <2>4
  <2> QED
    BY <2>5 DEF U32
<1>2. EntrySize * 2 * MaxFrames = 16 * MaxFrames
  BY SeekTableAssumption DEF EntrySize
<1> QED
  BY <1>1, <1>2, SeekTableAssumption DEF EntrySize

\* The fields of an entry keep the 32 bits that a frame's size has.
LEMMA EntryKept ==
  ASSUME NEW e \in Entry
  PROVE  [compressed |-> e.compressed % U32, decompressed |-> e.decompressed % U32] = e
<1>1. e.compressed \in Sizes /\ e.decompressed \in Sizes
      /\ e = [compressed |-> e.compressed, decompressed |-> e.decompressed]
  BY DEF Entry
<1>2. \A x \in Sizes : x \in Nat /\ x < U32
  BY Numbers, SeekTableAssumption
<1>3. e.compressed % U32 = e.compressed /\ e.decompressed % U32 = e.decompressed
  BY <1>1, <1>2, ModFacts, Numbers
<1> QED
  BY <1>1, <1>3, Zenon

(***************************************************************************)
(* The bytes of the table, and what a reader makes of them.                *)
(***************************************************************************)

\* Induction over the naturals, for a set.
LEMMA SetInduction ==
  ASSUME NEW S, 0 \in S, \A n \in Nat : n \in S => n + 1 \in S
  PROVE  Nat \subseteq S
<1>1. SUFFICES ASSUME Nat \ S # {} PROVE FALSE
  OBVIOUS
<1>2. PICK x \in Nat \ S : \A y \in Nat \ S : ~(<<y, x>> \in OpToRel(<, Nat))
  BY <1>1, NatLessThanWellFounded, WFMin
<1>3. x \in Nat /\ x # 0 /\ x \notin S
  OBVIOUS
<1> DEFINE y == x - 1
<1>7. y \in Nat /\ y < x /\ y + 1 = x
  BY <1>3
<1> HIDE DEF y
<1>4. <<y, x>> \in OpToRel(<, Nat)
  BY <1>3, <1>7 DEF OpToRel
<1>5. y \in S
  BY <1>2, <1>4, <1>7
<1> QED
  BY <1>3, <1>5, <1>7

\* What FlattenSeq() computes: the concatenations of the first sequences.
Joins(f, s) ==
  f = [i \in 1 .. Len(s) |-> IF i = 1 THEN s[i] ELSE f[i - 1] \o s[i]]

\* FlattenSeq() is the last value of a recursive function, which exists.
LEMMA FlattenDef ==
  ASSUME NEW s, Len(s) \in Nat, Len(s) # 0
  PROVE  \E f : Joins(f, s) /\ FlattenSeq(s) = f[Len(s)]
<1> DEFINE N == Len(s)
           Body(f, i) == IF i = 1 THEN s[i] ELSE f[i - 1] \o s[i]
           S == {n \in Nat : \E g : \A i \in 1 .. n : g[i] = Body(g, i)}
<1>1. 0 \in S
  OBVIOUS
<1>2. ASSUME NEW n \in Nat, n \in S PROVE n + 1 \in S
  <2>1. PICK g : \A i \in 1 .. n : g[i] = Body(g, i)
    BY <1>2
  <2> DEFINE h == [i \in 1 .. n + 1 |-> IF i = n + 1 THEN Body(g, i) ELSE g[i]]
  <2>2. \A i \in 1 .. n : h[i] = g[i]
    OBVIOUS
  <2>3. h[n + 1] = Body(g, n + 1)
    OBVIOUS
  <2>4. ASSUME NEW i \in 1 .. n + 1 PROVE Body(h, i) = Body(g, i)
    BY <2>2
  <2> HIDE DEF h
  <2>5. \A i \in 1 .. n + 1 : h[i] = Body(h, i)
    <3> HIDE DEF Body
    <3> QED BY <2>1, <2>2, <2>3, <2>4
  <2> QED
    BY <2>5
<1>3. N \in S
  <2> HIDE DEF S
  <2> QED BY <1>1, <1>2, SetInduction
<1>4. PICK g : \A i \in 1 .. N : g[i] = Body(g, i)
  BY <1>3
<1> DEFINE f == [i \in 1 .. N |-> g[i]]
<1>5. Joins(f, s)
  <2>1. \A i \in 1 .. N : f[i] = Body(f, i)
    BY <1>4
  <2> QED
    BY <2>1 DEF Joins
<1> DEFINE flatten == CHOOSE F : Joins(F, s)
<1>6. Joins(flatten, s)
  <2> HIDE DEF f
  <2> QED BY <1>5
<1>7. FlattenSeq(s) = flatten[N]
  BY DEF FlattenSeq, Joins
<1> QED
  <2> HIDE DEF flatten
  <2> QED BY <1>6, <1>7

\* The bytes of a field, and of a sequence of fields.
Fours(f, s, n) ==
  /\ f[n] \in Seq(Int) /\ Len(f[n]) = 4 * n
  /\ \A j \in 1 .. n, k \in 1 .. 4 : f[n][4 * (j - 1) + k] = s[j][k]

\* `u' is the concatenation of `s' and `t', sequences of elements of S.
IsConcat(S, u, s, t) ==
  /\ u \in Seq(S) /\ Len(u) = Len(s) + Len(t)
  /\ \A i \in 1 .. Len(s) + Len(t) : u[i] = IF i <= Len(s) THEN s[i] ELSE t[i - Len(s)]

\* Concatenation, as one fact.
LEMMA Concat ==
  ASSUME NEW S, NEW s \in Seq(S), NEW t \in Seq(S)
  PROVE  IsConcat(S, s \o t, s, t)
  BY ConcatProperties, Zenon DEF IsConcat

\* Each of the first `m' sequences, of four numbers each, is found where its
\* place says.
LEMMA FlattenFours ==
  ASSUME NEW s, NEW f, NEW m \in Nat, Joins(f, s), Len(s) \in Nat, m <= Len(s),
         \A i \in 1 .. m : s[i] \in Seq(Int) /\ Len(s[i]) = 4
  PROVE  \A n \in 1 .. m : Fours(f, s, n)
<1> DEFINE S == {n \in Nat : n \in 1 .. m => Fours(f, s, n)}
<1>1. 0 \in S
  OBVIOUS
<1>2. ASSUME NEW n \in Nat, n \in S PROVE n + 1 \in S
  <2>1. CASE n + 1 \notin 1 .. m
    BY <2>1
  <2>2. CASE n = 0 /\ 1 \in 1 .. m
    <3>1. f[1] = s[1]
      BY <2>2 DEF Joins
    <3> QED
      BY <2>2, <3>1 DEF Fours
  <2>3. CASE n \in 1 .. m /\ n + 1 \in 1 .. m
    <3>1. f[n + 1] = f[n] \o s[n + 1]
      <4>1. n + 1 \in 1 .. Len(s) /\ n + 1 # 1 /\ (n + 1) - 1 = n
        BY <2>3
      <4> QED
        BY <4>1 DEF Joins
    <3>2. Fours(f, s, n)
      BY <1>2, <2>3
    <3>3. f[n] \in Seq(Int) /\ s[n + 1] \in Seq(Int) /\ Len(f[n]) = 4 * n /\ Len(s[n + 1]) = 4
      BY <2>3, <3>2 DEF Fours
    <3>6. /\ f[n + 1] \in Seq(Int) /\ Len(f[n + 1]) = 4 * n + 4
          /\ \A i \in 1 .. 4 * n + 4 :
               f[n + 1][i] = IF i <= 4 * n THEN f[n][i] ELSE s[n + 1][i - 4 * n]
      <4>1. IsConcat(Int, f[n + 1], f[n], s[n + 1])
        BY <3>1, <3>3, Concat, Zenon
      <4> QED
        BY <3>3, <4>1 DEF IsConcat
    <3>4. f[n + 1] \in Seq(Int) /\ Len(f[n + 1]) = 4 * (n + 1)
      BY <3>6
    <3>5. ASSUME NEW j \in 1 .. n + 1, NEW k \in 1 .. 4
          PROVE  f[n + 1][4 * (j - 1) + k] = s[j][k]
      <4>1. CASE j \in 1 .. n
        <5>1. 4 * (j - 1) + k \in 1 .. 4 * n
          BY <4>1
        <5>2. f[n + 1][4 * (j - 1) + k] = f[n][4 * (j - 1) + k]
          BY <3>6, <5>1
        <5> QED
          BY <3>2, <4>1, <5>2 DEF Fours
      <4>2. CASE j = n + 1
        <5>1. 4 * (j - 1) + k = 4 * n + k /\ 4 * n + k \in 1 .. 4 * n + 4
              /\ ~(4 * n + k <= 4 * n) /\ (4 * n + k) - 4 * n = k
          BY <4>2
        <5> QED
          BY <3>6, <4>2, <5>1
      <4> QED
        BY <4>1, <4>2
    <3>7. /\ f[n + 1] \in Seq(Int) /\ Len(f[n + 1]) = 4 * (n + 1)
          /\ \A j \in 1 .. n + 1, k \in 1 .. 4 : f[n + 1][4 * (j - 1) + k] = s[j][k]
      BY <3>4, <3>5
    <3>8. Fours(f, s, n + 1)
      BY <3>7 DEF Fours
    <3> QED
      BY <3>8
  <2> QED
    BY <2>1, <2>2, <2>3
<1> HIDE DEF S
<1>3. Nat \subseteq S
  BY <1>1, <1>2, SetInduction
<1> QED
  BY <1>3 DEF S

\* A number of 32 bits is read as it was written.
LEMMA DivFacts ==
  ASSUME NEW a \in Nat, NEW b \in Nat \ {0}
  PROVE  /\ a \div b \in Nat /\ a % b \in 0 .. b - 1
         /\ a = (a % b) + b * (a \div b)
  OBVIOUS

\* Division takes a product below one of its factors.
LEMMA DivBound ==
  ASSUME NEW a \in Nat, NEW b \in Nat \ {0}, NEW c \in Nat, a < b * c
  PROVE  a \div b < c
  OBVIOUS

\* readLE32() reads what writeLE32() wrote.
LEMMA LE32 ==
  ASSUME NEW v \in 0 .. U32 - 1
  PROVE  /\ writeLE32(v) \in Seq(Int) /\ Len(writeLE32(v)) = 4
         /\ readLE32(writeLE32(v), 1) = v
<1> DEFINE a == v \div Base
           b == a \div Base
           c == b \div Base
<1>0. Base \in Nat \ {0} /\ v \in Nat
  BY SeekTableAssumption
<1>1. a \in Nat /\ v % Base \in 0 .. Base - 1 /\ v = (v % Base) + Base * a
  BY <1>0, DivFacts
<1>2. b \in Nat /\ a % Base \in 0 .. Base - 1 /\ a = (a % Base) + Base * b
  BY <1>0, <1>1, DivFacts
<1>3. c \in Nat /\ b % Base \in 0 .. Base - 1 /\ b = (b % Base) + Base * c
  BY <1>0, <1>2, DivFacts
<1>4. c < Base
  <2>1. /\ Base * Base \in Nat /\ Base * Base * Base \in Nat
        /\ U32 = Base * (Base * Base * Base) /\ Base * Base * Base = Base * (Base * Base)
    BY <1>0 DEF U32
  <2>2. v < Base * (Base * Base * Base)
    BY <1>0, <2>1
  <2>3. a < Base * (Base * Base)
    BY <1>0, <2>1, <2>2, DivBound
  <2>4. b < Base * Base
    BY <1>0, <1>1, <2>1, <2>3, DivBound
  <2> QED
    BY <1>0, <1>2, <2>4, DivBound
<1>5. c % Base = c /\ c % Base \in 0 .. Base - 1
  <2> HIDE DEF c
  <2>1. c % Base = c
    BY <1>0, <1>3, <1>4, ModFacts
  <2> QED
    BY <1>0, <1>3, <1>4, <2>1
<1>6. writeLE32(v) = <<v % Base, a % Base, b % Base, c % Base>>
  BY DEF writeLE32
<1> HIDE DEF a, b, c
<1>7. readLE32(writeLE32(v), 1) = (v % Base) + Base * ((a % Base) + Base * ((b % Base) + Base * c))
  BY <1>5, <1>6 DEF readLE32
<1> QED
  BY <1>1, <1>2, <1>3, <1>5, <1>6, <1>7

\* The four bytes of a number are read wherever they are.
LEMMA ReadField ==
  ASSUME NEW v \in 0 .. U32 - 1, NEW bytes, NEW at \in Nat,
         \A k \in 1 .. 4 : bytes[at + k] = writeLE32(v)[k]
  PROVE  readLE32(bytes, at + 1) = v
<1> DEFINE w == writeLE32(v)
<1>1. v = w[1] + Base * (w[2] + Base * (w[3] + Base * w[4]))
  <2>1. readLE32(w, 1) = v
    BY LE32
  <2>2. readLE32(w, 1) = w[1] + Base * (w[2] + Base * (w[3] + Base * w[4]))
    BY DEF readLE32
  <2> QED
    BY <2>1, <2>2
<1>2. /\ bytes[at + 1] = w[1] /\ bytes[(at + 1) + 1] = w[2]
      /\ bytes[(at + 1) + 2] = w[3] /\ bytes[(at + 1) + 3] = w[4]
  <2>1. (at + 1) + 1 = at + 2 /\ (at + 1) + 2 = at + 3 /\ (at + 1) + 3 = at + 4
    OBVIOUS
  <2> QED
    BY <2>1
<1> HIDE DEF w
<1> QED
  BY <1>1, <1>2, Zenon DEF readLE32

\* The numbers that writeSeekTable() writes, in order.
LEMMA FieldsFacts ==
  ASSUME len \in Nat, len < MaxFrames, \A i \in 1 .. len : seekTable[i - 1] \in Entry
  PROVE  /\ Fields \in Seq(Seq(Int)) /\ Len(Fields) = 2 * len + 5
         /\ Fields[1] = writeLE32(SkipMagic) /\ Fields[2] = writeLE32(frameSize)
         /\ \A i \in 1 .. len :
              /\ Fields[2 * i + 1] = writeLE32(seekTable[i - 1].compressed)
              /\ Fields[2 * i + 2] = writeLE32(seekTable[i - 1].decompressed)
         /\ Fields[2 * len + 3] = writeLE32(len % U32)
         /\ Fields[2 * len + 4] = <<0>> /\ Fields[2 * len + 5] = writeLE32(SeekMagic)
<1> DEFINE head == <<writeLE32(SkipMagic), writeLE32(frameSize)>>
           field(k) == LET e == seekTable[(k - 1) \div 2]
                       IN  writeLE32(IF k % 2 = 1 THEN e.compressed ELSE e.decompressed)
           body == [k \in 1 .. 2 * len |-> field(k)]
           foot == <<writeLE32(len % U32), <<0>>, writeLE32(SeekMagic)>>
<1>1. \A v \in 0 .. U32 - 1 : writeLE32(v) \in Seq(Int)
  BY LE32
<1>2. head \in Seq(Seq(Int)) /\ Len(head) = 2
  <2>1. frameSize \in 0 .. U32 - 1
    BY Numbers, ModFacts, SeekTableAssumption DEF frameSize, EntrySize
  <2> QED
    BY <1>1, <2>1, SeekTableAssumption
<1>3. foot \in Seq(Seq(Int)) /\ Len(foot) = 3
  <2>1. len % U32 \in 0 .. U32 - 1
    BY Numbers, ModFacts
  <2> QED
    BY <1>1, <2>1, SeekTableAssumption
<1>4. \A k \in 1 .. 2 * len : field(k) \in Seq(Int)
  <2> SUFFICES ASSUME NEW k \in 1 .. 2 * len PROVE field(k) \in Seq(Int)
    OBVIOUS
  <2>1. (k - 1) \div 2 + 1 \in 1 .. len /\ ((k - 1) \div 2 + 1) - 1 = (k - 1) \div 2
    OBVIOUS
  <2>2. seekTable[(k - 1) \div 2] \in Entry
    BY <2>1
  <2>3. \A e \in Entry : e.compressed \in 0 .. U32 - 1 /\ e.decompressed \in 0 .. U32 - 1
    BY SeekTableAssumption DEF Entry
  <2> QED
    BY <1>1, <2>2, <2>3
<1>5. body \in Seq(Seq(Int)) /\ Len(body) = 2 * len
  BY <1>4
<1>6. ASSUME NEW i \in 1 .. len
      PROVE  /\ body[2 * i - 1] = writeLE32(seekTable[i - 1].compressed)
             /\ body[2 * i] = writeLE32(seekTable[i - 1].decompressed)
  <2>1. /\ 2 * i - 1 \in 1 .. 2 * len /\ ((2 * i - 1) - 1) \div 2 = i - 1 /\ (2 * i - 1) % 2 = 1
        /\ 2 * i \in 1 .. 2 * len /\ (2 * i - 1) \div 2 = i - 1 /\ (2 * i) % 2 # 1
    OBVIOUS
  <2> QED
    BY <2>1
<1>7. Fields = (head \o body) \o foot
  BY DEF Fields
<1>8. /\ head[1] = writeLE32(SkipMagic) /\ head[2] = writeLE32(frameSize)
      /\ foot[1] = writeLE32(len % U32) /\ foot[2] = <<0>> /\ foot[3] = writeLE32(SeekMagic)
  OBVIOUS
<1> HIDE DEF head, body, foot
<1>9. IsConcat(Seq(Int), head \o body, head, body)
  BY <1>2, <1>5, Concat, Zenon
<1>10. IsConcat(Seq(Int), Fields, head \o body, foot)
  <2>1. head \o body \in Seq(Seq(Int))
    BY <1>9, Zenon DEF IsConcat
  <2> QED
    BY <1>3, <1>7, <2>1, Concat, Zenon
<1> DEFINE both == head \o body
<1> HIDE DEF both
<1>11. /\ Len(both) = 2 + 2 * len
       /\ \A i \in 1 .. 2 + 2 * len : both[i] = IF i <= 2 THEN head[i] ELSE body[i - 2]
  BY <1>2, <1>5, <1>9 DEF IsConcat, both
<1>12. /\ Fields \in Seq(Seq(Int)) /\ Len(Fields) = (2 + 2 * len) + 3
       /\ \A i \in 1 .. (2 + 2 * len) + 3 :
            Fields[i] = IF i <= 2 + 2 * len THEN both[i] ELSE foot[i - (2 + 2 * len)]
  BY <1>3, <1>10, <1>11 DEF IsConcat, both
<1>13. ASSUME NEW i \in 1 .. len
       PROVE  /\ Fields[2 * i + 1] = writeLE32(seekTable[i - 1].compressed)
              /\ Fields[2 * i + 2] = writeLE32(seekTable[i - 1].decompressed)
  <2>1. /\ 2 * i + 1 \in 1 .. 2 + 2 * len /\ ~(2 * i + 1 <= 2) /\ (2 * i + 1) - 2 = 2 * i - 1
        /\ 2 * i + 2 \in 1 .. 2 + 2 * len /\ ~(2 * i + 2 <= 2) /\ (2 * i + 2) - 2 = 2 * i
    OBVIOUS
  <2>2. Fields[2 * i + 1] = body[2 * i - 1] /\ Fields[2 * i + 2] = body[2 * i]
    <3>1. Fields[2 * i + 1] = both[2 * i + 1] /\ Fields[2 * i + 2] = both[2 * i + 2]
      BY <1>12, <2>1
    <3>2. both[2 * i + 1] = body[2 * i - 1] /\ both[2 * i + 2] = body[2 * i]
      BY <1>11, <2>1
    <3> QED
      BY <3>1, <3>2
  <2> QED
    BY <1>6, <2>2
<1>14. Fields[1] = head[1] /\ Fields[2] = head[2]
  <2>1. /\ 1 \in 1 .. 2 + 2 * len /\ 1 \in 1 .. (2 + 2 * len) + 3 /\ 1 <= 2
        /\ 2 \in 1 .. 2 + 2 * len /\ 2 \in 1 .. (2 + 2 * len) + 3 /\ 2 <= 2
    OBVIOUS
  <2>2. Fields[1] = both[1] /\ Fields[2] = both[2]
    BY <1>12, <2>1
  <2>3. both[1] = head[1] /\ both[2] = head[2]
    BY <1>11, <2>1
  <2> QED
    BY <2>2, <2>3
<1>15. /\ Fields[2 * len + 3] = foot[1] /\ Fields[2 * len + 4] = foot[2]
       /\ Fields[2 * len + 5] = foot[3]
  BY <1>12
<1> QED
  BY <1>8, <1>12, <1>13, <1>14, <1>15

\* The bytes of the table: fields of four bytes, and the one of the descriptor.
LEMMA TableBytes ==
  ASSUME len \in Nat, len < MaxFrames, \A i \in 1 .. len : seekTable[i - 1] \in Entry
  PROVE  LET bytes == FlattenSeq(Fields)
         IN  /\ Len(bytes) = 8 * len + 17
             /\ \A j \in 1 .. 2 * len + 3, k \in 1 .. 4 :
                  bytes[4 * (j - 1) + k] = Fields[j][k]
             /\ bytes[8 * len + 13] = 0
             /\ \A k \in 1 .. 4 : bytes[8 * len + 13 + k] = writeLE32(SeekMagic)[k]
<1> DEFINE s == Fields
           m == 2 * len + 3
           N == 2 * len + 5
<1>1. /\ s \in Seq(Seq(Int)) /\ Len(s) = N
      /\ s[2 * len + 4] = <<0>> /\ s[2 * len + 5] = writeLE32(SeekMagic)
  BY FieldsFacts
<1>2. m \in Nat /\ m # 0 /\ N \in Nat /\ N = m + 2 /\ N # 0
  OBVIOUS
<1>3. \A v \in 0 .. U32 - 1 : writeLE32(v) \in Seq(Int) /\ Len(writeLE32(v)) = 4
  BY LE32
<1>4. \A i \in 1 .. m : s[i] \in Seq(Int) /\ Len(s[i]) = 4
  <2> SUFFICES ASSUME NEW i \in 1 .. m
               PROVE  \E v \in 0 .. U32 - 1 : s[i] = writeLE32(v)
    BY <1>3
  <2>1. /\ frameSize \in 0 .. U32 - 1 /\ len % U32 \in 0 .. U32 - 1
        /\ SkipMagic \in 0 .. U32 - 1
    BY Numbers, ModFacts, SeekTableAssumption DEF frameSize, EntrySize
  <2>2. \A e \in Entry : e.compressed \in 0 .. U32 - 1 /\ e.decompressed \in 0 .. U32 - 1
    BY SeekTableAssumption DEF Entry
  <2>3. CASE i \in {1, 2, m}
    BY FieldsFacts, <2>1, <2>3
  <2>4. CASE i \in 3 .. m - 1
    <3>1. PICK j \in 1 .. len : i = 2 * j + 1 \/ i = 2 * j + 2
      <4>1. CASE i % 2 = 1
        <5>1. (i - 1) \div 2 \in 1 .. len /\ i = 2 * ((i - 1) \div 2) + 1
          BY <2>4, <4>1
        <5> QED
          BY <5>1
      <4>2. CASE i % 2 = 0
        <5>1. (i - 2) \div 2 \in 1 .. len /\ i = 2 * ((i - 2) \div 2) + 2
          BY <2>4, <4>2
        <5> QED
          BY <5>1
      <4> QED
        BY <4>1, <4>2
    <3>2. seekTable[j - 1] \in Entry
      OBVIOUS
    <3>3. \/ s[i] = writeLE32(seekTable[j - 1].compressed)
          \/ s[i] = writeLE32(seekTable[j - 1].decompressed)
      BY <3>1, FieldsFacts
    <3> QED
      BY <2>2, <3>2, <3>3
  <2> QED
    BY <2>3, <2>4
<1> HIDE DEF s
<1>5. PICK f : Joins(f, s) /\ FlattenSeq(s) = f[Len(s)]
  BY <1>1, <1>2, FlattenDef
<1>6. Fours(f, s, m)
  <2>1. m <= Len(s) /\ Len(s) \in Nat /\ m \in 1 .. m
    BY <1>1, <1>2
  <2> HIDE DEF m, N
  <2>2. \A n \in 1 .. m : Fours(f, s, n)
    BY <1>2, <1>4, <1>5, <2>1, FlattenFours
  <2> QED
    BY <2>1, <2>2
<1>7. f[m + 1] = f[m] \o <<0>> /\ f[m + 2] = f[m + 1] \o writeLE32(SeekMagic)
  <2>1. m + 1 \in 1 .. Len(s) /\ m + 1 # 1 /\ m + 2 \in 1 .. Len(s) /\ m + 2 # 1
        /\ (m + 1) - 1 = m /\ (m + 2) - 1 = m + 1
    BY <1>1, <1>2
  <2>2. \A i \in 1 .. Len(s) : f[i] = IF i = 1 THEN s[i] ELSE f[i - 1] \o s[i]
    BY <1>5 DEF Joins
  <2>3. f[m + 1] = f[(m + 1) - 1] \o s[m + 1] /\ f[m + 2] = f[(m + 2) - 1] \o s[m + 2]
    BY <2>1, <2>2, Zenon
  <2>4. m + 1 = 2 * len + 4 /\ m + 2 = 2 * len + 5
    OBVIOUS
  <2> QED
    BY <1>1, <2>1, <2>3, <2>4
<1>8. IsConcat(Int, f[m + 1], f[m], <<0>>)
  <2>1. f[m] \in Seq(Int) /\ <<0>> \in Seq(Int)
    BY <1>6 DEF Fours
  <2> QED
    BY <1>7, <2>1, Concat, Zenon
<1>9. IsConcat(Int, f[m + 2], f[m + 1], writeLE32(SeekMagic))
  <2>1. f[m + 1] \in Seq(Int) /\ writeLE32(SeekMagic) \in Seq(Int)
    BY <1>3, <1>8, SeekTableAssumption DEF IsConcat
  <2> QED
    BY <1>7, <2>1, Concat, Zenon
<1>10. /\ Len(f[m]) = 4 * m
       /\ \A j \in 1 .. m, k \in 1 .. 4 : f[m][4 * (j - 1) + k] = s[j][k]
  BY <1>6 DEF Fours
<1>11. /\ Len(f[m + 1]) = 4 * m + 1
       /\ \A i \in 1 .. 4 * m + 1 : f[m + 1][i] = IF i <= 4 * m THEN f[m][i] ELSE <<0>>[i - 4 * m]
  BY <1>8, <1>10 DEF IsConcat
<1>12. /\ Len(f[m + 2]) = 4 * m + 5
       /\ \A i \in 1 .. 4 * m + 5 :
            f[m + 2][i] = IF i <= 4 * m + 1 THEN f[m + 1][i]
                          ELSE writeLE32(SeekMagic)[i - (4 * m + 1)]
  <2> DEFINE w == writeLE32(SeekMagic)
             g == f[m + 1]
  <2>1. IsConcat(Int, f[m + 2], g, w)
    BY <1>9
  <2>2. Len(w) = 4 /\ Len(g) = 4 * m + 1
    BY <1>3, <1>11, SeekTableAssumption
  <2> HIDE DEF w, g
  <2>3. /\ Len(f[m + 2]) = Len(g) + Len(w)
        /\ \A i \in 1 .. Len(g) + Len(w) :
             f[m + 2][i] = IF i <= Len(g) THEN g[i] ELSE w[i - Len(g)]
    BY <2>1, Zenon DEF IsConcat
  <2>4. Len(g) + Len(w) = 4 * m + 5
    BY <2>2
  <2>5. /\ Len(f[m + 2]) = 4 * m + 5
        /\ \A i \in 1 .. 4 * m + 5 :
             f[m + 2][i] = IF i <= 4 * m + 1 THEN g[i] ELSE w[i - (4 * m + 1)]
    BY <2>2, <2>3, <2>4, Zenon
  <2> QED
    BY <2>5 DEF w, g
<1> DEFINE bytes == f[m + 2]
<1>13. FlattenSeq(s) = bytes
  BY <1>1, <1>2, <1>5
<1>14. Len(bytes) = 8 * len + 17
  BY <1>12
<1>15. ASSUME NEW j \in 1 .. m, NEW k \in 1 .. 4
       PROVE  bytes[4 * (j - 1) + k] = s[j][k]
  <2> DEFINE p == 4 * (j - 1) + k
  <2>1. /\ p \in 1 .. 4 * m + 5 /\ p \in 1 .. 4 * m + 1 /\ p <= 4 * m + 1 /\ p <= 4 * m
    OBVIOUS
  <2>2. f[m][p] = s[j][k]
    BY <1>10
  <2> HIDE DEF p
  <2>3. bytes[p] = f[m + 1][p]
    BY <1>12, <2>1
  <2>4. f[m + 1][p] = f[m][p]
    BY <1>11, <2>1
  <2> QED
    BY <2>2, <2>3, <2>4 DEF p
<1>16. bytes[8 * len + 13] = 0
  <2> DEFINE p == 8 * len + 13
  <2>1. /\ p \in 1 .. 4 * m + 5 /\ p \in 1 .. 4 * m + 1 /\ p <= 4 * m + 1
        /\ ~(p <= 4 * m) /\ p - 4 * m = 1
    OBVIOUS
  <2> HIDE DEF p
  <2>2. bytes[p] = f[m + 1][p]
    BY <1>12, <2>1
  <2>3. f[m + 1][p] = <<0>>[1]
    BY <1>11, <2>1
  <2> QED
    BY <2>2, <2>3 DEF p
<1>17. ASSUME NEW k \in 1 .. 4
       PROVE  bytes[8 * len + 13 + k] = writeLE32(SeekMagic)[k]
  <2>1. /\ 8 * len + 13 + k \in 1 .. 4 * m + 5 /\ ~(8 * len + 13 + k <= 4 * m + 1)
        /\ (8 * len + 13 + k) - (4 * m + 1) = k
    OBVIOUS
  <2> QED
    BY <1>12, <2>1
<1> QED
  <2> HIDE DEF bytes
  <2> QED BY <1>13, <1>14, <1>15, <1>16, <1>17 DEF s

\* What a reader makes of these bytes is what was recorded.
LEMMA ReaderFindsRecorded ==
  ASSUME len \in Nat, len < MaxFrames, \A i \in 1 .. len : seekTable[i - 1] \in Entry
  PROVE  reader(FlattenSeq(Fields)) = Recorded
<1> DEFINE bytes == FlattenSeq(Fields)
           L == 8 * len + 17
<1>1. /\ Len(bytes) = L
      /\ \A j \in 1 .. 2 * len + 3, k \in 1 .. 4 : bytes[4 * (j - 1) + k] = Fields[j][k]
      /\ bytes[8 * len + 13] = 0
      /\ \A k \in 1 .. 4 : bytes[8 * len + 13 + k] = writeLE32(SeekMagic)[k]
  BY TableBytes
<1>2. /\ Fields[1] = writeLE32(SkipMagic) /\ Fields[2] = writeLE32(frameSize)
      /\ \A i \in 1 .. len :
           /\ Fields[2 * i + 1] = writeLE32(seekTable[i - 1].compressed)
           /\ Fields[2 * i + 2] = writeLE32(seekTable[i - 1].decompressed)
      /\ Fields[2 * len + 3] = writeLE32(len % U32)
  BY FieldsFacts
<1> HIDE DEF bytes
<1>3. ASSUME NEW j \in 1 .. 2 * len + 3, NEW v \in 0 .. U32 - 1, Fields[j] = writeLE32(v)
      PROVE  readLE32(bytes, 4 * (j - 1) + 1) = v
  <2> DEFINE p == 4 * (j - 1)
  <2>1. p \in Nat
    OBVIOUS
  <2>2. \A k \in 1 .. 4 : bytes[p + k] = writeLE32(v)[k]
    BY <1>1, <1>3
  <2> HIDE DEF p
  <2>3. readLE32(bytes, p + 1) = v
    BY <2>1, <2>2, ReadField
  <2> QED
    BY <2>3 DEF p
<1>4. /\ len % U32 = len /\ frameSize = 8 * len + 9
      /\ frameSize \in 0 .. U32 - 1 /\ len \in 0 .. U32 - 1
      /\ SkipMagic \in 0 .. U32 - 1 /\ SeekMagic \in 0 .. U32 - 1
  <2>1. len * EntrySize + 9 \in Nat /\ len * EntrySize + 9 = 8 * len + 9
        /\ 8 * len + 9 < U32 /\ len < U32
    BY SeekTableAssumption, Numbers DEF EntrySize
  <2> QED
    BY <2>1, Numbers, ModFacts, SeekTableAssumption DEF frameSize
<1>5. readLE32(bytes, L - 8) = len
  <2>1. 2 * len + 3 \in 1 .. 2 * len + 3 /\ L - 8 = 4 * ((2 * len + 3) - 1) + 1
    OBVIOUS
  <2>2. readLE32(bytes, 4 * ((2 * len + 3) - 1) + 1) = len
    BY <1>2, <1>3, <1>4, <2>1
  <2> QED
    BY <2>1, <2>2
<1>6. readLE32(bytes, L - 3) = SeekMagic
  <2> DEFINE p == 8 * len + 13
  <2>1. p \in Nat /\ \A k \in 1 .. 4 : bytes[p + k] = writeLE32(SeekMagic)[k]
    BY <1>1
  <2>2. L - 3 = p + 1
    OBVIOUS
  <2> HIDE DEF p
  <2>3. readLE32(bytes, p + 1) = SeekMagic
    BY <1>4, <2>1, ReadField
  <2> QED
    BY <2>2, <2>3
<1>7. bytes[L - 4] = 0
  BY <1>1
<1>8. (L - 9) - len * EntrySize - 8 = 0
  BY DEF EntrySize
<1>9. readLE32(bytes, 0 + 1) = SkipMagic /\ readLE32(bytes, 0 + 5) = len * EntrySize + 9
  <2>1. /\ 1 \in 1 .. 2 * len + 3 /\ 2 \in 1 .. 2 * len + 3
        /\ 4 * (1 - 1) + 1 = 0 + 1 /\ 4 * (2 - 1) + 1 = 0 + 5
        /\ len * EntrySize + 9 = 8 * len + 9
    BY DEF EntrySize
  <2>2. readLE32(bytes, 4 * (1 - 1) + 1) = SkipMagic /\ readLE32(bytes, 4 * (2 - 1) + 1) = frameSize
    BY <1>2, <1>3, <1>4, <2>1
  <2> QED
    BY <1>4, <2>1, <2>2
<1> DEFINE At(i) == 0 + 8 + (i - 1) * EntrySize
<1>10. ASSUME NEW i \in 1 .. len
       PROVE  /\ readLE32(bytes, At(i) + 1) = seekTable[i - 1].compressed
              /\ readLE32(bytes, At(i) + 5) = seekTable[i - 1].decompressed
  <2>1. /\ 2 * i + 1 \in 1 .. 2 * len + 3 /\ 2 * i + 2 \in 1 .. 2 * len + 3
        /\ At(i) + 1 = 4 * ((2 * i + 1) - 1) + 1 /\ At(i) + 5 = 4 * ((2 * i + 2) - 1) + 1
    BY DEF EntrySize
  <2>2. \A e \in Entry : e.compressed \in 0 .. U32 - 1 /\ e.decompressed \in 0 .. U32 - 1
    BY SeekTableAssumption DEF Entry
  <2>3. seekTable[i - 1] \in Entry
    OBVIOUS
  <2>4. /\ readLE32(bytes, 4 * ((2 * i + 1) - 1) + 1) = seekTable[i - 1].compressed
        /\ readLE32(bytes, 4 * ((2 * i + 2) - 1) + 1) = seekTable[i - 1].decompressed
    BY <1>2, <1>3, <2>1, <2>2, <2>3
  <2> QED
    BY <2>1, <2>4
<1>11. ASSUME NEW i \in 1 .. len
       PROVE  [compressed |-> readLE32(bytes, At(i) + 1),
               decompressed |-> readLE32(bytes, At(i) + 5)] = seekTable[i - 1]
  <2>1. seekTable[i - 1] = [compressed |-> seekTable[i - 1].compressed,
                            decompressed |-> seekTable[i - 1].decompressed]
    BY DEF Entry
  <2> QED
    BY <1>10, <2>1, Zenon
<1>12. [i \in 1 .. len |-> [compressed |-> readLE32(bytes, At(i) + 1),
                            decompressed |-> readLE32(bytes, At(i) + 5)]] = Recorded
  BY <1>11, Zenon DEF Recorded
<1>13. L >= 17
  OBVIOUS
<1> HIDE DEF L
<1>14. reader(bytes) = [i \in 1 .. len |-> [compressed |-> readLE32(bytes, At(i) + 1),
                                            decompressed |-> readLE32(bytes, At(i) + 5)]]
  <2> DEFINE n == readLE32(bytes, Len(bytes) - 8)
             start == Len(bytes) - 9 - n * EntrySize - 8
             entryAt(i) == start + 8 + (i - 1) * EntrySize
             valid == /\ readLE32(bytes, Len(bytes) - 3) = SeekMagic
                      /\ bytes[Len(bytes) - 4] = 0
                      /\ start >= 0
                      /\ readLE32(bytes, start + 1) = SkipMagic
                      /\ readLE32(bytes, start + 5) = n * EntrySize + 9
             found == [i \in 1 .. n |->
                         [compressed |-> readLE32(bytes, entryAt(i) + 1),
                          decompressed |-> readLE32(bytes, entryAt(i) + 5)]]
  <2>1. reader(bytes) = IF Len(bytes) < 17 THEN None ELSE IF valid THEN found ELSE None
    BY Zenon DEF reader
  <2>2. n = len
    BY <1>1, <1>5
  <2>3. start = 0
    BY <1>1, <1>8, <2>2, Zenon
  <2>4. ~(Len(bytes) < 17) /\ 0 >= 0
    BY <1>1, <1>13 DEF L
  <2>5. valid
    <3> HIDE DEF n, start
    <3> QED BY <1>1, <1>6, <1>7, <1>9, <2>2, <2>3, <2>4, Zenon
  <2>6. found = [i \in 1 .. len |-> [compressed |-> readLE32(bytes, At(i) + 1),
                                     decompressed |-> readLE32(bytes, At(i) + 5)]]
    <3> HIDE DEF n, start
    <3> QED BY <2>2, <2>3, Zenon
  <2> HIDE DEF valid, found
  <2> QED
    BY <2>1, <2>4, <2>5, <2>6, Zenon
<1> QED
  BY <1>12, <1>14 DEF bytes

(***************************************************************************)
(* The invariant holds at the start, and a step preserves it.              *)
(***************************************************************************)

\* The array records the frames: none at the start.
LEMMA InitInv ==
  ASSUME Init
  PROVE  Recording
<1>1. cap = 0 /\ len = 0 /\ newCap = 0 /\ skip \in BOOLEAN /\ given = <<>> /\ pc = "idle"
  BY DEF Init
<1>2. DOMAIN seekTable = {}
  BY DEF Init
<1>3. Shape
  BY <1>1, <1>2, Numbers DEF Shape
<1> QED
  BY <1>1, <1>3 DEF Recording, Growing, Pending, RecordsFrames

\* A frame is added.
LEMMA AddStep ==
  ASSUME Recording, NEW e \in Entry, Add(e)
  PROVE  Recording'
<1>1. /\ Shape /\ Growing /\ Pending /\ pc = "idle" /\ len <= Len(given)
      /\ \A i \in 1 .. len : seekTable[i - 1] = given[i]
      /\ ~skip => len = Len(given)
  BY DEF Recording, Pending, RecordsFrames, Add
<1>2. given' = Append(given, e) /\ UNCHANGED <<seekTable, cap, len>>
  BY DEF Add, table
<1>3. /\ given' \in Seq(Entry) /\ Len(given') = Len(given) + 1
      /\ given'[Len(given) + 1] = e
      /\ \A i \in 1 .. Len(given) : given'[i] = given[i]
      /\ Len(given) \in Nat
  BY <1>1, <1>2, AppendProperties DEF Shape
<1>4. len <= Len(given') /\ \A i \in 1 .. len : seekTable[i - 1] = given'[i]
  BY <1>1, <1>3 DEF Shape
<1>5. CASE skip
  <2>1. UNCHANGED <<skip, newCap, pc>>
    BY <1>5 DEF Add
  <2> QED
    BY <1>1, <1>2, <1>3, <1>4, <1>5, <2>1
       DEF Recording, Shape, Growing, Pending, RecordsFrames
<1>6. CASE ~skip /\ TooMany
  <2>1. skip' = TRUE /\ UNCHANGED <<newCap, pc>>
    BY <1>6 DEF Add
  <2> QED
    BY <1>1, <1>2, <1>3, <1>4, <2>1
       DEF Recording, Shape, Growing, Pending, RecordsFrames
<1>7. CASE ~skip /\ ~TooMany
  <2>1. /\ entry' = e /\ newCap' = startCap /\ skip' = skip
        /\ pc' = IF cap >= len + 1 THEN "store" ELSE "grow"
    BY <1>7 DEF Add
  <2>2. len + 1 < MaxFrames
    BY <1>1, <1>7, Numbers DEF TooMany, Shape
  <2>3. /\ startCap \in Nat
        /\ cap < len + 1 => startCap <= StartCap \/ startCap <= 2 * MaxFrames
    BY <1>1, <2>2, Numbers DEF startCap, Shape
  <2>4. Shape' /\ Growing'
    BY <1>1, <1>2, <1>3, <2>1, <2>2, <2>3 DEF Shape, Growing
  <2>5. Pending'
    BY <1>1, <1>2, <1>3, <1>4, <1>7, <2>1 DEF Pending, RecordsFrames
  <2> QED
    BY <2>4, <2>5 DEF Recording
<1> QED
  BY <1>5, <1>6, <1>7

\* The capacity doubles, and does not wrap around.
LEMMA DoubleStep ==
  ASSUME Recording, Double
  PROVE  Recording'
<1>1. /\ Shape /\ pc = "grow" /\ newCap < len + 1 /\ len + 1 < MaxFrames
      /\ newCap' = (newCap * 2) % (SizeMax + 1)
      /\ UNCHANGED <<seekTable, cap, len, skip, entry, pc, disk, given>>
  BY DEF Recording, Growing, Double, table
<1>2. newCap * 2 \in Nat /\ newCap * 2 <= 2 * MaxFrames /\ newCap * 2 < SizeMax + 1
      /\ SizeMax + 1 \in Nat \ {0}
  BY <1>1, Numbers DEF Shape
<1>3. newCap' = newCap * 2
  BY <1>1, <1>2, ModFacts
<1> QED
  BY <1>1, <1>2, <1>3 DEF Recording, Shape, Growing, Pending, RecordsFrames

\* The new array has the capacity recorded, and what the old one had.
LEMMA ReallocStep ==
  ASSUME Recording, Realloc
  PROVE  Recording'
<1>1. /\ Shape /\ Growing /\ Pending /\ pc = "grow" /\ newCap >= len + 1
      /\ seekTable' = [i \in 0 .. slots - 1 |-> kept(i)]
      /\ cap' = newCap /\ pc' = "store"
      /\ UNCHANGED <<len, skip, newCap, entry, disk, given>>
  BY DEF Recording, Realloc
<1>2. slots = newCap
  <2>1. 8 * newCap <= SizeMax /\ newCap \in Nat /\ SizeMax \in Nat
    BY <1>1, Numbers DEF Growing, Shape
  <2> QED
    BY <2>1, SlotsFit DEF slots, EntrySize
<1>3. DOMAIN seekTable' = 0 .. newCap - 1 /\ \A i \in 0 .. newCap - 1 : seekTable'[i] = kept(i)
  BY <1>1, <1>2
<1>4. \A i \in 1 .. len : seekTable'[i - 1] = seekTable[i - 1]
  BY <1>1, <1>3 DEF kept, Shape
<1>5. Shape' /\ Growing'
  BY <1>1, <1>3 DEF Shape, Growing
<1>6. Pending'
  BY <1>1, <1>4 DEF Pending, RecordsFrames
<1> QED
  BY <1>5, <1>6 DEF Recording

\* The entry is stored after the others.
LEMMA StoreStep ==
  ASSUME Recording, Store
  PROVE  Recording'
<1>1. /\ Shape /\ Growing /\ Pending /\ pc = "store" /\ len < cap /\ ~skip
      /\ entry \in Entry /\ Len(given) = len + 1 /\ given[len + 1] = entry
      /\ \A i \in 1 .. len : seekTable[i - 1] = given[i]
      /\ len' = len + 1 /\ pc' = "idle"
      /\ UNCHANGED <<cap, skip, newCap, disk, given>>
  BY DEF Recording, Growing, Pending, RecordsFrames, Store
<1>2. seekTable' = [seekTable EXCEPT ![len] = entry]
  BY <1>1, EntryKept DEF Store
<1>3. DOMAIN seekTable' = DOMAIN seekTable /\ len \in DOMAIN seekTable
  BY <1>1, <1>2 DEF Shape
<1>4. seekTable'[len] = entry /\ \A i \in 0 .. len - 1 : seekTable'[i] = seekTable[i]
  BY <1>1, <1>2, <1>3 DEF Shape
<1>5. \A i \in 1 .. len + 1 : seekTable'[i - 1] = given[i]
  BY <1>1, <1>4 DEF Shape
<1>6. len + 1 < MaxFrames
  BY <1>1 DEF Growing
<1>7. Shape' /\ Growing'
  BY <1>1, <1>3, <1>6 DEF Shape, Growing
<1>8. Pending'
  <2>1. len' <= Len(given') /\ len' = Len(given') /\ pc' \notin {"grow", "store"}
    BY <1>1 DEF Shape
  <2>2. \A i \in 1 .. len' : seekTable'[i - 1] = given'[i]
    BY <1>1, <1>5
  <2> QED
    BY <2>1, <2>2 DEF Pending, RecordsFrames
<1> QED
  BY <1>7, <1>8 DEF Recording

\* Every step keeps the array true to the frames added.
LEMMA InvStep ==
  ASSUME Recording, [Next]_vars
  PROVE  Recording'
<1>1. CASE ReallocFails \/ writeSeekTable \/ UNCHANGED vars
  <2>1. UNCHANGED <<seekTable, cap, len, skip, newCap, entry, given>>
        /\ (pc' = pc \/ pc' \in {"done", "failed"})
    BY <1>1 DEF ReallocFails, writeSeekTable, vars, table
  <2> QED
    BY <2>1 DEF Recording, Shape, Growing, Pending, RecordsFrames
<1> QED
  BY <1>1, AddStep, DoubleStep, ReallocStep, StoreStep DEF Next

\* The entries recorded are entries.
LEMMA RecordedEntries ==
  ASSUME Recording
  PROVE  /\ len \in Nat /\ len < MaxFrames /\ \A i \in 1 .. len : seekTable[i - 1] \in Entry
         /\ len = Len(given) => Recorded = given
<1>1. /\ len \in Nat /\ len < MaxFrames /\ len <= Len(given) /\ given \in Seq(Entry)
      /\ \A i \in 1 .. len : seekTable[i - 1] = given[i]
  BY DEF Recording, Shape, Pending, RecordsFrames
<1>2. \A i \in 1 .. len : given[i] \in Entry
  BY <1>1
<1>3. len = Len(given) => given = [i \in 1 .. len |-> given[i]]
  BY <1>1
<1>4. Recorded = [i \in 1 .. len |-> given[i]]
  BY <1>1, Zenon DEF Recorded
<1> QED
  BY <1>1, <1>2, <1>3, <1>4

\* A file without a table tells a reader nothing.
LEMMA ReaderFindsNone == reader(<<>>) = None
  BY DEF reader

\* Nothing is on disk before writeSeekTable(), and all of the table after it.
LEMMA OnDiskStep ==
  ASSUME Recording, OnDisk, [Next]_vars
  PROVE  OnDisk'
<1>1. CASE (\E e \in Entry : Add(e)) \/ Double \/ Realloc \/ ReallocFails \/ Store
  <2>1. /\ pc \in {"idle", "grow", "store"} /\ disk' = disk
        /\ pc' \in {"idle", "grow", "store", "failed"}
    BY <1>1 DEF Add, Double, Realloc, ReallocFails, Store, table
  <2> QED
    BY <2>1 DEF OnDisk
<1>2. CASE writeSeekTable
  <2>1. /\ pc = "idle" /\ pc' \in {"done", "failed"}
        /\ pc' = "done" => disk' = IF skip THEN disk ELSE FlattenSeq(Fields)
        /\ UNCHANGED <<seekTable, len, skip, given>>
    BY <1>2 DEF writeSeekTable, table
  <2>2. disk = <<>> /\ (~skip => len = Len(given)) /\ skip \in BOOLEAN
    BY <2>1 DEF OnDisk, Recording, Shape, Pending, RecordsFrames
  <2>3. reader(FlattenSeq(Fields)) = Recorded
    BY RecordedEntries, ReaderFindsRecorded
  <2>4. Recorded' = Recorded
    BY <2>1 DEF Recorded
  <2>5. pc' = "done" => IF skip' THEN disk' = <<>>
                        ELSE reader(disk') = Recorded' /\ len' = Len(given')
    BY <2>1, <2>2, <2>3, <2>4
  <2>6. reader(disk)' = reader(disk')
    BY DEF reader, readLE32
  <2> QED
    BY <2>1, <2>5, <2>6 DEF OnDisk
<1>3. CASE UNCHANGED vars
  BY <1>3 DEF OnDisk, vars, Recorded, reader, readLE32
<1> QED
  BY <1>1, <1>2, <1>3 DEF Next

\* The invariant holds in every state of every run.
LEMMA Inductive == Spec => []IInv
<1>1. Init => IInv
  BY InitInv DEF Init, OnDisk, IInv
<1>2. IInv /\ [Next]_vars => IInv'
  BY InvStep, OnDiskStep DEF IInv
<1> QED
  BY <1>1, <1>2, PTL DEF Spec

(***************************************************************************)
(* What follows from it.                                                   *)
(***************************************************************************)

\* No entry is stored outside the array, whatever the capacity it grew from,
\* and the size asked of realloc() is the one meant.
THEOREM StoresInBounds == Spec => []StoreInBounds
<1>1. IInv => StoreInBounds
  BY Numbers DEF IInv, Recording, Shape, Growing, StoreInBounds, EntrySize
<1> QED
  BY <1>1, Inductive, PTL

\* The array holds the frames added, in order, all of them unless the table was
\* given up, however often it moved.
THEOREM TableRecordsFrames == Spec => []RecordsFrames
<1>1. IInv => RecordsFrames
  BY DEF IInv, Recording, Pending
<1> QED
  BY <1>1, Inductive, PTL

\* What writeSeekTable() wrote is read back as the frames of the archive, by the
\* rules of the seekable format: the number of entries in the footer, the start
\* of the frame counted back from it, both magic numbers, and every field, in
\* the bytes that writeLE32() gave them.
THEOREM ReaderFindsAll == Spec => []ReaderFindsFrames
<1>1. IInv => ReaderFindsFrames
  <2> SUFFICES ASSUME IInv, pc = "done", ~skip PROVE reader(disk) = given
    BY DEF ReaderFindsFrames
  <2>1. reader(disk) = Recorded /\ len = Len(given)
    BY DEF IInv, OnDisk
  <2> QED
    BY <2>1, RecordedEntries DEF IInv
<1> QED
  BY <1>1, Inductive, PTL

\* A step maps to one that FrameIndex allows, or to none.
LEMMA IndexStep ==
  ASSUME IInv, [Next]_vars
  PROVE  [Index!Add \/ Index!GiveUp \/ Index!Publish]_(Index!vars)
<1> DEFINE published == IF pc = "done" THEN reader(disk) ELSE None
<1>0. /\ Recording /\ OnDisk /\ len \in Nat /\ len < MaxFrames /\ MaxFrames \in Nat
      /\ skip \in BOOLEAN /\ DOMAIN seekTable = 0 .. cap - 1 /\ len <= cap /\ cap \in Nat
  BY Numbers DEF IInv, Recording, Shape
<1>1. Index!vars = <<Recorded, skip, published>> /\ Index!vars' = <<Recorded', skip', published'>>
  BY DEF Index!vars
<1>2. ASSUME Recorded' = Recorded, skip' = skip, published' = published
      PROVE  UNCHANGED Index!vars
  BY <1>1, <1>2
<1>3. pc # "done" => published = None
  OBVIOUS
<1>4. pc' # "done" => published' = None
  OBVIOUS
<1> HIDE DEF published
<1>5. CASE \E e \in Entry : Add(e)
  <2>1. PICK e \in Entry : Add(e)
    BY <1>5
  <2>2. /\ pc = "idle" /\ pc' \in {"idle", "store", "grow"} /\ UNCHANGED <<seekTable, len>>
        /\ skip' = skip \/ (~skip /\ TooMany /\ skip' = TRUE)
    BY <2>1 DEF Add, table
  <2>3. Recorded' = Recorded
    BY <2>2 DEF Recorded
  <2>4. published = None /\ published' = None
    BY <1>3, <1>4, <2>2
  <2>5. CASE skip' = skip
    BY <1>2, <2>3, <2>4, <2>5
  <2>6. CASE ~skip /\ TooMany /\ skip' = TRUE
    <3>1. Len(Recorded) = len
      BY <1>0 DEF Recorded
    <3>2. Len(Recorded) + 1 = MaxFrames
      BY <1>0, <2>6, <3>1 DEF TooMany
    <3>3. Index!GiveUp
      BY <2>3, <2>4, <2>6, <3>2 DEF Index!GiveUp, published
    <3> QED
      BY <3>3
  <2> QED
    BY <2>2, <2>5, <2>6
<1>6. CASE Double \/ ReallocFails
  <2>1. /\ UNCHANGED <<seekTable, len, skip>> /\ pc = "grow" /\ pc' \in {"grow", "failed"}
    BY <1>6 DEF Double, ReallocFails, table
  <2>2. Recorded' = Recorded
    BY <2>1 DEF Recorded
  <2> QED
    BY <1>2, <1>3, <1>4, <2>1, <2>2
<1>7. CASE Realloc
  <2>1. /\ pc = "grow" /\ pc' = "store" /\ UNCHANGED <<len, skip, given>>
    BY <1>7 DEF Realloc
  <2>2. Recording'
    BY <1>0, <1>7, ReallocStep
  <2>3. \A i \in 1 .. len : seekTable[i - 1] = given[i] /\ seekTable'[i - 1] = given[i]
    BY <1>0, <2>1, <2>2 DEF Recording, Pending, RecordsFrames
  <2>4. Recorded' = Recorded
    BY <2>1, <2>3 DEF Recorded
  <2> QED
    BY <1>2, <1>3, <1>4, <2>1, <2>4
<1>8. CASE Store
  <2>1. /\ pc = "store" /\ pc' = "idle" /\ UNCHANGED <<skip, given>> /\ len' = len + 1
    BY <1>8 DEF Store
  <2>2. Recording' /\ ~skip /\ entry \in Entry /\ given[len + 1] = entry /\ len + 1 <= Len(given)
        /\ given \in Seq(Entry)
    BY <1>0, <1>8, <2>1, StoreStep DEF Recording, Pending, Shape
  <2>3. /\ \A i \in 1 .. len : seekTable[i - 1] = given[i]
        /\ \A i \in 1 .. len + 1 : seekTable'[i - 1] = given[i]
    BY <1>0, <2>1, <2>2 DEF Recording, Pending, RecordsFrames
  <2>4. Recorded = [i \in 1 .. len |-> given[i]] /\ Recorded' = [i \in 1 .. len + 1 |-> given[i]]
    BY <2>1, <2>3, Zenon DEF Recorded
  <2>5. Recorded' = Append(Recorded, entry)
    <3>1. [i \in 1 .. len |-> given[i]] \in Seq(Entry)
      BY <1>0, <2>2
    <3> QED
      BY <1>0, <2>2, <2>4, <3>1
  <2>6. published = None /\ published' = None
    BY <1>3, <1>4, <2>1
  <2>7. entry \in Index!Entry
    BY <2>2 DEF Entry, Index!Entry
  <2>8. Index!Add
    BY <2>1, <2>2, <2>5, <2>6, <2>7 DEF Index!Add, published
  <2> QED
    BY <2>8
<1>9. CASE writeSeekTable
  <2>1. /\ pc = "idle" /\ pc' \in {"done", "failed"} /\ UNCHANGED <<seekTable, len, skip>>
    BY <1>9 DEF writeSeekTable, table
  <2>2. Recorded' = Recorded /\ published = None
    BY <1>3, <2>1 DEF Recorded
  <2>3. OnDisk'
    BY <1>0, OnDiskStep
  <2>4. CASE pc' = "failed"
    BY <1>2, <1>4, <2>1, <2>2, <2>4
  <2>5. CASE pc' = "done" /\ skip
    <3>1. disk' = <<>>
      BY <2>1, <2>3, <2>5 DEF OnDisk
    <3>2. published' = None
      BY <2>5, <3>1, ReaderFindsNone DEF published, reader, readLE32
    <3> QED
      BY <1>2, <2>1, <2>2, <3>2
  <2>6. CASE pc' = "done" /\ ~skip
    <3>1. published' = Recorded
      BY <2>1, <2>2, <2>3, <2>6 DEF OnDisk, published
    <3>2. Index!Publish
      BY <2>1, <2>2, <2>6, <3>1 DEF Index!Publish, published
    <3> QED
      BY <3>2
  <2> QED
    BY <1>0, <2>1, <2>4, <2>5, <2>6
<1>10. CASE UNCHANGED vars
  BY <1>2, <1>10 DEF vars, Recorded, published, reader, readLE32
<1> QED
  BY <1>5, <1>6, <1>7, <1>8, <1>9, <1>10 DEF Next

\* The program's table is a table of FrameIndex: a reader finds the frames
\* recorded, in order, or nothing; and the table is given up only when the
\* format cannot describe one frame more.
THEOREM ImplementsFrameIndex == Spec => ImplementsIndex
<1>1. Init => Index!Init
  BY DEF Init, Index!Init, Recorded
<1>2. IInv /\ [Next]_vars => [Index!Add \/ Index!GiveUp \/ Index!Publish]_(Index!vars)
  BY IndexStep
<1> QED
  BY <1>1, <1>2, Inductive, PTL DEF Spec, ImplementsIndex, Index!Spec

(***************************************************************************)
(* ZstdFrame.                                                              *)
(***************************************************************************)


(***************************************************************************)
(* The inductive invariant.                                                *)
(***************************************************************************)

Params == [level : {"default", "asked"}, checksum : BOOLEAN, workers : BOOLEAN]

Session == [pledged : Nat, eaten : Nat, made : Nat, flushed : Nat, ended : BOOLEAN]

FileFrame == [data : Nat, size : Nat, whole : BOOLEAN, made : Params]

Asked == [level |-> "asked", checksum |-> TRUE, workers |-> opts.workers /\ opts.multithread]

Settings == {"level", "checksum", "workers"}

ZstdType ==
  /\ opts \in [workers : BOOLEAN, multithread : BOOLEAN]
  /\ cctx \in [params : Params, session : Session]
  /\ step \in Settings \cup {"idle", "call", "write"}
  /\ loop \in [op : {"none", "buffer", "push", "end"}, size : Nat, pos : Nat,
               mode : {"continue", "end"}, out : Nat, remaining : Nat]
  /\ frame \in [in : Nat, out : Nat, open : BOOLEAN]
  /\ file \in Seq(FileFrame)
  /\ sizes \in Seq([compressed : Nat, decompressed : Nat])

\* The parameters are set once, before the first frame.
ParamsKept ==
  /\ step \in Settings => file = <<>> /\ sizes = <<>> /\ ~frame.open
  /\ step = "checksum" => cctx.params.level = "asked" /\ ~cctx.params.workers
  /\ step = "level" => ~cctx.params.workers
  /\ step = "workers" => cctx.params.level = "asked" /\ cctx.params.checksum /\ opts.workers
  /\ step \notin Settings => cctx.params = Asked

InLoop == step \in {"call", "write"}

InFrame == frame.open \/ InLoop

\* What the session has taken is what the counters of the program say, and all
\* that it gave is in the file, but for the output buffer about to be written.
Counted ==
  /\ cctx.session.flushed <= cctx.session.made
  /\ cctx.session.made <= MaxFrameSize + Expansion
  /\ InFrame => cctx.session.flushed = frame.out + (IF step = "write" THEN loop.out ELSE 0)
  /\ frame.open => frame.in <= MaxFrameSize
  /\ step = "idle" /\ frame.open => cctx.session.eaten = frame.in /\ ~cctx.session.ended
  /\ InLoop =>
       /\ loop.op # "none" /\ (frame.open <=> loop.op # "buffer")
       /\ loop.pos <= loop.size /\ loop.size <= MaxFrameSize
       /\ loop.op = "push" => ~cctx.session.ended /\ frame.in + loop.size <= MaxFrameSize
       /\ cctx.session.ended => loop.pos = loop.size
       /\ cctx.session.eaten = loop.pos + (IF loop.op = "buffer" THEN 0 ELSE frame.in)
       /\ loop.op = "end" => loop.size = 0

\* When the last call of a frame returns 0 it has given out bytes.
LastCall ==
  step = "write" =>
    /\ loop.remaining = cctx.session.made - cctx.session.flushed
    /\ loop.mode = "end" => /\ cctx.session.ended /\ loop.pos = loop.size
                            /\ loop.op # "push"
    /\ loop.mode = "end" /\ loop.remaining = 0 => loop.out > 0

\* The file has the frames of the table, and the one being made once a byte of
\* it is written.
FramesOnDisk ==
  /\ \A i \in 1 .. Len(sizes) :
       /\ i <= Len(file) /\ file[i].whole
       /\ sizes[i] = [compressed |-> file[i].size, decompressed |-> file[i].data]
  /\ Len(file) = Len(sizes) + (IF InFrame /\ frame.out > 0 THEN 1 ELSE 0)
  /\ InFrame /\ frame.out > 0 => file[Len(file)].size = frame.out

ZstdInv == ZstdType /\ ParamsKept /\ Counted /\ LastCall /\ FramesOnDisk /\ Zstd!FramesAsAsked

(***************************************************************************)
(* Facts about numbers and the file.                                       *)
(***************************************************************************)

\* The sizes of a frame are not cut to 32 bits.
LEMMA Uncut ==
  ASSUME NEW a \in Nat, NEW b \in Nat, a < b
  PROVE  a % b = a
  OBVIOUS

\* The assumptions on the constants, as numbers.
LEMMA ZstdNumbers ==
  ASSUME Zstd!ConstantsFit
  PROVE  /\ MaxFrameSize \in Nat \ {0} /\ Expansion \in Nat \ {0} /\ OutBuffSize \in Nat
         /\ U32 \in Nat /\ MaxFrameSize + Expansion < U32 /\ Zstd!Unknown \in Nat
  BY DEF Zstd!ConstantsFit, Zstd!Unknown

\* Writing `out' bytes puts them in the frame being made, which they start if
\* the session had given none.
LEMMA FlushFacts ==
  ASSUME ZstdType, NEW n \in Nat, NEW out \in Nat \ {0},
         cctx.session.flushed = frame.out + out,
         Len(file) = n + (IF frame.out > 0 THEN 1 ELSE 0),
         frame.out > 0 => file[Len(file)].size = frame.out,
         NEW g, g = Zstd!Flush(out)
  PROVE  /\ g \in Seq(FileFrame) /\ Len(g) = n + 1
         /\ \A i \in 1 .. n : g[i] = file[i]
         /\ g[n + 1].size = frame.out + out
         /\ g[n + 1].data = cctx.session.eaten
         /\ g[n + 1].whole = (cctx.session.ended /\ cctx.session.flushed = cctx.session.made)
         /\ g[n + 1].made = IF frame.out > 0 THEN file[n + 1].made ELSE cctx.params
<1> DEFINE s == cctx.session
           new == [data |-> 0, size |-> 0, whole |-> FALSE, made |-> cctx.params]
           old == Zstd!Started(out)
           done == s.ended /\ s.flushed = s.made
<1>1. /\ s \in Session /\ cctx.params \in Params /\ file \in Seq(FileFrame)
      /\ frame.out \in Nat /\ Len(file) \in Nat
  BY DEF ZstdType
<1>2. new \in FileFrame /\ new.size = 0 /\ new.made = cctx.params
  BY <1>1 DEF FileFrame
<1>3. s.flushed = out <=> frame.out = 0
  BY <1>1 DEF Session
<1>4. /\ old \in Seq(FileFrame) /\ Len(old) = n + 1
      /\ \A i \in 1 .. n : old[i] = file[i]
      /\ old[n + 1].size = frame.out
      /\ old[n + 1].made = IF frame.out > 0 THEN file[n + 1].made ELSE cctx.params
  <2>1. CASE frame.out = 0
    <3>1. old = Append(file, new) /\ Len(file) = n
      BY <1>1, <1>3, <2>1 DEF Zstd!Started
    <3> HIDE DEF old, new
    <3>2. /\ old \in Seq(FileFrame) /\ Len(old) = n + 1 /\ old[n + 1] = new
          /\ \A i \in 1 .. n : old[i] = file[i]
      BY <1>1, <1>2, <3>1, AppendProperties
    <3> QED
      BY <1>1, <1>2, <2>1, <3>2
  <2>2. CASE frame.out > 0
    <3>1. old = file /\ Len(file) = n + 1
      BY <1>1, <1>3, <2>2 DEF Zstd!Started
    <3> HIDE DEF old
    <3> QED
      BY <1>1, <2>2, <3>1
  <2> QED
    BY <1>1, <2>1, <2>2
<1>5. PICK last : last = Zstd!Grown(old[n + 1], out)
  OBVIOUS
<1>6. g = [old EXCEPT ![n + 1] = last]
  <2>1. g = [old EXCEPT ![Len(old)] = Zstd!Grown(old[Len(old)], out)]
    BY DEF Zstd!Flush
  <2> HIDE DEF old
  <2> QED
    BY <1>4, <1>5, <2>1
<1> HIDE DEF old, new
<1>7. old[n + 1] \in FileFrame /\ s.eaten \in Nat /\ done \in BOOLEAN /\ frame.out + out \in Nat
  BY <1>1, <1>4 DEF Session
<1> HIDE DEF s, done
<1>8. /\ last \in FileFrame /\ last.data = s.eaten /\ last.size = frame.out + out
      /\ last.whole = done /\ last.made = old[n + 1].made
  BY <1>4, <1>5, <1>7 DEF FileFrame, Zstd!Grown, s, done
<1>9. /\ g \in Seq(FileFrame) /\ Len(g) = n + 1 /\ g[n + 1] = last
      /\ \A i \in 1 .. n : g[i] = old[i]
  BY <1>4, <1>6, <1>8, ExceptSeq
<1> QED
  BY <1>4, <1>8, <1>9 DEF s, done

(***************************************************************************)
(* The invariant holds at the start, and a step preserves it.              *)
(***************************************************************************)

\* The context starts with a fresh session.
LEMMA ZstdInit ==
  ASSUME Zstd!ConstantsFit, Zstd!Init
  PROVE  ZstdInv
<1> USE ZstdNumbers DEF Zstd!Init, Zstd!FreshSession, Zstd!Idle
<1>1. ZstdType
  BY DEF ZstdType, Params, Session, Settings
<1>2. ParamsKept /\ Zstd!FramesAsAsked
  BY DEF ParamsKept, Zstd!FramesAsAsked, Settings
<1>3. Counted /\ LastCall /\ FramesOnDisk
  BY DEF Counted, LastCall, FramesOnDisk, InFrame, InLoop
<1> QED
  BY <1>1, <1>2, <1>3 DEF ZstdInv

\* prepareCctx() sets the parameters in three steps, before the first frame.
LEMMA ParamSteps ==
  ASSUME ZstdInv, Zstd!SetLevel \/ Zstd!SetChecksum \/ Zstd!SetWorkers
  PROVE  ZstdInv'
<1>1. /\ ZstdType /\ ParamsKept /\ Counted /\ FramesOnDisk
      /\ cctx.params \in Params /\ cctx.session \in Session
      /\ opts.workers \in BOOLEAN /\ opts.multithread \in BOOLEAN
  BY DEF ZstdInv, ZstdType
<1>2. ASSUME NEW label, NEW field \in {"level", "checksum", "workers"}, NEW value, NEW next,
             NEW params \in Params, params = [cctx.params EXCEPT ![field] = value],
             Zstd!SetParam(label, field, value, next)
      PROVE  /\ step = label /\ step' = next /\ status = "running"
             /\ UNCHANGED <<opts, loop, frame, file, sizes, status>>
             /\ cctx'.session = cctx.session /\ cctx'.params = params
             /\ cctx' \in [params : Params, session : Session]
  <2>1. /\ step = label /\ step' = next /\ status = "running"
        /\ UNCHANGED <<opts, loop, frame, file, sizes, status>>
        /\ cctx' = [cctx EXCEPT !.params[field] = value]
    BY <1>2 DEF Zstd!SetParam, Zstd!Running
  <2>2. cctx' = [cctx EXCEPT !.params = params]
    BY <1>2, <2>1
  <2> QED
    BY <1>1, <2>1, <2>2 DEF ZstdType
<1> DEFINE level == [cctx.params EXCEPT !["level"] = "asked"]
           checksum == [cctx.params EXCEPT !["checksum"] = TRUE]
           workers == [cctx.params EXCEPT !["workers"] = opts.multithread]
<1>3. /\ level \in Params /\ level.level = "asked" /\ level.workers = cctx.params.workers
      /\ checksum \in Params /\ checksum.checksum = TRUE
      /\ checksum.level = cctx.params.level /\ checksum.workers = cctx.params.workers
      /\ workers \in Params /\ workers.workers = opts.multithread
      /\ workers.level = cctx.params.level /\ workers.checksum = cctx.params.checksum
  BY <1>1 DEF Params
<1> HIDE DEF level, checksum, workers
<1>4. /\ step \in Settings /\ status = "running"
       /\ UNCHANGED <<opts, loop, frame, file, sizes, status>>
       /\ cctx'.session = cctx.session /\ cctx' \in [params : Params, session : Session]
       /\ \/ step = "level" /\ step' = "checksum" /\ cctx'.params = level
          \/ /\ step = "checksum" /\ step' = IF opts.workers THEN "workers" ELSE "idle"
             /\ cctx'.params = checksum
          \/ step = "workers" /\ step' = "idle" /\ cctx'.params = workers
  <2>1. CASE Zstd!SetLevel
    <3>1. Zstd!SetParam("level", "level", "asked", "checksum")
      BY <2>1 DEF Zstd!SetLevel
    <3>2. level = [cctx.params EXCEPT !["level"] = "asked"] /\ level \in Params
      BY <1>3 DEF level
    <3>3. /\ step = "level" /\ step' = "checksum" /\ status = "running"
          /\ UNCHANGED <<opts, loop, frame, file, sizes, status>>
          /\ cctx'.session = cctx.session /\ cctx'.params = level
          /\ cctx' \in [params : Params, session : Session]
      BY <1>2, <3>1, <3>2
    <3> QED
      BY <3>3 DEF Settings
  <2>2. CASE Zstd!SetChecksum
    BY <1>2, <1>3, <2>2 DEF Zstd!SetChecksum, Settings, checksum
  <2>3. CASE Zstd!SetWorkers
    BY <1>2, <1>3, <2>3 DEF Zstd!SetWorkers, Settings, workers
  <2> QED
    BY <2>1, <2>2, <2>3
<1>5. file = <<>> /\ sizes = <<>> /\ ~frame.open
  BY <1>1, <1>3, <1>4 DEF ParamsKept
<1>6. ZstdType'
  BY <1>1, <1>3, <1>4 DEF ZstdType, Settings
<1>7. ParamsKept'
  <2>1. CASE step = "level"
    BY <1>1, <1>5, <1>3, <1>4, <2>1 DEF ParamsKept, Settings
  <2>2. CASE step = "checksum"
    <3>1. /\ checksum.level = "asked" /\ checksum.checksum = TRUE /\ ~checksum.workers
          /\ cctx'.params = checksum /\ checksum \in Params
          /\ step' = IF opts.workers THEN "workers" ELSE "idle"
      BY <1>1, <1>3, <1>4, <2>2 DEF ParamsKept
    <3>2. ~opts.workers => checksum = Asked
      BY <1>1, <3>1 DEF Params, Asked
    <3> QED
      BY <1>1, <1>5, <1>4, <3>1, <3>2 DEF ParamsKept, Settings, Asked
  <2>3. CASE step = "workers"
    <3>1. /\ workers.level = "asked" /\ workers.checksum = TRUE /\ opts.workers
          /\ workers.workers = opts.multithread /\ step' = "idle"
          /\ cctx'.params = workers /\ workers \in Params
      BY <1>1, <1>3, <1>4, <2>3 DEF ParamsKept
    <3>2. workers = Asked
      BY <1>1, <3>1 DEF Params, Asked
    <3> QED
      BY <1>1, <1>5, <1>4, <3>1, <3>2 DEF ParamsKept, Settings, Asked
  <2> QED
    BY <1>4, <2>1, <2>2, <2>3 DEF Settings
<1>8. Counted' /\ LastCall' /\ FramesOnDisk' /\ Zstd!FramesAsAsked'
  BY <1>1, <1>5, <1>3, <1>4
     DEF Counted, LastCall, FramesOnDisk, InFrame, InLoop, Zstd!FramesAsAsked, Settings
<1> QED
  BY <1>6, <1>7, <1>8 DEF ZstdInv

\* A new session keeps the parameters.
LEMMA ResetFacts ==
  ASSUME Zstd!ConstantsFit, ZstdType, NEW size \in Nat, Zstd!ResetSession(size)
  PROVE  /\ cctx' \in [params : Params, session : Session]
         /\ cctx'.params = cctx.params
         /\ cctx'.session.eaten = 0 /\ cctx'.session.made = 0 /\ cctx'.session.flushed = 0
         /\ cctx'.session.ended = FALSE
<1>1. PICK s : s = [Zstd!FreshSession EXCEPT !.pledged = size]
  OBVIOUS
<1>2. /\ s \in Session /\ s.eaten = 0 /\ s.made = 0 /\ s.flushed = 0 /\ s.ended = FALSE
  BY <1>1, ZstdNumbers DEF Zstd!FreshSession, Session
<1>3. cctx' = [cctx EXCEPT !.session = s]
  BY <1>1 DEF Zstd!ResetSession
<1> QED
  BY <1>2, <1>3 DEF ZstdType

\* A frame, a piece of one, or the end of one begins.
LEMMA BeginSteps ==
  ASSUME Zstd!ConstantsFit, ZstdInv, Zstd!Begin
  PROVE  ZstdInv'
<1>1. /\ ZstdType /\ ParamsKept /\ Counted /\ FramesOnDisk /\ Zstd!FramesAsAsked /\ step = "idle"
      /\ frame.in \in Nat /\ frame.out \in Nat /\ frame.open \in BOOLEAN
      /\ UNCHANGED <<opts, file, sizes, status>>
  BY DEF ZstdInv, ZstdType, Zstd!Begin, Zstd!BeginBuffer, Zstd!StartFrame, Zstd!PushBytes,
     Zstd!BeginEnd, Zstd!Running
<1>2. cctx.params = Asked
  BY <1>1 DEF ParamsKept, Settings
<1>3. ASSUME NEW n \in Zstd!FrameSizes, Zstd!BeginBuffer(n)
      PROVE  ZstdInv'
  <2>1. n \in Nat /\ n <= MaxFrameSize
    BY ZstdNumbers DEF Zstd!FrameSizes
  <2>2. /\ ~frame.open /\ frame' = [frame EXCEPT !.out = 0] /\ step' = "call"
        /\ loop' = [op |-> "buffer", size |-> n, pos |-> 0, mode |-> "continue",
                    out |-> 0, remaining |-> 0]
        /\ Zstd!ResetSession(n)
    BY <1>3 DEF Zstd!BeginBuffer, Zstd!Idle
  <2>3. /\ cctx' \in [params : Params, session : Session] /\ cctx'.params = cctx.params
        /\ cctx'.session.eaten = 0 /\ cctx'.session.made = 0 /\ cctx'.session.flushed = 0
        /\ cctx'.session.ended = FALSE
    BY <1>1, <2>1, <2>2, ResetFacts
  <2>4. ZstdType'
    BY <1>1, <2>1, <2>2, <2>3 DEF ZstdType, Settings
  <2>5. ParamsKept' /\ Zstd!FramesAsAsked'
    BY <1>1, <1>2, <2>2, <2>3 DEF ParamsKept, Zstd!FramesAsAsked, Settings, Asked
  <2>6. Counted' /\ LastCall'
    BY <1>1, <2>1, <2>2, <2>3, ZstdNumbers DEF Counted, LastCall, InFrame, InLoop, ZstdType
  <2>7. FramesOnDisk'
    BY <1>1, <2>2 DEF FramesOnDisk, InFrame, InLoop, ZstdType
  <2> QED
    BY <2>4, <2>5, <2>6, <2>7 DEF ZstdInv
<1>4. ASSUME NEW n \in Nat, Zstd!StartFrame(n)
      PROVE  ZstdInv'
  <2>2. /\ ~frame.open /\ frame' = [in |-> 0, out |-> 0, open |-> TRUE]
        /\ UNCHANGED <<step, loop>> /\ Zstd!ResetSession(n)
    BY <1>4 DEF Zstd!StartFrame
  <2>3. /\ cctx' \in [params : Params, session : Session] /\ cctx'.params = cctx.params
        /\ cctx'.session.eaten = 0 /\ cctx'.session.made = 0 /\ cctx'.session.flushed = 0
        /\ cctx'.session.ended = FALSE
    BY <1>1, <2>2, ResetFacts
  <2>4. ZstdType'
    BY <1>1, <2>2, <2>3 DEF ZstdType
  <2>5. ParamsKept' /\ Zstd!FramesAsAsked'
    BY <1>1, <1>2, <2>2, <2>3 DEF ParamsKept, Zstd!FramesAsAsked, Settings, Asked
  <2>6. Counted' /\ LastCall'
    BY <1>1, <2>2, <2>3, ZstdNumbers DEF Counted, LastCall, InFrame, InLoop
  <2>7. FramesOnDisk'
    BY <1>1, <2>2 DEF FramesOnDisk, InFrame, InLoop
  <2> QED
    BY <2>4, <2>5, <2>6, <2>7 DEF ZstdInv
<1>5. ASSUME NEW n \in Zstd!FrameSizes, Zstd!PushBytes(n)
      PROVE  ZstdInv'
  <2>1. n \in Nat
    BY ZstdNumbers DEF Zstd!FrameSizes
  <2>2. /\ frame.open /\ frame.in + n <= MaxFrameSize /\ UNCHANGED <<cctx, frame>>
        /\ step' = "call"
        /\ loop' = [op |-> "push", size |-> n, pos |-> 0, mode |-> "continue",
                    out |-> 0, remaining |-> 0]
    BY <1>5 DEF Zstd!PushBytes, Zstd!Idle
  <2>3. ZstdType'
    BY <1>1, <2>1, <2>2 DEF ZstdType, Settings
  <2>4. ParamsKept' /\ Zstd!FramesAsAsked'
    BY <1>1, <1>2, <2>2 DEF ParamsKept, Zstd!FramesAsAsked, Settings, Asked
  <2>5. Counted' /\ LastCall'
    BY <1>1, <2>1, <2>2, ZstdNumbers DEF Counted, LastCall, InFrame, InLoop
  <2>6. FramesOnDisk'
    BY <1>1, <2>2 DEF FramesOnDisk, InFrame, InLoop
  <2> QED
    BY <2>3, <2>4, <2>5, <2>6 DEF ZstdInv
<1>6. CASE Zstd!BeginEnd
  <2>2. /\ frame.open /\ UNCHANGED <<cctx, frame>> /\ step' = "call"
        /\ loop' = [op |-> "end", size |-> 0, pos |-> 0, mode |-> "continue",
                    out |-> 0, remaining |-> 0]
    BY <1>6 DEF Zstd!BeginEnd, Zstd!Idle
  <2>3. ZstdType'
    BY <1>1, <2>2 DEF ZstdType, Settings
  <2>4. ParamsKept' /\ Zstd!FramesAsAsked'
    BY <1>1, <1>2, <2>2 DEF ParamsKept, Zstd!FramesAsAsked, Settings, Asked
  <2>5. Counted' /\ LastCall'
    BY <1>1, <2>2, ZstdNumbers DEF Counted, LastCall, InFrame, InLoop
  <2>6. FramesOnDisk'
    BY <1>1, <2>2 DEF FramesOnDisk, InFrame, InLoop
  <2> QED
    BY <2>3, <2>4, <2>5, <2>6 DEF ZstdInv
<1> QED
  <2>1. \A n \in Zstd!FrameSizes : n \in Nat
    BY ZstdNumbers DEF Zstd!FrameSizes
  <2> QED
    BY <1>3, <1>4, <1>5, <1>6, <2>1, ZstdNumbers DEF Zstd!Begin

\* What a call to ZSTD_compressStream2() does to the session and the locals.
LEMMA CallFacts ==
  ASSUME Zstd!ConstantsFit, ZstdInv, Zstd!Call
  PROVE  \E k \in Nat, f \in Nat, made \in Nat :
           /\ loop.pos + k <= loop.size
           /\ k + f > 0
           /\ cctx'.params = cctx.params /\ cctx'.session \in Session
           /\ cctx' \in [params : Params, session : Session]
           /\ cctx'.session.eaten = cctx.session.eaten + k
           /\ cctx'.session.made = made /\ made <= MaxFrameSize + Expansion
           /\ cctx'.session.flushed = cctx.session.flushed + f
           /\ cctx.session.flushed + f <= made
           /\ cctx'.session.ended = (cctx.session.ended \/ Zstd!Mode = "end")
           /\ loop' = [op |-> loop.op, size |-> loop.size, pos |-> loop.pos + k, mode |-> Zstd!Mode,
                       out |-> f, remaining |-> made - (cctx.session.flushed + f)]
<1> DEFINE s == cctx.session
           T(k, f, made) == [s EXCEPT !.eaten = @ + k, !.made = made, !.flushed = @ + f,
                                      !.ended = @ \/ Zstd!Mode = "end"]
<1>1. /\ ZstdType /\ s \in Session /\ s.eaten \in Nat /\ s.made \in Nat /\ s.flushed \in Nat
      /\ s.ended \in BOOLEAN /\ loop.size \in Nat /\ loop.pos \in Nat /\ loop.pos <= loop.size
      /\ step = "call"
  BY DEF ZstdInv, ZstdType, Session, Counted, InLoop, Zstd!Call, Zstd!Running
<1>2. PICK k \in 0 .. (loop.size - loop.pos), f \in 0 .. OutBuffSize,
           made \in s.made .. (MaxFrameSize + Expansion) :
        /\ Zstd!CompressStream2(s, Zstd!Mode, loop.size - loop.pos, T(k, f, made), k, f)
        /\ cctx' = [cctx EXCEPT !.session = T(k, f, made)]
        /\ loop' = [loop EXCEPT !.pos = @ + k, !.mode = Zstd!Mode, !.out = f,
                                !.remaining = Zstd!Made(T(k, f, made))]
  BY Zenon DEF Zstd!Call
<1>3. /\ k \in Nat /\ k <= loop.size - loop.pos /\ f \in Nat /\ made \in Nat
      /\ made <= MaxFrameSize + Expansion
  BY <1>1, <1>2, ZstdNumbers
<1>4. PICK t : t = T(k, f, made)
  OBVIOUS
<1>5. /\ t \in Session /\ t.eaten = s.eaten + k /\ t.made = made /\ t.flushed = s.flushed + f
      /\ t.ended = (s.ended \/ Zstd!Mode = "end")
  <2>1. PICK e \in BOOLEAN : e = (s.ended \/ Zstd!Mode = "end")
    OBVIOUS
  <2>2. PICK a \in Nat, b \in Nat : a = s.eaten + k /\ b = s.flushed + f
    BY <1>1, <1>3
  <2>3. t = [s EXCEPT !.eaten = a, !.made = made, !.flushed = b, !.ended = e]
    BY <1>4, <2>1, <2>2, Zenon
  <2> QED
    BY <1>1, <1>3, <2>1, <2>2, <2>3 DEF Session
<1>6. /\ k + f > 0 /\ t.flushed <= t.made
  BY <1>2, <1>4 DEF Zstd!CompressStream2
<1>7. Zstd!Made(t) = made - (s.flushed + f)
  BY <1>5 DEF Zstd!Made
<1> HIDE DEF T
<1>8. loop' = [op |-> loop.op, size |-> loop.size, pos |-> loop.pos + k, mode |-> Zstd!Mode,
               out |-> f, remaining |-> made - (s.flushed + f)]
  BY <1>1, <1>2, <1>7, <1>4 DEF ZstdType
<1>9. cctx'.params = cctx.params /\ cctx'.session = t
      /\ cctx' \in [params : Params, session : Session]
  BY <1>1, <1>2, <1>5, <1>4 DEF ZstdType
<1>10. loop.pos + k <= loop.size
  BY <1>1, <1>3
<1> QED
  BY <1>3, <1>5, <1>6, <1>8, <1>9, <1>10

\* ZSTD_compressStream2() takes some input and fills a part of the buffer.
LEMMA CallStep ==
  ASSUME Zstd!ConstantsFit, ZstdInv, Zstd!Call
  PROVE  ZstdInv'
<1> DEFINE s == cctx.session
<1>1. /\ ZstdType /\ ParamsKept /\ Counted /\ FramesOnDisk /\ Zstd!FramesAsAsked
      /\ step = "call" /\ step' = "write" /\ UNCHANGED <<opts, frame, file, sizes, status>>
  BY DEF ZstdInv, Zstd!Call, Zstd!Running
<1>2. /\ s.eaten \in Nat /\ s.made \in Nat /\ s.flushed \in Nat /\ s.ended \in BOOLEAN
      /\ loop.size \in Nat /\ loop.pos \in Nat /\ frame.in \in Nat /\ frame.out \in Nat
      /\ loop.op \in {"none", "buffer", "push", "end"} /\ frame.open \in BOOLEAN
  BY <1>1 DEF ZstdType, Session
<1>3. PICK k \in Nat, f \in Nat, made \in Nat :
        /\ loop.pos + k <= loop.size
        /\ k + f > 0
        /\ cctx'.params = cctx.params /\ cctx'.session \in Session
        /\ cctx' \in [params : Params, session : Session]
        /\ cctx'.session.eaten = s.eaten + k
        /\ cctx'.session.made = made /\ made <= MaxFrameSize + Expansion
        /\ cctx'.session.flushed = s.flushed + f
        /\ s.flushed + f <= made
        /\ cctx'.session.ended = (s.ended \/ Zstd!Mode = "end")
        /\ loop' = [op |-> loop.op, size |-> loop.size, pos |-> loop.pos + k, mode |-> Zstd!Mode,
                    out |-> f, remaining |-> made - (s.flushed + f)]
  BY CallFacts
<1>4. /\ Zstd!Mode \in {"continue", "end"}
      /\ Zstd!Mode = "end" => loop.op # "push" /\ loop.pos = loop.size /\ k = 0
  <2>1. loop.pos <= loop.size
    BY <1>1 DEF Counted, InLoop
  <2> QED
    BY <1>2, <1>3, <2>1 DEF Zstd!Mode
<1>5. made - (s.flushed + f) \in Nat
  BY <1>2, <1>3
<1>6. ZstdType'
  <2>1. /\ opts' \in [workers : BOOLEAN, multithread : BOOLEAN] /\ step' = "write"
        /\ frame' \in [in : Nat, out : Nat, open : BOOLEAN]
        /\ file' \in Seq(FileFrame) /\ sizes' \in Seq([compressed : Nat, decompressed : Nat])
    BY <1>1 DEF ZstdType
  <2>2. loop' \in [op : {"none", "buffer", "push", "end"}, size : Nat, pos : Nat,
                   mode : {"continue", "end"}, out : Nat, remaining : Nat]
    BY <1>2, <1>3, <1>4, <1>5
  <2> QED
    BY <1>3, <2>1, <2>2 DEF ZstdType
<1>7. ParamsKept' /\ Zstd!FramesAsAsked'
  BY <1>1, <1>3 DEF ParamsKept, Zstd!FramesAsAsked, Settings, Asked
<1>8. LastCall'
  <2>1. /\ loop'.remaining = cctx'.session.made - cctx'.session.flushed
        /\ loop'.mode = Zstd!Mode /\ loop'.pos = loop.pos + k /\ loop'.size = loop.size
        /\ loop'.op = loop.op /\ loop'.out = f
    BY <1>3
  <2>2. Zstd!Mode = "end" => /\ cctx'.session.ended /\ loop.pos + k = loop.size
                        /\ loop.op # "push" /\ f > 0
    <3>1. Zstd!Mode = "end" => cctx'.session.ended
      BY <1>3, Zenon
    <3>2. Zstd!Mode = "end" => k = 0 /\ loop.op # "push" /\ loop.pos = loop.size
      BY <1>4
    <3>3. k = 0 => f > 0 /\ loop.pos + k = loop.pos
      BY <1>2, <1>3
    <3> QED
      BY <3>1, <3>2, <3>3, Zenon
  <2> QED
    BY <1>1, <2>1, <2>2 DEF LastCall
<1>9. FramesOnDisk'
  BY <1>1 DEF FramesOnDisk, InFrame, InLoop
<1>10. Counted'
  <2>1. /\ s.flushed = frame.out /\ (frame.open => frame.in <= MaxFrameSize)
        /\ loop.op # "none" /\ (frame.open <=> loop.op # "buffer")
        /\ loop.pos <= loop.size /\ loop.size <= MaxFrameSize
        /\ loop.op = "push" => ~s.ended /\ frame.in + loop.size <= MaxFrameSize
        /\ s.ended => loop.pos = loop.size
        /\ s.eaten = loop.pos + (IF loop.op = "buffer" THEN 0 ELSE frame.in)
        /\ loop.op = "end" => loop.size = 0
    BY <1>1, <1>2 DEF Counted, InFrame, InLoop
  <2>2. /\ loop'.op = loop.op /\ loop'.size = loop.size /\ loop'.pos = loop.pos + k
        /\ loop'.out = f /\ frame' = frame /\ step' = "write"
    BY <1>1, <1>3
  <2>3. cctx'.session.flushed = frame'.out + loop'.out
        /\ cctx'.session.flushed <= cctx'.session.made
        /\ cctx'.session.made <= MaxFrameSize + Expansion
    BY <1>3, <2>1, <2>2
  <2>4. /\ loop'.op = "push" => ~cctx'.session.ended
        /\ cctx'.session.ended => loop'.pos = loop'.size
    BY <1>2, <1>3, <1>4, <2>1, <2>2
  <2>5. cctx'.session.eaten = loop'.pos + (IF loop'.op = "buffer" THEN 0 ELSE frame'.in)
    BY <1>2, <1>3, <2>1, <2>2
  <2>6. loop'.pos <= loop'.size
    BY <1>3, <2>2
  <2> QED
    BY <2>1, <2>2, <2>3, <2>4, <2>5, <2>6 DEF Counted, InFrame, InLoop
<1> QED
  BY <1>6, <1>7, <1>8, <1>9, <1>10 DEF ZstdInv

\* What the flush of the output buffer makes of the file.
LEMMA WriteFacts ==
  ASSUME Zstd!ConstantsFit, ZstdInv, Zstd!Write
  PROVE  LET n == Len(sizes)
             out == frame.out + loop.out
         IN  /\ file' \in Seq(FileFrame)
             /\ \A i \in 1 .. n : file'[i] = file[i]
             /\ Len(file') = n + (IF out > 0 THEN 1 ELSE 0)
             /\ out > 0 => file'[n + 1].size = out
             /\ loop.out > 0 =>
                  /\ file'[n + 1].data = cctx.session.eaten
                  /\ file'[n + 1].whole =
                       (cctx.session.ended /\ cctx.session.flushed = cctx.session.made)
             /\ \A i \in 1 .. Len(file') : file'[i].made = Asked
<1> DEFINE n == Len(sizes)
           out == frame.out + loop.out
<1>1. /\ ZstdType /\ ParamsKept /\ Counted /\ FramesOnDisk /\ Zstd!FramesAsAsked /\ step = "write"
      /\ file' = Zstd!Flush(loop.out)
  BY DEF ZstdInv, Zstd!Write, Zstd!Running
<1>2. /\ n \in Nat /\ frame.out \in Nat /\ loop.out \in Nat /\ file \in Seq(FileFrame)
      /\ Len(file) \in Nat
  BY <1>1 DEF ZstdType
<1>3. /\ cctx.session.flushed = out /\ cctx.params = Asked
      /\ Len(file) = n + (IF frame.out > 0 THEN 1 ELSE 0)
      /\ frame.out > 0 => file[Len(file)].size = frame.out
  BY <1>1, <1>2 DEF Counted, FramesOnDisk, ParamsKept, InFrame, InLoop, Settings
<1>4. \A i \in 1 .. Len(file) : file[i].made = Asked
  BY <1>1 DEF Zstd!FramesAsAsked, Asked
<1>5. CASE loop.out = 0
  <2>1. file' = file /\ out = frame.out
    BY <1>1, <1>2, <1>5 DEF Zstd!Flush
  <2> QED
    BY <1>2, <1>3, <1>4, <1>5, <2>1
<1>6. CASE loop.out > 0
  <2>1. PICK g : g = file'
    OBVIOUS
  <2>2. loop.out \in Nat \ {0} /\ g = Zstd!Flush(loop.out)
    BY <1>1, <1>2, <1>6, <2>1
  <2>3. /\ g \in Seq(FileFrame) /\ Len(g) = n + 1
        /\ \A i \in 1 .. n : g[i] = file[i]
        /\ g[n + 1].size = out
        /\ g[n + 1].data = cctx.session.eaten
        /\ g[n + 1].whole = (cctx.session.ended /\ cctx.session.flushed = cctx.session.made)
        /\ g[n + 1].made = IF frame.out > 0 THEN file[n + 1].made ELSE cctx.params
    BY <1>1, <1>2, <1>3, <2>2, FlushFacts
  <2>4. g[n + 1].made = Asked
    BY <1>2, <1>3, <1>4, <2>3
  <2>5. \A i \in 1 .. Len(g) : g[i].made = Asked
    BY <1>2, <1>3, <1>4, <2>3, <2>4
  <2>6. out > 0
    BY <1>2, <1>6
  <2> QED
    BY <2>1, <2>3, <2>5, <2>6
<1> QED
  BY <1>2, <1>5, <1>6

\* Writing the output buffer makes the frame grow, and ends the loop when
\* libzstd holds nothing any more.
LEMMA WriteStep ==
  ASSUME Zstd!ConstantsFit, ZstdInv, Zstd!Write
  PROVE  ZstdInv'
<1> DEFINE n == Len(sizes)
           out == frame.out + loop.out
           s == cctx.session
<1>1. /\ ZstdType /\ ParamsKept /\ Counted /\ LastCall /\ FramesOnDisk
      /\ step = "write" /\ UNCHANGED <<opts, cctx, status>>
  BY DEF ZstdInv, Zstd!Write, Zstd!Running
<1>2. /\ s.eaten \in Nat /\ s.made \in Nat /\ s.flushed \in Nat /\ s.ended \in BOOLEAN
      /\ loop.size \in Nat /\ loop.pos \in Nat /\ loop.out \in Nat /\ loop.remaining \in Nat
      /\ frame.in \in Nat /\ frame.out \in Nat /\ frame.open \in BOOLEAN
      /\ frame = [in |-> frame.in, out |-> frame.out, open |-> frame.open]
      /\ loop.op \in {"none", "buffer", "push", "end"} /\ loop.mode \in {"continue", "end"}
      /\ n \in Nat /\ out \in Nat
  BY <1>1 DEF ZstdType, Session
<1>3. /\ file' \in Seq(FileFrame)
      /\ \A i \in 1 .. n : file'[i] = file[i]
      /\ Len(file') = n + (IF out > 0 THEN 1 ELSE 0)
      /\ out > 0 => file'[n + 1].size = out
      /\ loop.out > 0 =>
           /\ file'[n + 1].data = s.eaten
           /\ file'[n + 1].whole = (s.ended /\ s.flushed = s.made)
      /\ \A i \in 1 .. Len(file') : file'[i].made = Asked
  BY WriteFacts
<1>4. /\ s.flushed = out /\ s.flushed <= s.made /\ s.made <= MaxFrameSize + Expansion
      /\ frame.open => frame.in <= MaxFrameSize
      /\ loop.op # "none" /\ (frame.open <=> loop.op # "buffer")
      /\ loop.pos <= loop.size /\ loop.size <= MaxFrameSize
      /\ loop.op = "push" => ~s.ended /\ frame.in + loop.size <= MaxFrameSize
      /\ s.ended => loop.pos = loop.size
      /\ s.eaten = loop.pos + (IF loop.op = "buffer" THEN 0 ELSE frame.in)
      /\ loop.op = "end" => loop.size = 0
  BY <1>1, <1>2 DEF Counted, InFrame, InLoop
<1>5. /\ Len(file') \in Nat
      /\ \A i \in 1 .. n :
           /\ i <= Len(file') /\ file'[i].whole
           /\ sizes[i] = [compressed |-> file'[i].size, decompressed |-> file'[i].data]
  BY <1>1, <1>2, <1>3 DEF FramesOnDisk
<1>6. Zstd!FramesAsAsked'
  BY <1>1, <1>3 DEF Zstd!FramesAsAsked, Asked
<1>7. CASE ~Zstd!LoopEnds
  <2>1. /\ step' = "call" /\ UNCHANGED <<loop, sizes>>
        /\ frame' = [in |-> frame.in, out |-> out, open |-> frame.open]
    BY <1>2, <1>7 DEF Zstd!Write
  <2>2. ZstdType'
    BY <1>1, <1>2, <1>3, <2>1 DEF ZstdType, Settings
  <2>3. ParamsKept' /\ LastCall'
    BY <1>1, <2>1 DEF ParamsKept, LastCall, Settings, Asked
  <2>4. Counted'
    BY <1>1, <1>2, <1>4, <2>1 DEF Counted, InFrame, InLoop
  <2>5. FramesOnDisk'
    BY <1>2, <1>3, <1>5, <2>1 DEF FramesOnDisk, InFrame, InLoop
  <2> QED
    BY <1>6, <2>2, <2>3, <2>4, <2>5 DEF ZstdInv
<1>8. CASE Zstd!LoopEnds /\ loop.op = "push"
  <2>1. /\ step' = "idle" /\ loop' = Zstd!Idle /\ UNCHANGED sizes
        /\ frame' = [in |-> frame.in + loop.size, out |-> out, open |-> frame.open]
    BY <1>2, <1>8 DEF Zstd!Write
  <2>2. ZstdType'
    BY <1>1, <1>2, <1>3, <2>1 DEF ZstdType, Settings, Zstd!Idle
  <2>3. ParamsKept' /\ LastCall'
    BY <1>1, <2>1 DEF ParamsKept, LastCall, Settings, Asked
  <2>4. loop.pos = loop.size /\ frame.open
    BY <1>4, <1>8 DEF Zstd!LoopEnds
  <2>5. Counted'
    BY <1>1, <1>2, <1>4, <1>8, <2>1, <2>4 DEF Counted, InFrame, InLoop
  <2>6. FramesOnDisk'
    BY <1>2, <1>3, <1>5, <2>1, <2>4 DEF FramesOnDisk, InFrame, InLoop
  <2> QED
    BY <1>6, <2>2, <2>3, <2>5, <2>6 DEF ZstdInv
<1>9. CASE Zstd!LoopEnds /\ loop.op # "push"
  <2> DEFINE size == IF loop.op = "end" THEN frame.in ELSE loop.size
  <2>1. /\ step' = "idle" /\ loop' = Zstd!Idle
        /\ frame' = [in |-> frame.in, out |-> out, open |-> FALSE]
        /\ Zstd!seekTableAdd(out, size)
    BY <1>2, <1>9 DEF Zstd!Write
  <2>2. loop.mode = "end" /\ loop.remaining = 0
    BY <1>9 DEF Zstd!LoopEnds
  <2>3. /\ s.ended /\ loop.pos = loop.size /\ loop.out > 0
        /\ loop.remaining = s.made - s.flushed
    BY <1>1, <2>2 DEF LastCall
  <2>4. s.flushed = s.made /\ out > 0 /\ s.eaten = size /\ size \in Nat
    BY <1>2, <1>4, <1>9, <2>2, <2>3
  <2>5. /\ file'[n + 1].size = out /\ file'[n + 1].data = size /\ file'[n + 1].whole
        /\ Len(file') = n + 1
    BY <1>3, <2>3, <2>4
  <2>6. out < U32 /\ size < U32
    <3>1. size <= MaxFrameSize
      BY <1>4, <1>9
    <3>2. out <= MaxFrameSize + Expansion
      BY <1>4, <2>4
    <3> HIDE DEF out, size
    <3>3. out \in Nat /\ size \in Nat
      BY <1>2, <2>4
    <3> QED
      BY <3>1, <3>2, <3>3, ZstdNumbers
  <2> HIDE DEF out, size, n
  <2>7. out % U32 = out /\ size % U32 = size
    BY <1>2, <2>4, <2>6, Uncut, ZstdNumbers
  <2>8. sizes' = Append(sizes, [compressed |-> out, decompressed |-> size])
    BY <2>1, <2>7 DEF Zstd!seekTableAdd
  <2>9. /\ sizes' \in Seq([compressed : Nat, decompressed : Nat]) /\ Len(sizes') = n + 1
        /\ \A i \in 1 .. n : sizes'[i] = sizes[i]
        /\ sizes'[n + 1] = [compressed |-> out, decompressed |-> size]
    BY <1>1, <1>2, <2>4, <2>8, AppendProperties DEF ZstdType, n
  <2>10. ZstdType'
    BY <1>1, <1>2, <1>3, <2>1, <2>9 DEF ZstdType, Settings, Zstd!Idle
  <2>11. ParamsKept' /\ LastCall'
    BY <1>1, <2>1 DEF ParamsKept, LastCall, Settings, Asked
  <2>12. Counted'
    BY <1>1, <1>4, <2>1 DEF Counted, InFrame, InLoop
  <2>13. ASSUME NEW i \in 1 .. n + 1
         PROVE  /\ i <= Len(file') /\ file'[i].whole
                /\ sizes'[i] = [compressed |-> file'[i].size, decompressed |-> file'[i].data]
    <3>1. CASE i \in 1 .. n
      BY <1>5, <2>9, <3>1, Zenon
    <3>2. CASE i = n + 1
      <4>1. i \in Nat /\ i <= Len(file')
        BY <1>2, <2>5, <3>2
      <4> QED
        BY <2>5, <2>9, <3>2, <4>1
    <3> QED
      BY <1>2, <3>1, <3>2
  <2>14. FramesOnDisk'
    BY <1>2, <2>1, <2>5, <2>9, <2>13 DEF FramesOnDisk, InFrame, InLoop
  <2> QED
    BY <1>6, <2>10, <2>11, <2>12, <2>14 DEF ZstdInv
<1> QED
  BY <1>7, <1>8, <1>9

\* Every step keeps the invariant, one action after another.
LEMMA ZstdInductive ==
  ASSUME Zstd!ConstantsFit
  PROVE  ZstdInv /\ [Zstd!Next]_(Zstd!vars) => ZstdInv'
<1> SUFFICES ASSUME ZstdInv, [Zstd!Next]_(Zstd!vars)
             PROVE  ZstdInv'
  OBVIOUS
<1>1. CASE Zstd!Begin
  BY <1>1, BeginSteps
<1>2. CASE Zstd!SetLevel \/ Zstd!SetChecksum \/ Zstd!SetWorkers
  BY <1>2, ParamSteps
<1>3. CASE Zstd!Call
  BY <1>3, CallStep
<1>4. CASE Zstd!Write
  BY <1>4, WriteStep
<1>5. CASE Zstd!CallFails \/ Zstd!WriteFails \/ Zstd!Finish \/ UNCHANGED Zstd!vars
  <2>1. UNCHANGED <<opts, cctx, step, loop, frame, file, sizes>>
    BY <1>5 DEF Zstd!CallFails, Zstd!WriteFails, Zstd!Finish, Zstd!vars
  <2>2. ZstdType' /\ ParamsKept'
    BY <2>1 DEF ZstdInv, ZstdType, ParamsKept, Asked
  <2>3. Counted' /\ LastCall'
    BY <2>1 DEF ZstdInv, Counted, LastCall, InFrame, InLoop
  <2>4. FramesOnDisk' /\ Zstd!FramesAsAsked'
    BY <2>1 DEF ZstdInv, FramesOnDisk, Zstd!FramesAsAsked, InFrame, InLoop
  <2> QED
    BY <2>2, <2>3, <2>4 DEF ZstdInv
<1> QED
  BY <1>1, <1>2, <1>3, <1>4, <1>5 DEF Zstd!Next, Zstd!Step

\* ZstdInv holds of every state.
LEMMA ZstdInvariance ==
  ASSUME Zstd!ConstantsFit
  PROVE  Zstd!Spec => []ZstdInv
<1>1. Zstd!Init => ZstdInv
  BY ZstdInit
<1>2. ZstdInv /\ [Zstd!Next]_(Zstd!vars) => ZstdInv'
  BY ZstdInductive
<1> QED
  BY <1>1, <1>2, PTL DEF Zstd!Spec

\* The table of the frames is true between any two steps.
LEMMA ZstdTells ==
  ASSUME ZstdInv
  PROVE  TableDescribesFile
<1>1. FramesOnDisk /\ Len(sizes) \in Nat
  BY DEF ZstdInv, ZstdType
<1>2. step = "idle" /\ ~frame.open => Len(file) = Len(sizes)
  BY <1>1 DEF FramesOnDisk, InFrame, InLoop
<1> QED
  BY <1>1, <1>2 DEF FramesOnDisk, TableDescribesFile, Zstd!TableDescribesFile

\* TableDescribesFile: the seek table describes the frames of the file, which
\* are whole, however libzstd takes its input and gives its output.
THEOREM TableTellsTruth == Zstd!Spec => []TableDescribesFile
<1>1. Zstd!Spec => []ZstdInv
  BY ZstdInvariance, ArchiveAssumption
<1>2. ZstdInv => TableDescribesFile
  BY ZstdTells
<1> QED
  BY <1>1, <1>2, PTL

\* FramesAsAsked: every frame is made with the parameters that prepareCctx()
\* set once.
THEOREM FramesCompressedAsAsked == Zstd!Spec => []FramesAsAsked
<1>1. Zstd!Spec => []ZstdInv
  BY ZstdInvariance, ArchiveAssumption
<1>2. ZstdInv => FramesAsAsked
  BY DEF ZstdInv, FramesAsAsked
<1> QED
  BY <1>1, <1>2, PTL

(***************************************************************************)
(* Archive: both invariants, and what one half knows of the other.  The    *)
(* sizes given to seekTableAdd() are those that the loops counted, and the *)
(* table is written after the last frame.                                  *)
(***************************************************************************)

Together ==
  /\ IInv /\ ZstdInv
  /\ given = sizes
  /\ pc = "done" \/ status = "ok" => step = "idle" /\ ~frame.open

\* Both halves start so.
LEMMA TogetherInit ==
  ASSUME ArchiveInit
  PROVE  Together
<1>1. IInv
  BY InitInv DEF ArchiveInit, Init, OnDisk, IInv
<1>2. ZstdInv
  BY ZstdInit, ArchiveAssumption DEF ArchiveInit
<1> QED
  BY <1>1, <1>2 DEF ArchiveInit, Init, Zstd!Init, Together

\* A step of the loops ends no frame, or one whose sizes SeekTable takes.
LEMMA FrameEnds ==
  ASSUME ZstdInv, Zstd!Next
  PROVE  sizes' = sizes \/ (sizes' # sizes /\ \E e \in Entry : sizes' = Append(sizes, e))
<1>1. CASE Zstd!Write /\ sizes' # sizes
  <2> DEFINE out == frame.out + loop.out
             data == IF loop.op = "end" THEN frame.in ELSE loop.size
  <2>1. /\ sizes' = Append(sizes, [compressed |-> out % U32, decompressed |-> data % U32])
        /\ step = "write" /\ loop.op # "push"
    BY <1>1 DEF Zstd!Write, Zstd!Running, Zstd!seekTableAdd
  <2>2. ZstdType /\ Counted /\ InFrame /\ InLoop
    BY <2>1 DEF ZstdInv, InFrame, InLoop
  <2>3. /\ frame.out \in Nat /\ loop.out \in Nat /\ frame.in \in Nat /\ loop.size \in Nat
        /\ cctx.session.made \in Nat /\ cctx.session.flushed \in Nat
        /\ loop.op \in {"buffer", "end"} /\ frame.open \in BOOLEAN
    BY <2>1, <2>2 DEF ZstdType, Session, Counted
  <2>4. out \in 0 .. MaxFrameSize + Expansion /\ data \in 0 .. MaxFrameSize
    BY <2>1, <2>2, <2>3, ZstdNumbers, ArchiveAssumption DEF Counted
  <2>5. out % U32 = out /\ data % U32 = data
    BY <2>4, Uncut, ZstdNumbers, ArchiveAssumption
  <2>6. out \in Sizes /\ data \in Sizes
    BY <2>4, ZstdNumbers, ArchiveAssumption
  <2>7. [compressed |-> out % U32, decompressed |-> data % U32] \in Entry
    BY <2>5, <2>6 DEF Entry
  <2> QED
    BY <1>1, <2>1, <2>7
<1>2. CASE ~Zstd!Write
  <2>1. sizes' = sizes
    BY <1>2 DEF Zstd!Next, Zstd!Begin, Zstd!BeginBuffer, Zstd!StartFrame, Zstd!PushBytes,
       Zstd!BeginEnd, Zstd!Step, Zstd!SetLevel, Zstd!SetChecksum, Zstd!SetWorkers,
       Zstd!SetParam, Zstd!Call, Zstd!CallFails, Zstd!WriteFails, Zstd!Finish
  <2> QED
    BY <2>1
<1> QED
  BY <1>1, <1>2

\* The callers finish between two frames.
LEMMA FinishesIdle ==
  ASSUME Zstd!Next, status' = "ok"
  PROVE  step' = "idle" /\ ~frame'.open
<1>1. Zstd!Finish
  BY DEF Zstd!Next, Zstd!Begin, Zstd!BeginBuffer, Zstd!StartFrame, Zstd!PushBytes,
     Zstd!BeginEnd, Zstd!Step, Zstd!SetLevel, Zstd!SetChecksum, Zstd!SetWorkers,
     Zstd!SetParam, Zstd!Call, Zstd!Write, Zstd!CallFails, Zstd!WriteFails, Zstd!Running
<1> QED
  BY <1>1 DEF Zstd!Finish, Zstd!Running

\* A step of the loops is one of both halves, and keeps them in step.
LEMMA CompressStep ==
  ASSUME Together, Compress
  PROVE  [Next]_vars /\ pc' # "done" /\ given' = sizes'
<1>1. pc = "idle" /\ Zstd!Next /\ RecordsFrame /\ given = sizes /\ ZstdInv
  BY DEF Together, Compress
<1>2. CASE sizes' = sizes
  BY <1>1, <1>2 DEF RecordsFrame, vars
<1>3. CASE sizes' # sizes
  <2>1. PICK e \in Entry : sizes' = Append(sizes, e)
    BY <1>1, <1>3, FrameEnds
  <2>2. Last(sizes') = e
    <3>1. sizes \in Seq([compressed : Nat, decompressed : Nat])
      BY <1>1 DEF ZstdInv, ZstdType
    <3>2. Len(sizes') = Len(sizes) + 1 /\ sizes'[Len(sizes) + 1] = e
      BY <2>1, <3>1
    <3> QED
      BY <3>2 DEF Last
  <2>3. Add(e)
    BY <1>1, <1>3, <2>2 DEF RecordsFrame
  <2>4. given' = Append(given, e) /\ pc' # "done"
    BY <1>1, <2>3 DEF Add
  <2> QED
    BY <1>1, <2>1, <2>3, <2>4 DEF Next
<1> QED
  BY <1>2, <1>3

\* Together is inductive.
LEMMA TogetherStep ==
  ASSUME Together, [ArchiveNext]_<<vars, zstdVars>>
  PROVE  Together'
<1>1. CASE Compress
  <2>1. IInv'
    BY <1>1, CompressStep, InvStep, OnDiskStep DEF IInv, Together
  <2>2. ZstdInv'
    BY <1>1, ZstdInductive, ArchiveAssumption DEF Compress, Together
  <2> QED
    BY <1>1, <2>1, <2>2, CompressStep, FinishesIdle DEF Compress, Together
<1>2. CASE AddFrame \/ FinishTable \/ UNCHANGED <<vars, zstdVars>>
  <2>1. UNCHANGED zstdVars /\ [Next]_vars
    BY <1>2 DEF AddFrame, Grow, FinishTable, Next
  <2>2. IInv'
    BY <2>1, InvStep, OnDiskStep DEF IInv, Together
  <2>3. ZstdInv'
    <3>1. UNCHANGED Zstd!vars
      BY <2>1 DEF zstdVars, Zstd!vars
    <3> QED
      BY <3>1, ZstdInductive, ArchiveAssumption DEF Together
  <2>4. given' = given /\ (pc' = "done" => pc = "done" \/ status = "ok")
    BY <1>2 DEF AddFrame, Grow, FinishTable, Double, Realloc, ReallocFails, Store,
       writeSeekTable, vars
  <2> QED
    BY <2>1, <2>2, <2>3, <2>4 DEF Together, zstdVars
<1> QED
  BY <1>1, <1>2 DEF ArchiveNext

\* The loops around ZSTD_compressStream2(), the array that grows, and the bytes
\* written at the end together give an archive that can be read at random: a
\* reader finds in the table the frames that are in the file.
THEOREM ArchiveReadable == ArchiveSpec => []ReaderKnowsFile
<1>1. ArchiveInit => Together
  BY TogetherInit
<1>2. Together /\ [ArchiveNext]_<<vars, zstdVars>> => Together'
  BY TogetherStep
<1>3. Together => ReaderKnowsFile
  <2> SUFFICES ASSUME Together, pc = "done", ~skip
               PROVE  /\ reader(disk) = FramesInFile
                      /\ \A i \in 1 .. Len(file) : file[i].whole
    BY DEF ReaderKnowsFile
  <2>1. reader(disk) = sizes
    BY RecordedEntries DEF Together, IInv, OnDisk
  <2>2. /\ Len(file) = Len(sizes)
        /\ \A i \in 1 .. Len(sizes) :
             /\ file[i].whole
             /\ sizes[i] = [compressed |-> file[i].size, decompressed |-> file[i].data]
    BY ZstdTells DEF Together, TableDescribesFile, Zstd!TableDescribesFile
  <2>3. sizes = [i \in 1 .. Len(sizes) |-> sizes[i]]
    BY DEF Together, ZstdInv, ZstdType
  <2>4. sizes = FramesInFile
    BY <2>2, <2>3, Zenon DEF FramesInFile
  <2> QED
    BY <2>1, <2>2, <2>4
<1> QED
  BY <1>1, <1>2, <1>3, PTL DEF ArchiveSpec
=============================================================================
