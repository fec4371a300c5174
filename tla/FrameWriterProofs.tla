-------------------------- MODULE FrameWriterProofs --------------------------
(***************************************************************************)
(* What the proofs about the three ways to read an input share: facts      *)
(* about the helpers that read a tar stream, about the elements of an      *)
(* archive, about the operations on the frame being built, and about the   *)
(* frames that Framing promises.                                           *)
(***************************************************************************)
EXTENDS FrameWriter, SequenceTheorems, WellFoundedInduction, TLAPS

\* % by a positive number stays below it, and below what it is taken of.
LEMMA ModFacts ==
  ASSUME NEW a \in Nat, NEW b \in Nat \ {0}
  PROVE  a % b \in 0 .. b - 1 /\ a % b <= a /\ (a < b => a % b = a)
  OBVIOUS

\* A byte before the k-th block is in one of the first k blocks.
LEMMA DivLess ==
  ASSUME NEW n \in Nat, NEW k \in Nat, NEW b \in Nat \ {0}, n < k * b
  PROVE  n \div b \in Nat /\ n \div b < k
  OBVIOUS

\* The padded size of a payload is a number of bytes.
LEMMA PaddedNat ==
  ASSUME NEW n \in Nat
  PROVE  Padded(n) \in Nat /\ Padded(n) >= n
<1>1. TarBlock \in Nat \ {0} /\ n % TarBlock \in 0 .. TarBlock - 1 /\ n % TarBlock <= n
  BY ModFacts, TarAssumption
<1>2. PICK m \in 0 .. TarBlock - 1 : m = n % TarBlock
  BY <1>1
<1> QED
  BY <1>1, <1>2 DEF Padded

\* A nonempty set of naturals has a least element.
LEMMA MinFacts ==
  ASSUME NEW S \in SUBSET Nat, S # {}
  PROVE  Min(S) \in S /\ \A y \in S : Min(S) <= y
<1>1. PICK x \in S : \A y \in S : ~(<<y, x>> \in OpToRel(<, Nat))
  BY NatLessThanWellFounded, WFMin
<1>2. ASSUME NEW y \in S PROVE x <= y
  <2>1. SUFFICES ASSUME y < x PROVE FALSE
    OBVIOUS
  <2>2. <<y, x>> \in Nat \X Nat /\ <<y, x>>[1] = y /\ <<y, x>>[2] = x
    OBVIOUS
  <2>3. <<y, x>> \in OpToRel(<, Nat)
    BY <2>1, <2>2 DEF OpToRel
  <2> QED
    BY <1>1, <2>3
<1> QED
  BY <1>2 DEF Min

\* paxSize() returns a 64-bit value.
LEMMA PaxSizeType ==
  ASSUME NEW st \in Stream, NEW from \in Nat, NEW len \in Nat
  PROVE  paxSize(st, from, len) \in 0 .. U64Max
<1> DEFINE found == {i \in 1 .. Len(st.blocks) :
                       /\ from <= (i - 1) * TarBlock
                       /\ (i - 1) * TarBlock < from + len
                       /\ st.blocks[i].pax # NoSize}
<1>1. ASSUME NEW i \in found PROVE st.blocks[i].pax \in 0 .. U64Max
  <2>1. st.blocks \in Seq(Block) /\ i \in 1 .. Len(st.blocks)
    BY DEF Stream
  <2>2. st.blocks[i] \in Block
    BY <2>1
  <2> QED
    BY <2>2 DEF Block
<1>2. found # {} => Min(found) \in found
  <2>1. found \subseteq Nat
    BY DEF Stream
  <2> HIDE DEF found
  <2> QED
    BY <2>1, MinFacts
<1>3. NoSize \in 0 .. U64Max
  BY TarAssumption DEF NoSize
<1>4. paxSize(st, from, len) = IF found = {} THEN NoSize ELSE st.blocks[Min(found)].pax
  BY DEF paxSize
<1> HIDE DEF found
<1> QED
  BY <1>1, <1>2, <1>3, <1>4

\* tarEntrySize() returns a 64-bit value, and leaves one for the next entry.
LEMMA EntrySizeType ==
  ASSUME NEW h \in Block, NEW p \in 0 .. U64Max
  PROVE  /\ tarEntrySize(h, p) \in 0 .. U64Max /\ PaxLeft(h, p) \in 0 .. U64Max
         /\ h.size \in 0 .. U64Max
  BY TarAssumption DEF tarEntrySize, PaxLeft, NoSize, Block

\* A complete block of the stream is one of its blocks.
LEMMA BlockAtType ==
  ASSUME NEW st \in Stream, NEW off \in Nat, HasBlock(st, off)
  PROVE  BlockAt(st, off) \in Block
<1>1. st.blocks \in Seq(Block) /\ st.tail \in 0 .. TarBlock - 1 /\ TarBlock \in Nat \ {0}
  BY TarAssumption DEF Stream
<1>2. off < Len(st.blocks) * TarBlock
  BY <1>1 DEF HasBlock, Total
<1>3. Len(st.blocks) \in Nat
  BY <1>1
<1>4. off \div TarBlock \in Nat /\ off \div TarBlock < Len(st.blocks)
  BY <1>1, <1>2, <1>3, DivLess
<1> QED
  BY <1>1, <1>4 DEF BlockAt

\* The blocks of a sparse map between the header at `off' and its payload: they
\* end within the stream, or one past it.
Extents(st, off) ==
  Min({k \in 1 .. Len(st.blocks) + 1 :
         \/ ~HasBlock(st, off + k * TarBlock)
         \/ ~BlockAt(st, off + k * TarBlock).more})

\* There is a last one, the first after which no other follows.
LEMMA ExtentsFacts ==
  ASSUME NEW st \in Stream, NEW off \in Nat
  PROVE  /\ Extents(st, off) \in Nat \ {0}
         /\ \A k \in 1 .. Extents(st, off) :
              k = Extents(st, off) <=> \/ ~HasBlock(st, off + k * TarBlock)
                                       \/ ~BlockAt(st, off + k * TarBlock).more
         /\ SparseExt(st, off) =
              IF hasSparseExtension(BlockAt(st, off)) THEN TarBlock * Extents(st, off) ELSE 0
<1> DEFINE Last(k) == \/ ~HasBlock(st, off + k * TarBlock)
                      \/ ~BlockAt(st, off + k * TarBlock).more
           S == {k \in 1 .. Len(st.blocks) + 1 : Last(k)}
<1>1. /\ st.tail \in Nat /\ st.tail < TarBlock /\ TarBlock \in Nat \ {0}
      /\ Len(st.blocks) \in Nat
  BY TarAssumption DEF Stream
<1>2. PICK n \in Nat : n = Len(st.blocks) + 1
  BY <1>1
<1>3. n \in S
  <2>1. ~HasBlock(st, off + n * TarBlock)
    <3>1. n * TarBlock = Len(st.blocks) * TarBlock + TarBlock /\ Len(st.blocks) * TarBlock \in Nat
      BY <1>1, <1>2
    <3> QED
      BY <1>1, <3>1 DEF HasBlock, Total
  <2> QED
    BY <1>1, <1>2, <2>1
<1>4. S \in SUBSET Nat /\ S # {}
  BY <1>1, <1>3
<1>5. /\ Extents(st, off) = Min(S)
      /\ SparseExt(st, off) = IF hasSparseExtension(BlockAt(st, off)) THEN TarBlock * Min(S) ELSE 0
  BY DEF SparseExt, Extents
<1>6. PICK min \in S : min = Min(S) /\ \A y \in S : min <= y
  <2> HIDE DEF S
  <2> QED
    BY <1>4, MinFacts
<1>7. \A k \in 1 .. n : k \in S <=> Last(k)
  BY <1>2
<1>8. min \in 1 .. n
  BY <1>2
<1> HIDE DEF S, Last
<1>9. \A k \in 1 .. min : k = min <=> Last(k)
  BY <1>6, <1>7, <1>8
<1>10. min \in Nat \ {0}
  BY <1>8
<1> USE DEF Last
<1> QED
  BY <1>5, <1>6, <1>9, <1>10

\* They have a number of bytes.
LEMMA SparseExtNat ==
  ASSUME NEW st \in Stream, NEW off \in Nat
  PROVE  SparseExt(st, off) \in Nat
<1>1. PICK n \in Nat : n = Extents(st, off)
  BY ExtentsFacts
<1>2. SparseExt(st, off) = IF hasSparseExtension(BlockAt(st, off)) THEN TarBlock * n ELSE 0
  BY <1>1, ExtentsFacts
<1> QED
  BY <1>2, TarAssumption

(***************************************************************************)
(* The elements of an archive.                                             *)
(***************************************************************************)

\* A stream has a number of bytes.
LEMMA TotalType ==
  ASSUME NEW st \in Stream
  PROVE  Total(st) \in Nat /\ TarBlock \in Nat \ {0}
  BY TarAssumption DEF Total, Stream

\* From a place in a stream, the layout goes on at a later one: after a null
\* block ...
LEMMA AfterNull ==
  ASSUME NEW st \in Stream, NEW off \in Nat, IsNullBlock(st, off)
  PROVE  off + TarBlock \in off + 1 .. Total(st) /\ off + TarBlock \in Nat
  BY TotalType DEF IsNullBlock, HasBlock

\* ... and after an entry.
LEMMA AfterEntry ==
  ASSUME NEW st \in Stream, NEW off \in Nat, NEW pax \in 0 .. U64Max,
         HasBlock(st, off), IsWholeEntry(st, off, pax)
  PROVE  /\ EntryEnd(st, off, pax) \in off + 1 .. Total(st)
         /\ EntryEnd(st, off, pax) \in Nat
         /\ PaxNext(st, off, pax) \in 0 .. U64Max
<1>1. BlockAt(st, off) \in Block
  BY BlockAtType
<1>2. /\ tarEntrySize(BlockAt(st, off), pax) \in 0 .. U64Max
      /\ PaxLeft(BlockAt(st, off), pax) \in 0 .. U64Max
      /\ BlockAt(st, off).size \in 0 .. U64Max
  BY <1>1, EntrySizeType
<1>3. /\ Total(st) \in Nat /\ TarBlock \in Nat \ {0} /\ U64Max \in Nat
      /\ off + TarBlock \in Nat
  BY TotalType, TarAssumption
<1>4. SparseExt(st, off) \in Nat /\ Padded(tarEntrySize(BlockAt(st, off), pax)) \in Nat
  BY <1>2, <1>3, SparseExtNat, PaddedNat
<1>5. EntryEnd(st, off, pax) \in off + 1 .. Total(st) /\ EntryEnd(st, off, pax) \in Nat
  BY <1>3, <1>4 DEF EntryEnd, IsWholeEntry
<1>6. PaxNext(st, off, pax) \in 0 .. U64Max
  <2>1. paxSize(st, off + TarBlock, BlockAt(st, off).size) \in 0 .. U64Max
    <3>1. BlockAt(st, off).size \in Nat
      BY <1>2, <1>3
    <3> QED
      BY <1>3, <3>1, PaxSizeType
  <2> QED
    BY <1>2, <2>1 DEF PaxNext
<1> QED
  BY <1>5, <1>6

\* A place is a byte and a size.
LEMMA PlaceFacts ==
  ASSUME NEW st \in Stream, NEW off, NEW pax
  PROVE  <<off, pax>> \in Places(st) <=> off \in 0 .. Total(st) /\ pax \in 0 .. U64Max
  BY DEF Places

\* What the layout is at a place depends on later ones only.
LEMMA LayoutLocal ==
  ASSUME NEW st \in Stream, NEW off, NEW pax, <<off, pax>> \in Places(st),
         NEW f, NEW g,
         \A end \in off + 1 .. Total(st), next \in 0 .. U64Max :
           f[<<end, next>>] = g[<<end, next>>]
  PROVE  LayoutAt(f, st, off, pax) = LayoutAt(g, st, off, pax)
<1>1. off \in Nat /\ pax \in 0 .. U64Max
  BY PlaceFacts, TotalType
<1>2. CASE off = Total(st) \/ ~HasBlock(st, off)
  BY <1>2 DEF LayoutAt
<1>3. CASE off # Total(st) /\ HasBlock(st, off) /\ IsNullBlock(st, off)
  <2>1. f[<<off + TarBlock, pax>>] = g[<<off + TarBlock, pax>>]
    BY <1>1, <1>3, AfterNull
  <2> QED
    BY <1>3, <2>1 DEF LayoutAt
<1>4. CASE off # Total(st) /\ HasBlock(st, off) /\ ~IsNullBlock(st, off)
  <2>1. CASE ~IsWholeEntry(st, off, pax)
    BY <1>4, <2>1 DEF LayoutAt
  <2>2. CASE IsWholeEntry(st, off, pax)
    <3>1. f[<<EntryEnd(st, off, pax), PaxNext(st, off, pax)>>]
            = g[<<EntryEnd(st, off, pax), PaxNext(st, off, pax)>>]
      BY <1>1, <1>4, <2>2, AfterEntry
    <3> QED
      BY <1>4, <2>2, <3>1 DEF LayoutAt
  <2> QED
    BY <2>1, <2>2
<1> QED
  BY <1>2, <1>3, <1>4

\* `rest' is the layout of the last bytes of a stream, fewer than `n'.
IsLayout(rest, st, n) ==
  \A p \in Places(st) :
    Total(st) - p[1] < n => rest[p] = LayoutAt(rest, st, p[1], p[2])

\* A set of naturals that holds 0, and the successor of each of its elements,
\* is Nat: the induction the proofs about sequences and streams rest on.
LEMMA SetInduction ==
  ASSUME NEW S, 0 \in S, \A n \in Nat : n \in S => n + 1 \in S
  PROVE  Nat \subseteq S
<1>1. SUFFICES ASSUME Nat \ S # {} PROVE FALSE
  OBVIOUS
<1>2. PICK x \in Nat \ S : \A y \in Nat \ S : ~(<<y, x>> \in OpToRel(<, Nat))
  BY <1>1, NatLessThanWellFounded, WFMin
<1>3. x \in Nat /\ x # 0 /\ x \notin S
  OBVIOUS
<1> DEFINE y == x - 1
<1>4. y \in Nat /\ y < x /\ y + 1 = x
  BY <1>3
<1> HIDE DEF y
<1>5. <<y, x>> \in OpToRel(<, Nat)
  BY <1>3, <1>4 DEF OpToRel
<1>6. y \in S
  BY <1>2, <1>4, <1>5
<1> QED
  BY <1>3, <1>4, <1>6

\* The recursive function Rest(st) is what its definition says.
LEMMA RestDef ==
  ASSUME NEW st \in Stream, NEW off, NEW pax, <<off, pax>> \in Places(st)
  PROVE  Rest(st)[<<off, pax>>] = LayoutAt(Rest(st), st, off, pax)
<1> DEFINE S == {n \in Nat : \E g : IsLayout(g, st, n)}
           P == Places(st)
<1>0. /\ Total(st) \in Nat
      /\ \A p \in P : /\ p = <<p[1], p[2]>> /\ p[1] \in 0 .. Total(st) /\ p[2] \in 0 .. U64Max
                      /\ Total(st) - p[1] \in Nat
  BY TotalType DEF Places
<1>1. 0 \in S
  BY <1>0 DEF IsLayout
<1>2. ASSUME NEW n \in Nat, n \in S PROVE n + 1 \in S
  <2>1. PICK g : IsLayout(g, st, n)
    BY <1>2
  <2> DEFINE h == [p \in P |-> IF Total(st) - p[1] < n THEN g[p]
                               ELSE LayoutAt(g, st, p[1], p[2])]
  <2>2. \A p \in P : h[p] = IF Total(st) - p[1] < n THEN g[p]
                            ELSE LayoutAt(g, st, p[1], p[2])
    OBVIOUS
  <2> HIDE DEF h
  <2>3. ASSUME NEW p \in P, Total(st) - p[1] < n + 1
        PROVE  h[p] = LayoutAt(h, st, p[1], p[2])
    <3>1. ASSUME NEW end \in p[1] + 1 .. Total(st), NEW next \in 0 .. U64Max
          PROVE  g[<<end, next>>] = h[<<end, next>>]
      <4>1. end \in 0 .. Total(st) /\ Total(st) - end < n
        BY <1>0, <2>3
      <4>2. <<end, next>> \in P
        BY <4>1, PlaceFacts
      <4> QED
        BY <2>2, <4>1, <4>2
    <3>2. <<p[1], p[2]>> \in Places(st)
      BY <1>0, Zenon
    <3>3. LayoutAt(g, st, p[1], p[2]) = LayoutAt(h, st, p[1], p[2])
      <4> DEFINE a == p[1]
                 b == p[2]
      <4>1. <<a, b>> \in Places(st)
        BY <3>2
      <4>2. \A end \in a + 1 .. Total(st), next \in 0 .. U64Max :
              g[<<end, next>>] = h[<<end, next>>]
        BY <3>1
      <4> HIDE DEF a, b
      <4>3. LayoutAt(g, st, a, b) = LayoutAt(h, st, a, b)
        BY <4>1, <4>2, LayoutLocal
      <4> QED
        BY <4>3 DEF a, b
    <3>4. h[p] = LayoutAt(g, st, p[1], p[2])
      BY <2>1, <2>2 DEF IsLayout
    <3> QED
      BY <3>3, <3>4
  <2>4. IsLayout(h, st, n + 1)
    BY <2>3 DEF IsLayout
  <2> QED
    BY <2>4
<1>3. Total(st) + 1 \in S
  <2> HIDE DEF S
  <2> QED
    BY <1>0, <1>1, <1>2, SetInduction
<1>4. PICK g : IsLayout(g, st, Total(st) + 1)
  BY <1>3
<1> DEFINE Unfolds(rest) == rest = [p \in P |-> LayoutAt(rest, st, p[1], p[2])]
           f == [p \in P |-> g[p]]
<1>5. \A p \in P : g[p] = LayoutAt(g, st, p[1], p[2])
  BY <1>0, <1>4 DEF IsLayout
<1>6. \A p \in P : f[p] = g[p]
  OBVIOUS
<1>7. ASSUME NEW p \in P PROVE LayoutAt(g, st, p[1], p[2]) = LayoutAt(f, st, p[1], p[2])
  <2> DEFINE a == p[1]
             b == p[2]
  <2>1. <<a, b>> \in Places(st)
    BY <1>0, Zenon
  <2>2. ASSUME NEW end \in a + 1 .. Total(st), NEW next \in 0 .. U64Max
        PROVE  g[<<end, next>>] = f[<<end, next>>]
    <3>1. end \in 0 .. Total(st)
      BY <1>0
    <3>2. <<end, next>> \in P
      BY <3>1, PlaceFacts
    <3> HIDE DEF f
    <3> QED
      BY <1>6, <3>2
  <2> HIDE DEF a, b, f
  <2>3. LayoutAt(g, st, a, b) = LayoutAt(f, st, a, b)
    BY <2>1, <2>2, LayoutLocal
  <2> QED
    BY <2>3 DEF a, b
<1>8. Unfolds(f)
  <2>1. \A p \in P : g[p] = LayoutAt(f, st, p[1], p[2])
    <3> HIDE DEF f
    <3> QED
      BY <1>5, <1>7
  <2> QED
    BY <2>1
<1> DEFINE rest == CHOOSE r : Unfolds(r)
<1>9. Unfolds(rest)
  <2> HIDE DEF f, Unfolds
  <2> QED
    BY <1>8
<1>10. Rest(st) = rest
  BY DEF Rest
<1>11. rest[<<off, pax>>] = LayoutAt(rest, st, off, pax)
  <2> HIDE DEF rest
  <2> QED
    BY <1>9
<1> QED
  BY <1>10, <1>11

\* From byte `off' of a stream, where an entry has the size `pax' if any, an
\* entry or a null block ends at byte `end', and leaves `next' for the next
\* entry; `join' tells whether its element goes on there.
Leads(st, off, pax, end, next, join) ==
  \/ /\ IsNullBlock(st, off)
     /\ end = off + TarBlock /\ next = pax /\ join = IsNullBlock(st, end)
  \/ /\ HasBlock(st, off) /\ ~IsNullBlock(st, off) /\ IsWholeEntry(st, off, pax)
     /\ end = EntryEnd(st, off, pax) /\ next = PaxNext(st, off, pax)
     /\ join = joinsNextEntry(BlockAt(st, off))

\* `here' is the layout `later' and byte `end', unless the element goes on.
AddsEnd(here, later, end, join) ==
  /\ here = [whole |-> here.whole, ends |-> here.ends]
  /\ here.whole = later.whole
  /\ \A x : x \in here.ends <=> x \in later.ends \/ (~join /\ x = end)

\* What a layout from byte `off' is.
Layouts(st, off) == [whole : BOOLEAN, ends : SUBSET (off + 1 .. Total(st))]

\* Where neither follows, there is nothing, or no archive.
LEMMA RestStops ==
  ASSUME NEW st \in Stream, NEW off, NEW pax, <<off, pax>> \in Places(st),
         \/ off = Total(st) \/ ~HasBlock(st, off)
         \/ ~IsNullBlock(st, off) /\ ~IsWholeEntry(st, off, pax)
  PROVE  Rest(st)[<<off, pax>>] = [whole |-> off = Total(st), ends |-> {}]
<1>1. Rest(st)[<<off, pax>>] = LayoutAt(Rest(st), st, off, pax)
  BY RestDef
<1>2. LayoutAt(Rest(st), st, off, pax) = [whole |-> off = Total(st), ends |-> {}]
  <2>1. CASE off = Total(st)
    BY <2>1 DEF LayoutAt
  <2>2. CASE off # Total(st)
    <3>1. (off = Total(st)) = FALSE
      BY <2>2
    <3> QED
      BY <2>2, <3>1 DEF LayoutAt, IsNullBlock
  <2> QED
    BY <2>1, <2>2
<1> QED
  BY <1>1, <1>2

\* The layout at a place is that at the next one, with one element more.
LEMMA RestStep ==
  ASSUME NEW st \in Stream, NEW off, NEW pax, <<off, pax>> \in Places(st),
         NEW end, NEW next, NEW join, Leads(st, off, pax, end, next, join),
         NEW r, r = Rest(st)[<<end, next>>], r \in Layouts(st, end)
  PROVE  AddsEnd(Rest(st)[<<off, pax>>], r, end, join)
<1>1. off \in Nat /\ off # Total(st) /\ HasBlock(st, off)
  BY PlaceFacts, TotalType DEF Leads, IsNullBlock, HasBlock
<1>2. Rest(st)[<<off, pax>>] = LayoutAt(Rest(st), st, off, pax)
  BY RestDef
<1>3. LayoutAt(Rest(st), st, off, pax) = WithEnd(r, join, end)
  BY <1>1 DEF LayoutAt, Leads
<1>4. PICK q : q = [r EXCEPT !.ends = @ \cup {end}]
  OBVIOUS
<1>5. /\ q.whole = r.whole /\ q.ends = r.ends \cup {end}
      /\ q = [whole |-> q.whole, ends |-> q.ends] /\ r = [whole |-> r.whole, ends |-> r.ends]
  BY <1>4 DEF Layouts
<1>6. WithEnd(r, join, end) = IF join THEN r ELSE q
  BY <1>4 DEF WithEnd
<1> QED
  BY <1>2, <1>3, <1>5, <1>6 DEF AddsEnd

\* The next place is a later one.
LEMMA LeadsOn ==
  ASSUME NEW st \in Stream, NEW off, NEW pax, <<off, pax>> \in Places(st),
         NEW end, NEW next, NEW join, Leads(st, off, pax, end, next, join)
  PROVE  /\ off \in Nat /\ end \in off + 1 .. Total(st) /\ end \in Nat
         /\ next \in 0 .. U64Max /\ <<end, next>> \in Places(st)
<1>1. off \in Nat /\ pax \in 0 .. U64Max /\ Total(st) \in Nat
  BY PlaceFacts, TotalType
<1>2. end \in off + 1 .. Total(st) /\ end \in Nat /\ next \in 0 .. U64Max
  BY <1>1, AfterNull, AfterEntry DEF Leads
<1> QED
  BY <1>1, <1>2, PlaceFacts

\* From a place where an entry or a null block is whole there is a next one.
LEMMA LeadsSomewhere ==
  ASSUME NEW st, NEW off, NEW pax, HasBlock(st, off),
         IsNullBlock(st, off) \/ IsWholeEntry(st, off, pax)
  PROVE  \E end, next, join : Leads(st, off, pax, end, next, join)
  BY Zenon DEF Leads

\* Elements end after the place, and within the stream.
LEMMA RestType ==
  ASSUME NEW st \in Stream, NEW off, NEW pax, <<off, pax>> \in Places(st)
  PROVE  Rest(st)[<<off, pax>>] \in Layouts(st, off)
<1> DEFINE Typed(a, b) == Rest(st)[<<a, b>>] \in Layouts(st, a)
           S == {n \in Nat : \A a \in 0 .. Total(st), b \in 0 .. U64Max :
                               Total(st) - a < n => Typed(a, b)}
<1>1. Total(st) \in Nat /\ off \in 0 .. Total(st) /\ pax \in 0 .. U64Max
  BY TotalType, PlaceFacts
<1>2. 0 \in S
  BY <1>1
<1>3. ASSUME NEW n \in Nat, n \in S PROVE n + 1 \in S
  <2>1. ASSUME NEW a \in 0 .. Total(st), NEW b \in 0 .. U64Max, Total(st) - a < n + 1
        PROVE  Typed(a, b)
    <3>1. <<a, b>> \in Places(st)
      BY PlaceFacts
    <3>2. CASE \/ a = Total(st) \/ ~HasBlock(st, a)
               \/ ~IsNullBlock(st, a) /\ ~IsWholeEntry(st, a, b)
      <4>1. Rest(st)[<<a, b>>] = [whole |-> a = Total(st), ends |-> {}]
        BY <3>1, <3>2, RestStops
      <4>2. (a = Total(st)) \in BOOLEAN
        OBVIOUS
      <4> QED
        BY <4>1, <4>2 DEF Layouts
    <3>3. CASE HasBlock(st, a) /\ (IsNullBlock(st, a) \/ IsWholeEntry(st, a, b))
      <4>1. PICK end, next, join : Leads(st, a, b, end, next, join)
        BY <3>3, LeadsSomewhere, Zenon
      <4>2. a \in Nat /\ end \in a + 1 .. Total(st) /\ next \in 0 .. U64Max
        BY <3>1, <4>1, LeadsOn
      <4>3. Typed(end, next)
        <5>1. end \in 0 .. Total(st) /\ Total(st) - end < n
          BY <1>1, <2>1, <4>2
        <5> QED
          BY <1>3, <4>2, <5>1
      <4>4. PICK r : r = Rest(st)[<<end, next>>]
        OBVIOUS
      <4>5. r \in Layouts(st, end)
        BY <4>3, <4>4
      <4> DEFINE here == Rest(st)[<<a, b>>]
      <4>6. AddsEnd(here, r, end, join)
        BY <3>1, <4>1, <4>4, <4>5, RestStep
      <4> HIDE DEF here
      <4>7. r.whole \in BOOLEAN /\ \A x \in r.ends : x \in end + 1 .. Total(st)
        BY <4>5 DEF Layouts
      <4>8. ASSUME NEW x \in here.ends PROVE x \in a + 1 .. Total(st)
        <5>1. x \in r.ends \/ x = end
          BY <4>6 DEF AddsEnd
        <5> QED
          BY <1>1, <4>2, <4>7, <5>1
      <4>9. here.ends \in SUBSET (a + 1 .. Total(st)) /\ here.whole \in BOOLEAN
        BY <4>6, <4>7, <4>8 DEF AddsEnd
      <4>10. here \in Layouts(st, a)
        BY <4>6, <4>9 DEF Layouts, AddsEnd
      <4> QED
        BY <4>10 DEF here
    <3> QED
      BY <3>2, <3>3
  <2> HIDE DEF Typed
  <2> QED
    BY <2>1
<1>4. Total(st) + 1 \in S
  <2> HIDE DEF S
  <2> QED
    BY <1>1, <1>2, <1>3, SetInduction
<1>5. Total(st) - off < Total(st) + 1
  BY <1>1
<1>6. Typed(off, pax)
  <2> HIDE DEF Typed
  <2> QED
    BY <1>1, <1>4, <1>5
<1> QED
  BY <1>6

\* The layout at a place, from that at the next one.
LEMMA RestLeads ==
  ASSUME NEW st \in Stream, NEW off, NEW pax, <<off, pax>> \in Places(st),
         NEW end, NEW next, NEW join, Leads(st, off, pax, end, next, join)
  PROVE  AddsEnd(Rest(st)[<<off, pax>>], Rest(st)[<<end, next>>], end, join)
<1>1. <<end, next>> \in Places(st)
  BY LeadsOn
<1>2. Rest(st)[<<end, next>>] \in Layouts(st, end)
  BY <1>1, RestType
<1> QED
  BY <1>2, RestStep

\* The elements of an archive end within it.
LEMMA LayoutType ==
  ASSUME NEW st \in Stream
  PROVE  <<0, NoSize>> \in Places(st) /\ Layout(st) \in Layouts(st, 0)
<1>1. <<0, NoSize>> \in Places(st)
  BY PlaceFacts, TotalType, TarAssumption DEF NoSize
<1> QED
  BY <1>1, RestType DEF Layout

(***************************************************************************)
(* The frame being built.                                                  *)
(***************************************************************************)

\* The sizes in the seek table are those of frames that fit.
TableFits(table, m) == \A i \in 1 .. Len(table) : table[i] \in 1 .. m

\* The seek table describes the frames written so far, whether it is kept or
\* was left out: what every frame added preserves, on the way to
\* SeekTableDescribesFrames.
Described(f, o) ==
  /\ f.count = Len(f.ends)
  /\ ~f.skip =>
       /\ Len(f.table) = Len(f.ends) /\ Len(f.table) < MaxFrames
       /\ \A i \in 1 .. Len(f.ends) :
            f.table[i] = f.ends[i] - (IF i = 1 THEN 0 ELSE f.ends[i - 1])
  /\ f.skip => o.noTable \/ f.count >= MaxFrames

\* The last element of a sequence that was just extended.
LEMMA LastOfAppend ==
  ASSUME NEW seq \in Seq(Nat), NEW x \in Nat, NEW t, t = Append(seq, x)
  PROVE  t # <<>> /\ t[Len(t)] = x
<1>1. /\ Append(seq, x) # <<>> /\ Len(Append(seq, x)) = Len(seq) + 1
      /\ Append(seq, x)[Len(seq) + 1] = x
  BY AppendProperties
<1> QED
  BY <1>1

\* The complete frames hold a number of bytes.
LEMMA CompleteType ==
  ASSUME NEW f \in FrameState
  PROVE  Complete(f) \in Nat
  BY DEF Complete, FrameState

\* seekTableAdd() changes nothing of the open frame, and records at most one
\* size, cut to the 32 bits of an entry of the seek table.
LEMMA TableFacts ==
  ASSUME NEW f \in FrameState, NEW n \in Nat, NEW t, t = seekTableAdd(f, n)
  PROVE  /\ t \in FrameState
         /\ t.in = f.in /\ t.pledged = f.pledged /\ t.zin = f.zin /\ t.ends = f.ends
         /\ t.table = f.table \/ t.table = Append(f.table, n % U32)
<1>1. n % U32 \in Nat
  BY ModFacts, FrameWriterAssumption, ConfigAssumption
<1>2. PICK g : g = [f EXCEPT !.count = @ + 1]
  OBVIOUS
<1>3. /\ g \in FrameState
      /\ g.in = f.in /\ g.pledged = f.pledged /\ g.zin = f.zin /\ g.ends = f.ends
      /\ g.table = f.table
  <2>1. f.count + 1 \in Nat
    BY DEF FrameState
  <2>2. g \in FrameState
    BY <1>2, <2>1 DEF FrameState
  <2> QED
    BY <1>2, <2>2 DEF FrameState
<1>4. Append(g.table, n % U32) \in Seq(Nat)
  BY <1>1, <1>3 DEF FrameState
<1>5. CASE f.skip
  BY <1>2, <1>3, <1>5 DEF seekTableAdd
<1>6. CASE ~f.skip /\ Len(f.table) + 1 >= MaxFrames
  <2>1. t = [g EXCEPT !.skip = TRUE]
    BY <1>2, <1>6 DEF seekTableAdd
  <2> QED
    BY <1>3, <2>1 DEF FrameState
<1>7. CASE ~f.skip /\ ~(Len(f.table) + 1 >= MaxFrames)
  <2>1. t = [g EXCEPT !.table = Append(@, n % U32)]
    BY <1>2, <1>7 DEF seekTableAdd
  <2> QED
    BY <1>3, <1>4, <2>1 DEF FrameState
<1> QED
  BY <1>5, <1>6, <1>7

\* endFrameAndRecord() completes a frame of the bytes zstd was given, and
\* records the bytes the program counted.
LEMMA EndFacts ==
  ASSUME NEW f \in FrameState, NEW g, g = endFrameAndRecord(f)
  PROVE  /\ g \in FrameState
         /\ ~g.open /\ g.in = f.in /\ g.pledged = f.pledged /\ g.zin = f.zin
         /\ g.ends = Append(f.ends, Complete(f) + f.zin)
         /\ Complete(g) = Complete(f) + f.zin
         /\ g.table = f.table \/ g.table = Append(f.table, f.in % U32)
<1>1. /\ f.ends \in Seq(Nat) /\ Complete(f) + f.zin \in Nat
      /\ Append(f.ends, Complete(f) + f.zin) \in Seq(Nat) /\ f.in \in Nat
  BY CompleteType DEF FrameState
<1>2. PICK e : e = [f EXCEPT !.ends = Append(@, Complete(f) + f.zin)]
  OBVIOUS
<1>3. /\ e \in FrameState
      /\ e.in = f.in /\ e.pledged = f.pledged /\ e.zin = f.zin /\ e.table = f.table
      /\ e.ends = Append(f.ends, Complete(f) + f.zin)
  BY <1>1, <1>2 DEF FrameState
<1>4. PICK t : t = seekTableAdd(e, f.in)
  OBVIOUS
<1>5. /\ t \in FrameState
      /\ t.in = f.in /\ t.pledged = f.pledged /\ t.zin = f.zin /\ t.ends = e.ends
      /\ t.table = f.table \/ t.table = Append(f.table, f.in % U32)
  <2>1. e \in FrameState /\ f.in \in Nat
    BY <1>1, <1>3
  <2>2. /\ t \in FrameState
        /\ t.in = e.in /\ t.pledged = e.pledged /\ t.zin = e.zin /\ t.ends = e.ends
        /\ t.table = e.table \/ t.table = Append(e.table, f.in % U32)
    BY <1>4, <2>1, TableFacts
  <2> QED
    BY <1>3, <2>2
<1>6. g = [t EXCEPT !.open = FALSE]
  BY <1>2, <1>4 DEF endFrameAndRecord
<1>7. /\ g \in FrameState
      /\ ~g.open /\ g.in = f.in /\ g.pledged = f.pledged /\ g.zin = f.zin
      /\ g.ends = e.ends
      /\ g.table = f.table \/ g.table = Append(f.table, f.in % U32)
  BY <1>5, <1>6 DEF FrameState
<1>8. Complete(g) = Complete(f) + f.zin
  <2>1. PICK x \in Nat : x = Complete(f) + f.zin
    BY <1>1
  <2>2. g.ends = Append(f.ends, x)
    BY <1>3, <1>7, <2>1
  <2>3. f.ends \in Seq(Nat)
    BY <1>1
  <2>4. g.ends # <<>> /\ g.ends[Len(g.ends)] = x
    BY <2>2, <2>3, LastOfAppend, Zenon
  <2> QED
    BY <2>1, <2>4 DEF Complete
<1> QED
  BY <1>3, <1>7, <1>8

\* startFrame() opens an empty frame with the size pledged to zstd.
LEMMA StartFacts ==
  ASSUME NEW f \in FrameState, NEW size \in 0 .. U64Max, NEW g, g = startFrame(f, size)
  PROVE  /\ g \in FrameState
         /\ g.open /\ g.in = 0 /\ g.pledged = size /\ g.zin = 0
         /\ g.ends = f.ends /\ g.table = f.table /\ g.skip = f.skip /\ g.count = f.count
<1>1. g = [f EXCEPT !.open = TRUE, !.in = 0, !.pledged = size, !.zin = 0]
  BY DEF startFrame
<1>2. g \in FrameState
  <2>1. PICK h : h = [f EXCEPT !.open = TRUE, !.in = 0, !.zin = 0]
    OBVIOUS
  <2>2. h \in FrameState
    BY <2>1 DEF FrameState
  <2>3. g = [h EXCEPT !.pledged = size]
    BY <1>1, <2>1, <2>2 DEF FrameState
  <2> QED
    BY <2>2, <2>3 DEF FrameState
<1>3. g.open /\ g.in = 0 /\ g.pledged = size /\ g.zin = 0
  BY <1>1 DEF FrameState
<1>4. g.ends = f.ends /\ g.table = f.table /\ g.skip = f.skip /\ g.count = f.count
  BY <1>1 DEF FrameState
<1> QED
  BY <1>2, <1>3, <1>4

\* The program counts the bytes it gives to zstd.
LEMMA FeedFacts ==
  ASSUME NEW f \in FrameState, NEW k \in Nat, NEW g, g = Feed(f, k)
  PROVE  /\ g \in FrameState
         /\ g.open = f.open /\ g.in = f.in + k /\ g.pledged = f.pledged
         /\ g.zin = f.zin + k /\ g.ends = f.ends /\ g.table = f.table
         /\ g.skip = f.skip /\ g.count = f.count
<1>1. f.in + k \in Nat /\ f.zin + k \in Nat
  BY DEF FrameState
<1>2. g = [f EXCEPT !.in = f.in + k, !.zin = f.zin + k]
  BY DEF Feed
<1> QED
  BY <1>1, <1>2 DEF FrameState

\* The block sizes compressFile() derives from any command line fit in a frame.
LEMMA BlockSizes ==
  ASSUME NEW o \in CommandLine
  PROVE  /\ maxBlockSize(o) \in Nat \ {0} /\ maxBlockSize(o) <= MaxFrameSize
         /\ minBlockSize(o) \in Nat
  BY ConfigAssumption DEF CommandLine, maxBlockSize, minBlockSize

\* zstd was given a number of bytes.
LEMMA WrittenType ==
  ASSUME NEW f \in FrameState
  PROVE  Written(f) \in Nat
  BY CompleteType DEF Written, FrameState

\* A table of sizes that fit in a frame still is one with one more entry.
LEMMA TableGrows ==
  ASSUME NEW table \in Seq(Nat), NEW m \in Nat, m < U32, TableFits(table, m),
         NEW n \in 1 .. m
  PROVE  TableFits(Append(table, n % U32), m)
<1>1. n % U32 = n
  <2>1. n \in Nat /\ U32 \in Nat \ {0} /\ n < U32
    BY FrameWriterAssumption
  <2> QED
    BY <2>1, ModFacts
<1>2. Len(Append(table, n)) = Len(table) + 1 /\ Append(table, n)[Len(table) + 1] = n
      /\ \A i \in 1 .. Len(table) : Append(table, n)[i] = table[i]
  BY AppendProperties
<1> QED
  BY <1>1, <1>2 DEF TableFits

\* A run starts without frames, and its table describes them.
LEMMA NoFramesFacts ==
  ASSUME NEW o \in CommandLine
  PROVE  /\ NoFrames(o) \in FrameState /\ Described(NoFrames(o), o)
         /\ ~NoFrames(o).open /\ NoFrames(o).ends = <<>> /\ NoFrames(o).table = <<>>
<1>1. PICK f : f = NoFrames(o)
  OBVIOUS
<1>2. o.noTable \in BOOLEAN /\ U64Max \in 0 .. U64Max /\ MaxFrames \in Nat \ {0}
  BY TarAssumption, FrameWriterAssumption DEF CommandLine
<1>3. f \in FrameState
  BY <1>1, <1>2 DEF NoFrames, FrameState, Unknown
<1>4. /\ ~f.open /\ f.ends = <<>> /\ f.table = <<>> /\ f.count = 0
      /\ f.skip = o.noTable
  BY <1>1 DEF NoFrames
<1>5. Described(f, o)
  BY <1>2, <1>4 DEF Described
<1> QED
  BY <1>1, <1>3, <1>4, <1>5

\* seekTableAdd() keeps the table that of the frames when a frame of `n' bytes
\* was just written.
LEMMA DescribedGrows ==
  ASSUME NEW o, NEW f \in FrameState, Described(f, o), NEW n \in Nat, n < U32,
         NEW e \in FrameState, e.ends = Append(f.ends, Complete(f) + n),
         e.table = f.table, e.skip = f.skip, e.count = f.count,
         NEW t, t = seekTableAdd(e, n)
  PROVE  Described(t, o)
<1>1. /\ f.ends \in Seq(Nat) /\ f.table \in Seq(Nat) /\ f.count \in Nat
      /\ Len(f.ends) \in Nat /\ Len(f.table) \in Nat /\ Complete(f) \in Nat
      /\ f.skip \in BOOLEAN /\ MaxFrames \in Nat
  BY CompleteType, FrameWriterAssumption DEF FrameState
<1>2. n % U32 = n
  <2>1. U32 \in Nat \ {0}
    BY FrameWriterAssumption
  <2> QED
    BY <2>1, ModFacts
<1>3. PICK x \in Nat : x = Complete(f) + n
  BY <1>1
<1>4. /\ Len(e.ends) = Len(f.ends) + 1
      /\ e.ends[Len(f.ends) + 1] = x
      /\ \A i \in 1 .. Len(f.ends) : e.ends[i] = f.ends[i]
  BY <1>1, <1>3, AppendProperties
<1>5. x - (IF Len(f.ends) + 1 = 1 THEN 0 ELSE f.ends[Len(f.ends)]) = n
  <2>1. CASE f.ends = <<>>
    BY <1>3, <2>1 DEF Complete
  <2>2. CASE f.ends # <<>>
    <3>1. Len(f.ends) # 0 /\ Complete(f) = f.ends[Len(f.ends)]
      BY <1>1, <2>2, EmptySeq DEF Complete
    <3> QED
      BY <1>1, <1>3, <3>1
  <2> QED
    BY <2>1, <2>2
<1>6. /\ t.ends = e.ends /\ t.count = f.count + 1
      /\ \/ f.skip /\ t.skip
         \/ ~f.skip /\ Len(f.table) + 1 >= MaxFrames /\ t.skip
         \/ /\ ~f.skip /\ Len(f.table) + 1 < MaxFrames
            /\ ~t.skip /\ t.table = Append(f.table, n)
  <2>1. PICK g : g = [e EXCEPT !.count = @ + 1]
    OBVIOUS
  <2>2. f.count + 1 \in Nat
    BY <1>1
  <2>3. /\ g.count = f.count + 1 /\ g.ends = e.ends /\ g.table = f.table /\ g.skip = f.skip
        /\ g \in FrameState
    BY <2>1, <2>2 DEF FrameState
  <2>4. CASE f.skip
    <3>1. t = g
      BY <2>1, <2>4 DEF seekTableAdd
    <3> QED
      BY <2>3, <2>4, <3>1
  <2>5. CASE ~f.skip /\ Len(f.table) + 1 >= MaxFrames
    <3>1. t = [g EXCEPT !.skip = TRUE]
      BY <2>1, <2>5 DEF seekTableAdd
    <3> QED
      BY <2>3, <2>5, <3>1 DEF FrameState
  <2>6. CASE ~f.skip /\ ~(Len(f.table) + 1 >= MaxFrames)
    <3>1. t = [g EXCEPT !.table = Append(@, n % U32)]
      BY <2>1, <2>6 DEF seekTableAdd
    <3>2. g.table \in Seq(Nat) /\ Append(g.table, n % U32) \in Seq(Nat)
      BY <1>1, <1>2, <2>3
    <3>3. /\ t.table = Append(g.table, n % U32) /\ t.ends = g.ends /\ t.count = g.count
          /\ t.skip = g.skip
      BY <2>3, <3>1, <3>2 DEF FrameState
    <3>4. Len(f.table) + 1 < MaxFrames
      BY <1>1, <2>6
    <3> QED
      BY <1>2, <2>3, <2>6, <3>3, <3>4
  <2> QED
    BY <2>4, <2>5, <2>6
<1>7. CASE f.skip /\ t.skip
  BY <1>1, <1>4, <1>6, <1>7 DEF Described
<1>8. CASE ~f.skip /\ Len(f.table) + 1 >= MaxFrames /\ t.skip
  BY <1>1, <1>4, <1>6, <1>8 DEF Described
<1>9. CASE ~f.skip /\ Len(f.table) + 1 < MaxFrames /\ ~t.skip /\ t.table = Append(f.table, n)
  <2>1. /\ Len(t.table) = Len(f.table) + 1 /\ t.table[Len(f.table) + 1] = n
        /\ \A i \in 1 .. Len(f.table) : t.table[i] = f.table[i]
    BY <1>1, <1>9, AppendProperties
  <2>2. Len(f.table) = Len(f.ends) /\ f.count = Len(f.ends)
    BY <1>9 DEF Described
  <2>3. ASSUME NEW i \in 1 .. Len(t.ends)
        PROVE  t.table[i] = t.ends[i] - (IF i = 1 THEN 0 ELSE t.ends[i - 1])
    <3>1. CASE i \in 1 .. Len(f.ends)
      <4>1. f.table[i] = f.ends[i] - (IF i = 1 THEN 0 ELSE f.ends[i - 1])
        BY <1>9, <3>1 DEF Described
      <4>2. i # 1 => i - 1 \in 1 .. Len(f.ends)
        BY <1>1, <3>1
      <4> QED
        BY <1>4, <1>6, <2>1, <2>2, <3>1, <4>1, <4>2
    <3>2. CASE i = Len(f.ends) + 1
      <4>1. i # 1 => i - 1 \in 1 .. Len(f.ends) /\ i - 1 = Len(f.ends)
        BY <1>1, <3>2
      <4>2. t.ends[i] = x /\ (i # 1 => t.ends[i - 1] = f.ends[Len(f.ends)])
        BY <1>4, <1>6, <3>2, <4>1
      <4> QED
        BY <1>5, <2>1, <2>2, <3>2, <4>2
    <3> QED
      BY <1>1, <1>4, <1>6, <3>1, <3>2
  <2> QED
    BY <1>1, <1>4, <1>6, <1>9, <2>1, <2>2, <2>3 DEF Described
<1> QED
  BY <1>6, <1>7, <1>8, <1>9

\* endFrameAndRecord() keeps the table that of the frames when zstd was given
\* what the program counted, and no more than an entry describes.
LEMMA EndDescribed ==
  ASSUME NEW o, NEW f \in FrameState, f.in = f.zin, f.in < U32, Described(f, o)
  PROVE  Described(endFrameAndRecord(f), o)
<1>1. /\ f.ends \in Seq(Nat) /\ Complete(f) + f.zin \in Nat /\ f.in \in Nat
      /\ Append(f.ends, Complete(f) + f.zin) \in Seq(Nat)
  BY CompleteType DEF FrameState
<1>2. PICK e : e = [f EXCEPT !.ends = Append(@, Complete(f) + f.zin)]
  OBVIOUS
<1>3. /\ e \in FrameState /\ e.ends = Append(f.ends, Complete(f) + f.in)
      /\ e.table = f.table /\ e.skip = f.skip /\ e.count = f.count
  BY <1>1, <1>2 DEF FrameState
<1>4. PICK t : t = seekTableAdd(e, f.in)
  OBVIOUS
<1>5. Described(t, o) /\ t \in FrameState
  <2>1. Described(t, o)
    BY <1>1, <1>3, <1>4, DescribedGrows
  <2>2. t \in FrameState
    BY <1>1, <1>3, <1>4, TableFacts
  <2> QED
    BY <2>1, <2>2
<1>6. endFrameAndRecord(f) = [t EXCEPT !.open = FALSE]
  BY <1>2, <1>4 DEF endFrameAndRecord
<1>7. PICK g : g = endFrameAndRecord(f)
  OBVIOUS
<1>8. g.ends = t.ends /\ g.table = t.table /\ g.skip = t.skip /\ g.count = t.count
  BY <1>5, <1>6, <1>7 DEF FrameState
<1>9. Described(g, o)
  BY <1>5, <1>8 DEF Described
<1> QED
  BY <1>7, <1>9

\* Feeding and opening a frame leave the table alone.
LEMMA SameFrames ==
  ASSUME NEW o, NEW f \in FrameState, Described(f, o), NEW g,
         g.ends = f.ends, g.table = f.table, g.skip = f.skip, g.count = f.count
  PROVE  Described(g, o)
  BY DEF Described

\* zstdCompressBufferToFrame() on a block that fits writes it as one frame.
LEMMA CompressFacts ==
  ASSUME NEW o \in CommandLine, NEW f \in FrameState, NEW n \in Nat,
         n <= MaxFrameSize, Described(f, o), NEW g, g = CompressBuffer(f, n)
  PROVE  /\ g \in FrameState /\ g.open = f.open /\ Described(g, o)
         /\ g.ends = Append(f.ends, Complete(f) + n)
         /\ Complete(g) = Complete(f) + n
<1>1. /\ f.ends \in Seq(Nat) /\ Complete(f) + n \in Nat /\ n < U32 /\ n \in 0 .. U64Max
      /\ f.open \in BOOLEAN
  BY CompleteType, FrameWriterAssumption, ConfigAssumption, TarAssumption DEF FrameState
<1>2. PICK x \in Nat : x = Complete(f) + n
  BY <1>1
<1>3. Append(f.ends, x) \in Seq(Nat)
  BY <1>1, <1>2
<1>4. PICK p : p = [f EXCEPT !.pledged = n]
  OBVIOUS
<1>5. /\ p \in FrameState /\ p.open = f.open
      /\ p.table = f.table /\ p.skip = f.skip /\ p.count = f.count
  BY <1>1, <1>4 DEF FrameState
<1>6. PICK e : e = [f EXCEPT !.pledged = n, !.zin = n, !.ends = Append(@, Complete(f) + n)]
  OBVIOUS
<1>7. e = [p EXCEPT !.zin = n, !.ends = Append(f.ends, x)]
  BY <1>2, <1>4, <1>6 DEF FrameState
<1>8. /\ e \in FrameState /\ e.ends = Append(f.ends, x) /\ e.open = f.open
      /\ e.table = f.table /\ e.skip = f.skip /\ e.count = f.count
  BY <1>3, <1>5, <1>7 DEF FrameState
<1>9. g = seekTableAdd(e, n)
  BY <1>6 DEF CompressBuffer
<1>10. g \in FrameState /\ g.ends = e.ends
  BY <1>8, <1>9, TableFacts
<1>11. g.open = e.open
  BY <1>8, <1>9 DEF seekTableAdd, FrameState
<1>12. Described(g, o)
  BY <1>1, <1>2, <1>8, <1>9, DescribedGrows
<1>13. Complete(g) = x
  <2>1. g.ends = Append(f.ends, x) /\ f.ends \in Seq(Nat) /\ x \in Nat
    BY <1>1, <1>2, <1>8, <1>10
  <2>2. g.ends # <<>> /\ g.ends[Len(g.ends)] = x
    BY <2>1, LastOfAppend, Zenon
  <2> QED
    BY <2>2 DEF Complete
<1> QED
  BY <1>2, <1>8, <1>10, <1>11, <1>12, <1>13

\* The table it writes is one of sizes that fit.
LEMMA CompressTable ==
  ASSUME NEW f \in FrameState, NEW m \in Nat, m < U32, m <= U64Max, NEW n \in 1 .. m,
         TableFits(f.table, m)
  PROVE  TableFits(CompressBuffer(f, n).table, m)
<1>1. /\ n \in Nat /\ n \in 0 .. U64Max /\ f.table \in Seq(Nat)
      /\ Complete(f) + n \in Nat /\ f.ends \in Seq(Nat)
  BY CompleteType, TarAssumption DEF FrameState
<1>2. PICK e : e = [f EXCEPT !.pledged = n, !.zin = n, !.ends = Append(@, Complete(f) + n)]
  OBVIOUS
<1>3. e \in FrameState /\ e.table = f.table
  <2>1. PICK x \in Nat : x = Complete(f) + n
    BY <1>1
  <2>2. Append(f.ends, x) \in Seq(Nat)
    BY <1>1
  <2>3. PICK p : p = [f EXCEPT !.pledged = n]
    OBVIOUS
  <2>4. p \in FrameState /\ p.table = f.table
    BY <1>1, <2>3 DEF FrameState
  <2>5. e = [p EXCEPT !.zin = n, !.ends = Append(f.ends, x)]
    BY <1>2, <2>1, <2>3 DEF FrameState
  <2> QED
    BY <1>1, <2>2, <2>4, <2>5 DEF FrameState
<1>4. PICK g : g = seekTableAdd(e, n)
  OBVIOUS
<1>5. g.table = f.table \/ g.table = Append(f.table, n % U32)
  <2>1. g.table = e.table \/ g.table = Append(e.table, n % U32)
    BY <1>1, <1>3, <1>4, TableFacts
  <2> QED
    BY <1>3, <2>1, Zenon
<1>6. TableFits(Append(f.table, n % U32), m)
  BY <1>1, TableGrows
<1>7. CompressBuffer(f, n) = g
  BY <1>2, <1>4 DEF CompressBuffer
<1> QED
  BY <1>5, <1>6, <1>7

\* What EndFrame does to a frame that is neither empty nor too large.
LEMMA EndFrameFacts ==
  ASSUME NEW o \in CommandLine, NEW f \in FrameState, f.in = f.zin,
         f.in \in 1 .. maxBlockSize(o), TableFits(f.table, maxBlockSize(o)),
         Described(f, o),
         status = "running", EndFrame(f)
  PROVE  /\ fw' \in FrameState /\ TableFits(fw'.table, maxBlockSize(o)) /\ Described(fw', o)
         /\ \/ status' = "zstdError" /\ fw' = f /\ PledgeBroken(f)
            \/ /\ status' = "running" /\ ~fw'.open /\ Complete(fw') = Complete(f) + f.zin
               /\ fw'.ends = Append(f.ends, Complete(f) + f.zin)
<1>1. CASE PledgeBroken(f)
  BY <1>1 DEF EndFrame
<1>2. CASE ~PledgeBroken(f)
  <2>1. status' = "running" /\ fw' = endFrameAndRecord(f)
    BY <1>2 DEF EndFrame
  <2>2. PICK g : g = endFrameAndRecord(f)
    OBVIOUS
  <2>3. /\ g \in FrameState /\ ~g.open /\ Complete(g) = Complete(f) + f.zin
        /\ g.ends = Append(f.ends, Complete(f) + f.zin)
        /\ g.table = f.table \/ g.table = Append(f.table, f.in % U32)
    BY <2>2, EndFacts
  <2>4. maxBlockSize(o) \in Nat /\ maxBlockSize(o) < U32 /\ f.table \in Seq(Nat)
    BY BlockSizes, FrameWriterAssumption, ConfigAssumption DEF FrameState
  <2>5. TableFits(Append(f.table, f.in % U32), maxBlockSize(o))
    BY <2>4, TableGrows
  <2>6. Described(g, o)
    <3>1. f.in < U32
      BY <2>4, FrameWriterAssumption
    <3> QED
      BY <2>2, <3>1, EndDescribed
  <2> QED
    BY <2>1, <2>2, <2>3, <2>5, <2>6
<1> QED
  BY <1>1, <1>2

(***************************************************************************)
(* The frames of Framing, which the three ways to read an input implement. *)
(***************************************************************************)

\* The operators that Framing is instantiated with are those of this module.
LEMMA SameOperators ==
  /\ Abstract!Total(input) = Total(input)
  /\ Abstract!minBlockSize(opts) = minBlockSize(opts)
  /\ Abstract!maxBlockSize(opts) = maxBlockSize(opts)
  /\ Abstract!Layout(input) = Layout(input)
<1>1. Abstract!Total(input) = Total(input)
  BY DEF Abstract!Total, Total
<1>2. /\ Abstract!minBlockSize(opts) = minBlockSize(opts)
      /\ Abstract!maxBlockSize(opts) = maxBlockSize(opts)
  BY DEF Abstract!minBlockSize, minBlockSize, Abstract!maxBlockSize, maxBlockSize
<1>3. Abstract!Layout(input) = Layout(input)
  BY DEF Abstract!Layout, Layout, Abstract!Rest, Rest, Abstract!Places, Places,
     Abstract!LayoutAt, LayoutAt, Abstract!WithEnd, WithEnd,
     Abstract!HasBlock, HasBlock, Abstract!Total, Total,
     Abstract!BlockAt, BlockAt, Abstract!IsNullBlock, IsNullBlock,
     Abstract!isZeroTarBlock, isZeroTarBlock, Abstract!IsWholeEntry, IsWholeEntry,
     Abstract!isTarHeader, isTarHeader, Abstract!TooLarge, TooLarge,
     Abstract!tarEntrySize, tarEntrySize, Abstract!isExtensionHeader, isExtensionHeader,
     Abstract!EntryEnd, EntryEnd, Abstract!SparseExt, SparseExt,
     Abstract!hasSparseExtension, hasSparseExtension, Abstract!Padded, Padded,
     Abstract!PaxNext, PaxNext, Abstract!paxSize, paxSize, Abstract!PaxLeft, PaxLeft,
     Abstract!joinsNextEntry, joinsNextEntry, Abstract!NoSize, NoSize, Abstract!Min, Min
<1> QED
  BY <1>1, <1>2, <1>3

\* A run is given an input and a command line.
Given == input \in Stream /\ opts \in CommandLine /\ layout = Layout(input)

\* What a frame that Framing ends at byte `e' is: within the limit, as large as
\* it unless an element or the input ends there.
LEMMA FrameEndFacts ==
  ASSUME Given, NEW covered \in Nat, covered = Abstract!Covered, covered < Total(input),
         NEW e \in Abstract!FrameEnds, Abstract!IsFrameEnd(e), e <= Total(input)
  PROVE  /\ e \in Nat /\ e - covered \in 1 .. Abstract!Limit
         /\ \/ e - covered = Abstract!Limit
            \/ e \in layout.ends /\ e - covered >= minBlockSize(opts)
            \/ e = Total(input)
<1>1. Total(input) \in Nat /\ \A x \in layout.ends : x \in Nat
  BY LayoutType, TotalType DEF Given, Layouts
<1>2. PICK limit \in Nat \ {0} : limit = Abstract!Limit
  BY BlockSizes, SameOperators DEF Abstract!Limit, Given
<1>3. minBlockSize(opts) \in Nat
  BY BlockSizes DEF Given
<1>4. \/ e = covered + limit
      \/ e \in layout.ends /\ e > covered /\ e >= covered + minBlockSize(opts)
      \/ e = Total(input)
  BY <1>2, SameOperators DEF Abstract!FrameEnds
<1>5. covered + limit \in Abstract!FrameEnds
  BY <1>2 DEF Abstract!FrameEnds
<1>6. e <= covered + limit
  BY <1>5 DEF Abstract!IsFrameEnd
<1>7. e \in Nat /\ e > covered
  BY <1>1, <1>2, <1>4
<1>8. e - covered \in 1 .. limit
  BY <1>2, <1>6, <1>7
<1> QED
  BY <1>2, <1>3, <1>4, <1>7, <1>8

\* Where the last frame ends, and how large the i-th one is.
LastEnd(ends) == IF ends = <<>> THEN 0 ELSE ends[Len(ends)]

SizeOf(ends, i) == ends[i] - (IF i = 1 THEN 0 ELSE ends[i - 1])

\* One frame more leaves the others as large as they were.
OneSizeMore(ends, e, t) ==
  \A i \in 1 .. Len(t) :
    SizeOf(t, i) = IF i = Len(t) THEN e - LastEnd(ends) ELSE SizeOf(ends, i)

LEMMA SizeOfAppend ==
  ASSUME NEW ends \in Seq(Nat), NEW e \in Nat
  PROVE  OneSizeMore(ends, e, Append(ends, e))
<1>1. PICK n \in Nat : n = Len(ends)
  OBVIOUS
<1>2. PICK t : t = Append(ends, e)
  OBVIOUS
<1>3. /\ Len(t) = n + 1 /\ t[n + 1] = e
      /\ \A k \in 1 .. n : t[k] = ends[k]
  BY <1>1, <1>2, AppendProperties
<1>4. ASSUME NEW i \in 1 .. Len(t)
      PROVE  SizeOf(t, i) = IF i = Len(t) THEN e - LastEnd(ends) ELSE SizeOf(ends, i)
  <2>1. CASE i \in 1 .. n
    <3>1. i # 1 => i - 1 \in 1 .. n
      BY <1>1, <2>1
    <3>2. i # n + 1
      BY <1>1, <2>1
    <3> QED
      BY <1>3, <2>1, <3>1, <3>2 DEF SizeOf
  <2>2. CASE i = n + 1
    <3>1. n = 0 <=> ends = <<>>
      BY <1>1, EmptySeq
    <3>2. n # 0 => n \in 1 .. n /\ (n + 1) - 1 = n /\ n + 1 # 1
      BY <1>1
    <3> QED
      BY <1>1, <1>3, <2>2, <3>1, <3>2 DEF SizeOf, LastEnd
  <2> QED
    BY <1>1, <1>3, <2>1, <2>2
<1> QED
  BY <1>2, <1>4 DEF OneSizeMore

\* The frames written so far are those that the documentation promises.
Framed ==
  /\ Given
  /\ fw.ends \in Seq(Nat)
  /\ Abstract!Covered <= Total(input)
  /\ FramesAsDocumented

\* So are the next ones, whatever step of Framing is taken.
LEMMA FramedStep ==
  ASSUME Framed, [Abstract!Next]_(Abstract!vars)
  PROVE  Framed'
<1> DEFINE total == Total(input)
           limit == Abstract!Limit
           covered == Abstract!Covered
           ends == fw.ends
<1>1. /\ Given /\ ends \in Seq(Nat) /\ covered <= total /\ total \in Nat
      /\ Len(ends) \in Nat
      /\ Abstract!Total(input) = total /\ Abstract!minBlockSize(opts) = minBlockSize(opts)
      /\ limit \in Nat
  BY TotalType, SameOperators, BlockSizes DEF Framed, Given, Abstract!Limit
<1>2. covered \in Nat
  BY <1>1 DEF Abstract!Covered
<1>3. UNCHANGED <<input, opts, layout>>
  BY DEF Abstract!Next, Abstract!vars, Abstract!given, Abstract!Emit, Abstract!Finish,
     Abstract!Reject, Abstract!IOError
<1>4. Given' /\ total' = total /\ limit' = limit
  BY <1>1, <1>3 DEF Given, Abstract!Limit
<1>5. \A i \in 1 .. Len(ends) :
        /\ Abstract!FrameSize(i) \in 1 .. limit
        /\ minBlockSize(opts) = limit => (ends[i] < total => Abstract!FrameSize(i) = limit)
        /\ ends[i] \notin layout.ends \cup {total} => Abstract!FrameSize(i) = limit
  BY <1>1 DEF Framed, FramesAsDocumented, Abstract!Lossless, Abstract!ExactBlocks,
     Abstract!SplitOnlyAtLimit
<1>6. CASE fw'.ends = ends
  <2>1. \A i \in 1 .. Len(ends) : Abstract!FrameSize(i)' = Abstract!FrameSize(i)
    BY <1>6 DEF Abstract!FrameSize
  <2>2. covered' = covered
    BY <1>6 DEF Abstract!Covered
  <2>3. (IF status \in {"rejected", "zstdError"} THEN "failed" ELSE status)' = "ok"
          => covered = total
    BY <1>1 DEF Abstract!Next, Abstract!vars, Abstract!Emit, Abstract!Finish,
     Abstract!Reject, Abstract!IOError, Framed, FramesAsDocumented, Abstract!Lossless
  <2> QED
    BY <1>1, <1>3, <1>4, <1>5, <1>6, <2>1, <2>2, <2>3, SameOperators DEF Framed,
       FramesAsDocumented, Abstract!Lossless, Abstract!ExactBlocks, Abstract!SplitOnlyAtLimit
<1>7. CASE Abstract!Emit
  <2>1. PICK e \in Abstract!FrameEnds :
          /\ Abstract!IsFrameEnd(e) /\ e <= total /\ fw'.ends = Append(ends, e)
    BY <1>1, <1>7 DEF Abstract!Emit
  <2>2. covered < total
    BY <1>1, <1>7 DEF Abstract!Emit
  <2>3. /\ e \in Nat /\ e - covered \in 1 .. limit
        /\ \/ e - covered = limit
           \/ e \in layout.ends /\ e - covered >= minBlockSize(opts)
           \/ e = total
    BY <1>1, <1>2, <2>1, <2>2, FrameEndFacts
  <2>4. (IF status \in {"rejected", "zstdError"} THEN "failed" ELSE status)' # "ok"
    BY <1>7 DEF Abstract!Emit
  <2>5. PICK t : t = fw'.ends
    OBVIOUS
  <2>6. /\ t \in Seq(Nat) /\ Len(t) = Len(ends) + 1 /\ t # <<>> /\ t[Len(t)] = e
        /\ \A i \in 1 .. Len(ends) : t[i] = ends[i]
    <3>1. t = Append(ends, e)
      BY <2>1, <2>5
    <3> QED
      BY <1>1, <2>3, <3>1, AppendProperties, LastOfAppend
  <2>7. covered' = e
    BY <2>5, <2>6 DEF Abstract!Covered
  <2>8. ASSUME NEW i \in 1 .. Len(t)
        PROVE  Abstract!FrameSize(i)' = IF i = Len(t) THEN e - covered ELSE Abstract!FrameSize(i)
    <3>1. SizeOf(t, i) = IF i = Len(t) THEN e - LastEnd(ends) ELSE SizeOf(ends, i)
      <4>1. PICK s \in Seq(Nat) : s = ends
        BY <1>1
      <4>2. OneSizeMore(s, e, Append(s, e))
        BY <2>3, SizeOfAppend
      <4>3. OneSizeMore(ends, e, t)
        BY <2>1, <2>5, <4>1, <4>2
      <4> QED
        BY <4>3 DEF OneSizeMore
    <3>2. Abstract!FrameSize(i)' = SizeOf(t, i) /\ Abstract!FrameSize(i) = SizeOf(ends, i)
      BY <2>5 DEF Abstract!FrameSize, SizeOf
    <3>3. covered = LastEnd(ends)
      BY DEF Abstract!Covered, LastEnd
    <3> QED
      BY <3>1, <3>2, <3>3
  <2>9. ASSUME NEW i \in 1 .. Len(t)
        PROVE  /\ Abstract!FrameSize(i)' \in 1 .. limit
               /\ minBlockSize(opts) = limit => (t[i] < total => Abstract!FrameSize(i)' = limit)
               /\ t[i] \notin layout.ends \cup {total} => Abstract!FrameSize(i)' = limit
    <3>1. CASE i = Len(t)
      <4> HIDE DEF total, limit, covered, ends
      <4>1. Abstract!FrameSize(i)' = e - covered /\ t[i] = e
        BY <2>6, <2>8, <3>1
      <4>2. minBlockSize(opts) = limit /\ e < total => e - covered = limit
        <5>1. CASE e - covered >= minBlockSize(opts)
          BY <1>1, <1>2, <2>3, <5>1
        <5>2. CASE ~(e - covered >= minBlockSize(opts))
          BY <1>1, <2>3, <5>2
        <5> QED
          BY <5>1, <5>2
      <4> QED
        BY <2>3, <4>1, <4>2
    <3>2. CASE i # Len(t)
      <4>1. i \in 1 .. Len(ends) /\ t[i] = ends[i]
        BY <1>1, <2>6, <3>2
      <4>2. Abstract!FrameSize(i)' = Abstract!FrameSize(i)
        BY <2>8, <3>2
      <4> HIDE DEF total, limit, covered, ends
      <4> QED
        BY <1>5, <4>1, <4>2
    <3> QED
      BY <3>1, <3>2
  <2> QED
    BY <1>1, <1>3, <1>4, <2>1, <2>4, <2>5, <2>6, <2>7, <2>9, SameOperators DEF Framed,
       FramesAsDocumented, Abstract!Lossless, Abstract!ExactBlocks, Abstract!SplitOnlyAtLimit
<1> QED
  BY <1>6, <1>7 DEF Abstract!Next, Abstract!vars, Abstract!Finish, Abstract!Reject,
     Abstract!IOError

\* A behaviour that is one of Framing has the frames the documentation
\* promises.
LEMMA FramingDocumented ==
  Abstract!Init /\ [][Abstract!Next]_(Abstract!vars) => []FramesAsDocumented
<1>1. Abstract!Init => Framed
  <2> SUFFICES ASSUME Abstract!Init PROVE Framed
    OBVIOUS
  <2>1. Given
    BY SameOperators, ConfigAssumption DEF Abstract!Init, Given
  <2>2. fw.ends = <<>> /\ (IF status \in {"rejected", "zstdError"} THEN "failed" ELSE status) # "ok"
    BY DEF Abstract!Init
  <2>3. Abstract!Covered <= Total(input)
    BY <2>1, <2>2, TotalType DEF Abstract!Covered, Given
  <2>4. FramesAsDocumented
    BY <2>2 DEF FramesAsDocumented, Abstract!Lossless, Abstract!ExactBlocks,
       Abstract!SplitOnlyAtLimit
  <2> QED
    BY <2>1, <2>2, <2>3, <2>4 DEF Framed
<1>2. Framed /\ [Abstract!Next]_(Abstract!vars) => Framed'
  BY FramedStep
<1>3. Framed => FramesAsDocumented
  BY DEF Framed
<1> QED
  BY <1>1, <1>2, <1>3, PTL

(***************************************************************************)
(* Framing leaves no choice: two runs on one input with one command line,  *)
(* each of them one of Framing, write the same frames if both succeed.     *)
(* The other run is a behaviour of Framing with variables of its own.      *)
(***************************************************************************)

VARIABLES
  otherEnds,    \* the end of each frame of the other run
  otherStatus   \* "running", or how the other run ended

Other == INSTANCE Framing WITH ends <- otherEnds, status <- otherStatus

\* Both runs succeed only with the same frames.
FramesAgree == status = "ok" /\ otherStatus = "ok" => fw.ends = otherEnds

\* FrameEnds and IsFrameEnd after the frames that cover c bytes, with the
\* options o and the layout l, of t bytes.
LimitOf(o) == IF o.raw /\ minBlockSize(o) > 0 THEN minBlockSize(o) ELSE maxBlockSize(o)

EndsAfter(o, l, t, c) ==
  {c + LimitOf(o)}
    \cup (IF o.raw THEN {} ELSE {e \in l.ends : e > c /\ e >= c + minBlockSize(o)})
    \cup (IF o.raw \/ (t > 0 /\ l.whole) THEN {t} ELSE {})

FirstAfter(o, l, t, c, e) ==
  e \in EndsAfter(o, l, t, c) /\ \A f \in EndsAfter(o, l, t, c) : e <= f

\* Where the i-th frame starts, and what Framing says of all of them.
StartOf(ends, i) == IF i = 1 THEN 0 ELSE ends[i - 1]

CutByFraming(o, l, t, ends) ==
  /\ ends \in Seq(Nat)
  /\ \A i \in 1 .. Len(ends) :
       StartOf(ends, i) < t /\ FirstAfter(o, l, t, StartOf(ends, i), ends[i])

\* Neither run wrote a frame that differs from one of the other.
Agree(a, b) == \A i \in 1 .. Len(a) : i <= Len(b) => a[i] = b[i]

\* The next frame of one run: the other has written the same, or none yet.
LEMMA AgreeAppend ==
  ASSUME NEW o, NEW l, NEW t \in Nat, NEW a, NEW b, NEW e \in Nat,
         CutByFraming(o, l, t, a), CutByFraming(o, l, t, b), Agree(a, b),
         LastEnd(a) < t, FirstAfter(o, l, t, LastEnd(a), e)
  PROVE  CutByFraming(o, l, t, Append(a, e)) /\ Agree(Append(a, e), b)
<1>1. a \in Seq(Nat) /\ b \in Seq(Nat)
  BY DEF CutByFraming
<1>2. PICK n \in Nat : n = Len(a)
  BY <1>1
<1>3. PICK m \in Nat : m = Len(b)
  BY <1>1
<1>4. PICK x : x = Append(a, e)
  OBVIOUS
<1>5. x \in Seq(Nat) /\ Len(x) = n + 1 /\ x[n + 1] = e /\ \A k \in 1 .. n : x[k] = a[k]
  BY <1>1, <1>2, <1>4, AppendProperties
<1>6. StartOf(x, n + 1) = LastEnd(a)
  <2>1. n = 0 <=> a = <<>>
    BY <1>1, <1>2, EmptySeq
  <2>2. n # 0 => n \in 1 .. n /\ (n + 1) - 1 = n /\ n + 1 # 1
    BY <1>2
  <2> QED
    BY <1>2, <1>5, <2>1, <2>2 DEF StartOf, LastEnd
<1>7. ASSUME NEW i \in 1 .. n PROVE StartOf(x, i) = StartOf(a, i)
  <2>1. i # 1 => i - 1 \in 1 .. n
    BY <1>2
  <2> QED
    BY <1>5, <2>1 DEF StartOf
<1>8. ASSUME NEW i \in 1 .. Len(x)
      PROVE  StartOf(x, i) < t /\ FirstAfter(o, l, t, StartOf(x, i), x[i])
  <2>1. CASE i = n + 1
    BY <1>5, <1>6, <2>1
  <2>2. CASE i # n + 1
    <3>1. i \in 1 .. n
      BY <1>2, <1>5, <2>2
    <3> QED
      BY <1>2, <1>5, <1>7, <3>1 DEF CutByFraming
  <2> QED
    BY <2>1, <2>2
<1>9. n + 1 <= m => e = b[n + 1]
  <2>1. SUFFICES ASSUME n + 1 <= m PROVE e = b[n + 1]
    OBVIOUS
  <2>2. n + 1 \in 1 .. m /\ (n # 0 => n \in 1 .. n /\ n <= m)
    BY <1>2, <1>3, <2>1
  <2>3. StartOf(b, n + 1) = LastEnd(a)
    <3>1. n = 0 <=> a = <<>>
      BY <1>1, <1>2, EmptySeq
    <3>2. n # 0 => (n + 1) - 1 = n /\ n + 1 # 1
      BY <1>2
    <3>3. n # 0 => a[n] = b[n]
      BY <1>2, <1>3, <2>2 DEF Agree
    <3> QED
      BY <1>2, <3>1, <3>2, <3>3 DEF StartOf, LastEnd
  <2>4. FirstAfter(o, l, t, LastEnd(a), b[n + 1])
    BY <1>3, <2>2, <2>3 DEF CutByFraming
  <2>5. b[n + 1] \in Nat
    BY <1>1, <1>3, <2>2
  <2>6. e <= b[n + 1] /\ b[n + 1] <= e
    BY <2>4 DEF FirstAfter
  <2> QED
    BY <2>5, <2>6
<1>10. Agree(x, b)
  <2>1. ASSUME NEW i \in 1 .. Len(x), i <= Len(b) PROVE x[i] = b[i]
    <3>1. CASE i = n + 1
      BY <1>3, <1>5, <1>9, <2>1, <3>1
    <3>2. CASE i # n + 1
      <4>1. i \in 1 .. n
        BY <1>2, <1>5, <3>2
      <4> QED
        BY <1>2, <1>5, <2>1, <4>1 DEF Agree
    <3> QED
      BY <3>1, <3>2
  <2> QED
    BY <2>1 DEF Agree
<1> QED
  BY <1>4, <1>5, <1>8, <1>10 DEF CutByFraming

\* Neither run can be ahead of another that covers the input.
LEMMA AgreeWhole ==
  ASSUME NEW o, NEW l, NEW t \in Nat, NEW a, NEW b,
         CutByFraming(o, l, t, a), CutByFraming(o, l, t, b), Agree(a, b), LastEnd(a) = t
  PROVE  Len(b) <= Len(a)
<1>1. a \in Seq(Nat) /\ b \in Seq(Nat)
  BY DEF CutByFraming
<1>2. PICK n \in Nat : n = Len(a)
  BY <1>1
<1>3. PICK m \in Nat : m = Len(b)
  BY <1>1
<1>4. SUFFICES ASSUME n + 1 <= m PROVE FALSE
  BY <1>2, <1>3
<1>5. n + 1 \in 1 .. m /\ (n # 0 => n \in 1 .. n /\ n <= m)
  BY <1>2, <1>3, <1>4
<1>6. StartOf(b, n + 1) = t
  <2>1. n = 0 <=> a = <<>>
    BY <1>1, <1>2, EmptySeq
  <2>2. n # 0 => (n + 1) - 1 = n /\ n + 1 # 1
    BY <1>2
  <2>3. n # 0 => a[n] = b[n]
    BY <1>2, <1>3, <1>5 DEF Agree
  <2> QED
    BY <1>2, <2>1, <2>2, <2>3 DEF StartOf, LastEnd
<1>7. StartOf(b, n + 1) < t
  BY <1>3, <1>5 DEF CutByFraming
<1> QED
  BY <1>6, <1>7

\* Which run is called the other makes no difference.
LEMMA AgreeSymmetric ==
  ASSUME NEW a \in Seq(Nat), NEW b \in Seq(Nat), Agree(a, b)
  PROVE  Agree(b, a)
<1>1. PICK n \in Nat : n = Len(a)
  OBVIOUS
<1>2. PICK m \in Nat : m = Len(b)
  OBVIOUS
<1> QED
  BY <1>1, <1>2 DEF Agree

\* What the two runs share: their frames are cut where Framing cuts them, and
\* all of the input is in those of a run that succeeded.
Twins ==
  /\ Given
  /\ CutByFraming(opts, layout, Total(input), fw.ends)
  /\ CutByFraming(opts, layout, Total(input), otherEnds)
  /\ Agree(fw.ends, otherEnds)
  /\ status = "ok" => LastEnd(fw.ends) = Total(input)
  /\ otherStatus = "ok" => LastEnd(otherEnds) = Total(input)

\* A step of either run in these terms.
Extends(ends, next, o, l, t) ==
  \E e \in Nat : LastEnd(ends) < t /\ FirstAfter(o, l, t, LastEnd(ends), e)
                   /\ next = Append(ends, e)

\* The operators of the other run's Framing are those of this module.
LEMMA OtherOperators ==
  /\ Other!Total(input) = Total(input)
  /\ Other!minBlockSize(opts) = minBlockSize(opts)
  /\ Other!maxBlockSize(opts) = maxBlockSize(opts)
<1>1. Other!Total(input) = Total(input)
  BY DEF Other!Total, Total
<1>2. /\ Other!minBlockSize(opts) = minBlockSize(opts)
      /\ Other!maxBlockSize(opts) = maxBlockSize(opts)
  BY DEF Other!minBlockSize, minBlockSize, Other!maxBlockSize, maxBlockSize
<1> QED
  BY <1>1, <1>2

\* The ends that Framing considers are natural numbers.
LEMMA EndsAfterType ==
  ASSUME Given, NEW c \in Nat
  PROVE  EndsAfter(opts, layout, Total(input), c) \subseteq Nat
<1>1. /\ Total(input) \in Nat /\ layout.ends \subseteq Nat
      /\ minBlockSize(opts) \in Nat /\ maxBlockSize(opts) \in Nat
  BY LayoutType, TotalType, BlockSizes DEF Given, Layouts
<1> QED
  BY <1>1 DEF EndsAfter, LimitOf

\* A step of the run leaves its frames alone or adds the next one.
LEMMA OneRunStep ==
  ASSUME Twins, [Abstract!Next]_(Abstract!vars)
  PROVE  /\ UNCHANGED <<input, opts, layout>>
         /\ \/ /\ fw'.ends = fw.ends
               /\ status' = "ok" => LastEnd(fw.ends) = Total(input)
            \/ /\ Extends(fw.ends, fw'.ends, opts, layout, Total(input))
               /\ status' # "ok"
<1>1. /\ Given /\ fw.ends \in Seq(Nat)
      /\ status = "ok" => LastEnd(fw.ends) = Total(input)
  BY DEF Twins, CutByFraming
<1>2. Abstract!Covered = LastEnd(fw.ends) /\ Abstract!Limit = LimitOf(opts)
  BY SameOperators DEF Abstract!Covered, LastEnd, Abstract!Limit, LimitOf
<1>3. Abstract!FrameEnds = EndsAfter(opts, layout, Total(input), LastEnd(fw.ends))
  BY <1>2, SameOperators DEF Abstract!FrameEnds, Abstract!WellFormed, EndsAfter
<1>4. LastEnd(fw.ends) \in Nat
  BY <1>1, EmptySeq DEF LastEnd
<1>5. CASE Abstract!Emit
  <2>1. PICK e \in Abstract!FrameEnds : Abstract!IsFrameEnd(e) /\ fw'.ends = Append(fw.ends, e)
    BY <1>5 DEF Abstract!Emit
  <2>2. e \in Nat
    BY <1>1, <1>3, <1>4, EndsAfterType
  <2>3. FirstAfter(opts, layout, Total(input), LastEnd(fw.ends), e)
    BY <1>3, <2>1 DEF Abstract!IsFrameEnd, FirstAfter
  <2>4. LastEnd(fw.ends) < Total(input)
    BY <1>2, <1>5, SameOperators DEF Abstract!Emit
  <2>5. (IF status \in {"rejected", "zstdError"} THEN "failed" ELSE status)' # "ok"
    BY <1>5 DEF Abstract!Emit
  <2>6. UNCHANGED <<input, opts, layout>>
    BY <1>5 DEF Abstract!Emit, Abstract!given
  <2> QED
    BY <2>1, <2>2, <2>3, <2>4, <2>5, <2>6 DEF Extends
<1>6. CASE Abstract!Finish \/ Abstract!Reject \/ Abstract!IOError \/ UNCHANGED Abstract!vars
  BY <1>1, <1>2, <1>6, SameOperators
     DEF Abstract!Finish, Abstract!Reject, Abstract!IOError, Abstract!vars, Abstract!given
<1> QED
  BY <1>5, <1>6 DEF Abstract!Next

\* So does a step of the other run.
LEMMA OtherRunStep ==
  ASSUME Twins, [Other!Next]_(Other!vars)
  PROVE  \/ /\ otherEnds' = otherEnds
            /\ otherStatus' = "ok" => LastEnd(otherEnds) = Total(input)
         \/ /\ Extends(otherEnds, otherEnds', opts, layout, Total(input))
            /\ otherStatus' # "ok"
<1>1. /\ Given /\ otherEnds \in Seq(Nat)
      /\ otherStatus = "ok" => LastEnd(otherEnds) = Total(input)
  BY DEF Twins, CutByFraming
<1>2. Other!Covered = LastEnd(otherEnds) /\ Other!Limit = LimitOf(opts)
  BY OtherOperators DEF Other!Covered, LastEnd, Other!Limit, LimitOf
<1>3. Other!FrameEnds = EndsAfter(opts, layout, Total(input), LastEnd(otherEnds))
  BY <1>2, OtherOperators DEF Other!FrameEnds, Other!WellFormed, EndsAfter
<1>4. LastEnd(otherEnds) \in Nat
  BY <1>1, EmptySeq DEF LastEnd
<1>5. CASE Other!Emit
  <2>1. PICK e \in Other!FrameEnds : Other!IsFrameEnd(e) /\ otherEnds' = Append(otherEnds, e)
    BY <1>5 DEF Other!Emit
  <2>2. e \in Nat
    BY <1>1, <1>3, <1>4, EndsAfterType
  <2>3. FirstAfter(opts, layout, Total(input), LastEnd(otherEnds), e)
    BY <1>3, <2>1 DEF Other!IsFrameEnd, FirstAfter
  <2>4. LastEnd(otherEnds) < Total(input) /\ otherStatus' # "ok"
    BY <1>2, <1>5, OtherOperators DEF Other!Emit
  <2> QED
    BY <2>1, <2>2, <2>3, <2>4 DEF Extends
<1>6. CASE Other!Finish \/ Other!Reject \/ Other!IOError \/ UNCHANGED Other!vars
  BY <1>1, <1>2, <1>6, OtherOperators
     DEF Other!Finish, Other!Reject, Other!IOError, Other!vars, Other!given
<1> QED
  BY <1>5, <1>6 DEF Other!Next

\* The frames agree after a step of the two runs, whichever of them steps.
LEMMA TwinsStep ==
  ASSUME Twins, [Abstract!Next]_(Abstract!vars), [Other!Next]_(Other!vars)
  PROVE  Twins'
<1>1. /\ Given /\ UNCHANGED <<input, opts, layout>>
  BY OneRunStep DEF Twins
<1>2. PICK o, l, t : o = opts /\ l = layout /\ t = Total(input)
  OBVIOUS
<1>3. o' = o /\ l' = l /\ t' = t /\ o = opts' /\ l = layout' /\ t = Total(input)' /\ Given'
  BY <1>1, <1>2 DEF Given
<1>4. t \in Nat
  BY <1>1, <1>2, TotalType DEF Given
<1>5. PICK a, b, x, y : a = fw.ends /\ b = otherEnds /\ x = fw'.ends /\ y = otherEnds'
  OBVIOUS
<1>6. CutByFraming(o, l, t, a) /\ CutByFraming(o, l, t, b) /\ Agree(a, b) /\ a \in Seq(Nat) /\ b \in Seq(Nat)
  BY <1>2, <1>5 DEF Twins, CutByFraming
<1>7. x = a \/ Extends(a, x, o, l, t)
  BY <1>2, <1>5, OneRunStep
<1>8. y = b \/ Extends(b, y, o, l, t)
  BY <1>2, <1>5, OtherRunStep
<1>9. CutByFraming(o, l, t, x) /\ Agree(x, b) /\ x \in Seq(Nat)
  <2>1. CASE x = a
    BY <1>6, <2>1
  <2>2. CASE Extends(a, x, o, l, t)
    <3>1. PICK e \in Nat : LastEnd(a) < t /\ FirstAfter(o, l, t, LastEnd(a), e)
                             /\ x = Append(a, e)
      BY <2>2 DEF Extends
    <3>2. CutByFraming(o, l, t, x) /\ Agree(x, b)
      BY <1>4, <1>6, <3>1, AgreeAppend
    <3> QED
      BY <3>2 DEF CutByFraming
  <2> QED
    BY <1>7, <2>1, <2>2
<1>10. CutByFraming(o, l, t, y) /\ Agree(x, y)
  <2>1. CASE y = b
    BY <1>6, <1>9, <2>1
  <2>2. CASE Extends(b, y, o, l, t)
    <3>1. PICK e \in Nat : LastEnd(b) < t /\ FirstAfter(o, l, t, LastEnd(b), e)
                             /\ y = Append(b, e)
      BY <2>2 DEF Extends
    <3>2. Agree(b, x)
      BY <1>6, <1>9, AgreeSymmetric
    <3>3. CutByFraming(o, l, t, y) /\ Agree(y, x)
      BY <1>4, <1>6, <1>9, <3>1, <3>2, AgreeAppend
    <3>4. y \in Seq(Nat)
      BY <3>3 DEF CutByFraming
    <3> QED
      BY <1>9, <3>3, <3>4, AgreeSymmetric
  <2> QED
    BY <1>8, <2>1, <2>2
<1>11. /\ CutByFraming(opts, layout, Total(input), fw.ends)'
       /\ CutByFraming(opts, layout, Total(input), otherEnds)'
       /\ Agree(fw.ends, otherEnds)'
  BY <1>3, <1>5, <1>9, <1>10 DEF CutByFraming, Agree
<1>12. /\ (status = "ok" => LastEnd(fw.ends) = Total(input))'
       /\ (otherStatus = "ok" => LastEnd(otherEnds) = Total(input))'
  BY <1>2, <1>3, OneRunStep, OtherRunStep DEF LastEnd
<1> QED
  BY <1>3, <1>11, <1>12 DEF Twins

\* Two runs of Framing on one input that succeed have written the same frames.
LEMMA FramingsAgree ==
  /\ Abstract!Init /\ [][Abstract!Next]_(Abstract!vars)
  /\ Other!Init /\ [][Other!Next]_(Other!vars)
  => []FramesAgree
<1>1. Abstract!Init /\ Other!Init => Twins
  <2> SUFFICES ASSUME Abstract!Init, Other!Init PROVE Twins
    OBVIOUS
  <2>1. Given
    BY SameOperators, ConfigAssumption DEF Abstract!Init, Given
  <2>2. /\ fw.ends = <<>> /\ otherEnds = <<>> /\ otherStatus # "ok"
        /\ (IF status \in {"rejected", "zstdError"} THEN "failed" ELSE status) # "ok"
    BY DEF Abstract!Init, Other!Init
  <2>3. CutByFraming(opts, layout, Total(input), <<>>) /\ Agree(<<>>, <<>>)
    BY DEF CutByFraming, Agree
  <2> QED
    BY <2>1, <2>2, <2>3 DEF Twins
<1>2. Twins /\ [Abstract!Next]_(Abstract!vars) /\ [Other!Next]_(Other!vars) => Twins'
  BY TwinsStep
<1>3. Twins => FramesAgree
  <2> SUFFICES ASSUME Twins, status = "ok", otherStatus = "ok" PROVE fw.ends = otherEnds
    BY DEF FramesAgree
  <2>1. PICK o, l, t, a, b :
          o = opts /\ l = layout /\ t = Total(input) /\ a = fw.ends /\ b = otherEnds
    OBVIOUS
  <2>2. /\ t \in Nat /\ CutByFraming(o, l, t, a) /\ CutByFraming(o, l, t, b) /\ Agree(a, b)
        /\ LastEnd(a) = t /\ LastEnd(b) = t /\ a \in Seq(Nat) /\ b \in Seq(Nat)
    BY <2>1, TotalType DEF Twins, Given, CutByFraming
  <2>3. Len(b) <= Len(a) /\ Len(a) <= Len(b)
    BY <2>2, AgreeWhole, AgreeSymmetric
  <2>4. Len(a) = Len(b) /\ \A i \in 1 .. Len(a) : a[i] = b[i]
    BY <2>2, <2>3 DEF Agree
  <2>5. a = b
    BY <2>2, <2>4, SeqEqual
  <2> QED
    BY <2>1, <2>5
<1> QED
  BY <1>1, <1>2, <1>3, PTL

(***************************************************************************)
(* Parsing a tar archive, which the two tar paths share: what the parser   *)
(* knows of the layout, and where it lets a frame end.                     *)
(***************************************************************************)

\* With the parser at byte `idx', where an entry has the size `pax' if any, and
\* the frames at byte `from': the rest of the archive is what parsing it from
\* here finds, `join' tells whether the element before `idx' goes on, and no
\* element that ended since the last frame made the block large enough.
ParsedTo(idx, pax, join, from) ==
  /\ layout.whole = Rest(input)[<<idx, pax>>].whole
  /\ \A x \in Nat : x > idx => (x \in layout.ends <=> x \in Rest(input)[<<idx, pax>>].ends)
  /\ idx > 0 => (idx \in layout.ends <=> ~join)
  /\ \A x \in layout.ends : from < x /\ x < idx => x < from + minBlockSize(opts)

\* The parser goes on from one entry or null block to the next.
LEMMA ParsedOn ==
  ASSUME Given, minBlockSize(opts) \in Nat, NEW from \in Nat,
         NEW idx, NEW pax, NEW join, <<idx, pax>> \in Places(input),
         ParsedTo(idx, pax, join, from),
         from < idx /\ ~join => idx < from + minBlockSize(opts),
         NEW end, NEW next, NEW goes, Leads(input, idx, pax, end, next, goes)
  PROVE  ParsedTo(end, next, goes, from)
<1>1. input \in Stream
  BY DEF Given
<1>2. /\ idx \in Nat /\ end \in Nat /\ end > idx /\ <<end, next>> \in Places(input)
  BY <1>1, LeadsOn
<1>3. PICK here : here = Rest(input)[<<idx, pax>>]
  OBVIOUS
<1>4. PICK later : later = Rest(input)[<<end, next>>]
  OBVIOUS
<1>5. AddsEnd(here, later, end, goes)
  BY <1>1, <1>3, <1>4, RestLeads
<1>6. later.ends \subseteq end + 1 .. Total(input)
  BY <1>1, <1>2, <1>4, RestType DEF Layouts
<1>7. layout.ends \subseteq Nat
  BY <1>1, LayoutType, TotalType DEF Given, Layouts
<1>8. layout.whole = later.whole
  BY <1>3, <1>5 DEF ParsedTo, AddsEnd
<1>9. ASSUME NEW x \in Nat, x > idx
      PROVE  x \in layout.ends <=> x \in later.ends \/ (~goes /\ x = end)
  BY <1>3, <1>5, <1>9 DEF ParsedTo, AddsEnd
<1>10. end \notin later.ends
  BY <1>1, <1>2, <1>6, TotalType
<1>11. \A x \in Nat : x > end => (x \in layout.ends <=> x \in later.ends)
  BY <1>2, <1>9
<1>12. end \in layout.ends <=> ~goes
  BY <1>2, <1>9, <1>10
<1>13. ASSUME NEW x \in layout.ends, from < x, x < end
       PROVE  x < from + minBlockSize(opts)
  <2>1. CASE x < idx
    BY <1>13, <2>1 DEF ParsedTo
  <2>2. CASE x = idx
    <3>1. idx > 0 /\ ~join
      BY <1>2, <1>13, <2>2 DEF ParsedTo
    <3> QED
      BY <1>13, <2>2, <3>1
  <2>3. CASE x > idx
    <3>1. x \in later.ends
      BY <1>2, <1>7, <1>9, <1>13, <2>3
    <3> QED
      BY <1>1, <1>2, <1>6, <1>7, <1>13, <3>1, TotalType
  <2> QED
    BY <1>2, <1>7, <2>1, <2>2, <2>3
<1> QED
  BY <1>4, <1>8, <1>11, <1>12, <1>13 DEF ParsedTo

\* It still does once a frame was ended that has the minimum.
LEMMA ParsedFrom ==
  ASSUME Given, NEW idx \in Nat, NEW pax, NEW join, NEW from \in Nat, NEW to \in Nat,
         to = from \/ to >= from + minBlockSize(opts) \/ to >= idx,
         ParsedTo(idx, pax, join, from)
  PROVE  ParsedTo(idx, pax, join, to)
<1>1. minBlockSize(opts) \in Nat /\ \A x \in layout.ends : x \in Nat
  BY BlockSizes, LayoutType, TotalType DEF Given, Layouts
<1>2. ASSUME NEW x \in layout.ends, to < x, x < idx
      PROVE  x < to + minBlockSize(opts)
  <2>1. to = from \/ to >= from + minBlockSize(opts)
    BY <1>1, <1>2
  <2>2. from < x
    BY <1>1, <1>2, <2>1
  <2>3. x < from + minBlockSize(opts)
    BY <1>2, <2>2 DEF ParsedTo
  <2> QED
    BY <1>1, <1>2, <2>1, <2>3
<1> QED
  BY <1>2 DEF ParsedTo

\* Where the parser stops, the layout says whether the archive is whole.
LEMMA ParserStops ==
  ASSUME Given, NEW idx, NEW pax, <<idx, pax>> \in Places(input), NEW join, NEW from,
         ParsedTo(idx, pax, join, from),
         \/ idx = Total(input) \/ ~HasBlock(input, idx)
         \/ ~IsNullBlock(input, idx) /\ ~IsWholeEntry(input, idx, pax)
  PROVE  /\ layout.whole <=> idx = Total(input)
         /\ \A x \in Nat : x > idx => x \notin layout.ends
<1>1. Rest(input)[<<idx, pax>>] = [whole |-> idx = Total(input), ends |-> {}]
  BY RestStops DEF Given
<1>2. /\ layout.whole = Rest(input)[<<idx, pax>>].whole
      /\ \A x \in Nat : x > idx => (x \in layout.ends <=> x \in Rest(input)[<<idx, pax>>].ends)
  BY DEF ParsedTo
<1>3. PICK r : r = [whole |-> idx = Total(input), ends |-> {}]
  OBVIOUS
<1>4. r.whole = (idx = Total(input)) /\ r.ends = {}
  BY <1>3
<1>5. Rest(input)[<<idx, pax>>] = r
  BY <1>1, <1>3
<1> QED
  BY <1>2, <1>4, <1>5

\* A frame that ends at byte `e' is the one that Framing promises next, when it
\* may end there and no element that ended before made it large enough.
LEMMA NextFrameEnd ==
  ASSUME Given, ~opts.raw, NEW covered \in Nat, covered = Abstract!Covered,
         NEW e \in Nat, e > covered, e <= covered + maxBlockSize(opts), e <= Total(input),
         \/ e = covered + maxBlockSize(opts)
         \/ e \in layout.ends /\ e >= covered + minBlockSize(opts)
         \/ e = Total(input) /\ layout.whole,
         \A x \in layout.ends : covered < x /\ x < e => x < covered + minBlockSize(opts)
  PROVE  e \in Abstract!FrameEnds /\ Abstract!IsFrameEnd(e)
<1>1. PICK total \in Nat : total = Total(input)
  BY TotalType DEF Given
<1>2. /\ maxBlockSize(opts) \in Nat /\ minBlockSize(opts) \in Nat
      /\ \A x \in layout.ends : x \in Nat
  BY BlockSizes, LayoutType, TotalType DEF Given, Layouts
<1>3. /\ Abstract!Limit = maxBlockSize(opts) /\ Abstract!Total(input) = total
      /\ Abstract!minBlockSize(opts) = minBlockSize(opts)
      /\ Abstract!WellFormed <=> total > 0 /\ layout.whole
  BY <1>1, SameOperators DEF Abstract!Limit, Abstract!WellFormed
<1>4. \A x : x \in Abstract!FrameEnds <=>
        \/ x = covered + maxBlockSize(opts)
        \/ x \in layout.ends /\ x > covered /\ x >= covered + minBlockSize(opts)
        \/ x = total /\ total > 0 /\ layout.whole
  BY <1>3 DEF Abstract!FrameEnds
<1>5. e \in Abstract!FrameEnds
  <2>1. e = Total(input) => total > 0
    BY <1>1
  <2> QED
    BY <1>1, <1>4, <2>1
<1>6. ASSUME NEW x \in Abstract!FrameEnds
      PROVE  e <= x
  <2>1. CASE x \in layout.ends /\ x > covered /\ x >= covered + minBlockSize(opts)
    BY <1>2, <2>1
  <2>2. CASE x = covered + maxBlockSize(opts) \/ x = total
    BY <1>1, <2>2
  <2> QED
    BY <1>4, <1>6, <2>1, <2>2
<1> QED
  BY <1>5, <1>6 DEF Abstract!IsFrameEnd
=============================================================================
