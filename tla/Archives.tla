------------------------------ MODULE Archives ------------------------------
(***************************************************************************)
(* Small tar archives for the model checker, built from the elements that  *)
(* tests/ builds its archives from.                                        *)
(***************************************************************************)
EXTENDS Config, SequencesExt

Header(type, size) ==
  [NullBlock EXCEPT !.kind = "header", !.type = type, !.size = size]

Other == [NullBlock EXCEPT !.kind = "other"]

Data(n) == [i \in 1 .. n |-> Other]

\* An entry of type `type' whose payload has `n' blocks, the last one partly
\* filled.
Entry(type, n) ==
  <<Header(type, IF n = 0 THEN 0 ELSE (n - 1) * TarBlock + 1)>> \o Data(n)

AppleDouble(n) == [Entry("0", n) EXCEPT ![1].apple = TRUE]

\* A pax header of `n' blocks whose last block says "size=v".
Pax(n, v) == [Entry("x", n) EXCEPT ![n + 1].pax = v]

\* A pax header that gives the size of an entry whose own size field is 0.
PaxSized(n) == Pax(1, n * TarBlock) \o <<Header("0", 0)>> \o Data(n)

\* A GNU sparse entry with `k' map extension blocks and `n' payload blocks.
Sparse(k, n) ==
  <<[Header("S", n * TarBlock) EXCEPT !.isext = k > 0]>>
    \o [i \in 1 .. k |-> [Other EXCEPT !.more = i < k]] \o Data(n)

Null(n) == [i \in 1 .. n |-> NullBlock]

\* Pieces that follow each other in a well-formed archive.
Pieces ==
  {Entry("0", 0), Entry("0", 1), Entry("0", 3), AppleDouble(1), AppleDouble(3),
   Entry("L", 1), Entry("g", 0), Pax(1, TarBlock), PaxSized(2), Sparse(0, 1), Sparse(2, 1),
   Null(1), Null(2)}

\* Pieces that end one that is not: a block that is no header, sizes that
\* 64 bits do and do not hold with padding, a payload and a sparse map cut
\* short.
Broken ==
  {Data(1), <<Header("0", U64Max)>>, <<Header("0", U64Max - (2 * TarBlock))>>,
   Entry("L", 0) \o <<Header("0", U64Max - (2 * TarBlock))>>,
   <<Header("L", TarBlock)>>, <<Header("0", TarBlock)>> ,
   <<[Header("S", 0) EXCEPT !.isext = TRUE]>>,
   <<[Header("S", 0) EXCEPT !.isext = TRUE], [Other EXCEPT !.more = TRUE]>>}

Concat(xs) == FlattenSeq(xs)

Archive(blocks, tail) == [blocks |-> blocks, tail |-> tail]

\* Archives of up to `n' of the elements `ps', whole, ending in a broken
\* element, or in less than a block.
Archives(ps, n) ==
  LET whole == {Concat(xs) : xs \in BoundedSeq(ps, n)}
      short == {Concat(xs) : xs \in BoundedSeq(ps, n - 1)}
  IN  {Archive(bs, 0) : bs \in whole}
        \cup {Archive(a \o b, 0) : a \in short, b \in Broken}
        \cup {Archive(bs, TarBlock - 1) : bs \in short}

----------------------------------------------------------------------------
(* Command lines. *)

Line(s, S) == [raw |-> FALSE, noTable |-> FALSE, s |-> s, S |-> S]

NoTable(s, S) == [Line(s, S) EXCEPT !.noTable = TRUE]

Raw(s) == [Line(s, 0) EXCEPT !.raw = TRUE]
=============================================================================
