----------------------------- MODULE MCStdinTar -----------------------------
(* The instances of StdinTar that TLC checks. *)
EXTENDS StdinTar, Archives

\* No option, -s and -S alone, equal and different, and more than fits in a
\* frame; -j.
MCOptions ==
  {Line(0, 0), Line(5, 0), Line(0, 4), Line(4, 4), Line(3, 5), NoTable(100, 100)}

\* Three entries in a row, most of which join the next one: what waits in
\* `held' grows and no longer fits.
JoinPieces == {Entry("0", 1), AppleDouble(0), Pax(1, TarBlock), Entry("L", 1), Null(1)}

Joins == Archives(JoinPieces, 3)

MCInputs == Archives(Pieces, 2) \cup Joins

\* Three entries are enough without the command lines that cut them.
MCInit == Init /\ (input \in Joins => opts \in {Line(0, 0), Line(5, 0), Line(0, 4)})

MCSpec == MCInit /\ [][Next]_vars /\ WF_vars(Step)

\* A pax header whose data is larger than `held' and than a chunk.
MCBigPaxInputs ==
  LET pax == Pax(3, TarBlock)
  IN  Archives(Pieces \cup {pax, pax \o <<Header("0", 0)>> \o Data(1)}, 1)
=============================================================================
