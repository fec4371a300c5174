----------------------------- MODULE MCMmapFile -----------------------------
(* The instances of MmapFile that TLC checks. *)
EXTENDS MmapFile, Archives

MCOptions ==
  {Line(0, 0), Line(5, 0), Line(0, 4), Line(4, 4), Line(3, 5), Line(0, 1), NoTable(100, 100)}
    \cup {Raw(0), Raw(4), Raw(100)}

MCInputs == Archives(Pieces, 2)
=============================================================================
