----------------------------- MODULE MCStdinRaw -----------------------------
(* The instances of StdinRaw that TLC checks. *)
EXTENDS StdinRaw, Archives

MCOptions == {Raw(0), Raw(1), Raw(4), Raw(7), Raw(100)}

\* In raw mode only the number of bytes matters.
MCInputs == {Archive(Data(n), tail) : n \in 0 .. 11, tail \in 0 .. TarBlock - 1}
=============================================================================
