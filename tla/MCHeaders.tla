----------------------------- MODULE MCHeaders -----------------------------
(***************************************************************************)
(* The instances of TarFields and of PaxRecords that TLC checks, side by   *)
(* side: the fields of a header, or the records of a pax header.           *)
(***************************************************************************)
EXTENDS TarFields

CONSTANTS
  PaxRadix,   \* the base of the numbers in pax records
  PaxMax,     \* the largest of them
  MaxData, MaxDigits

VARIABLES data, records, pos, recLen, i, size, pc, result

paxVars == <<data, records, pos, recLen, i, size, pc, result>>

Pax == INSTANCE PaxRecords WITH Radix <- PaxRadix, U64Max <- PaxMax, SizeMax <- PaxMax

ASSUME PaxRecordsAssumption == Pax!ConstantsFit

\* No header, and no pax data, when it is the other's turn.
NoHeader == blocks = <<>> /\ first = <<>> /\ off = 0 /\ meant = -1

MCInit == (Init /\ Pax!Idle) \/ (NoHeader /\ Pax!Init)

MCNext ==
  \/ Next /\ UNCHANGED paxVars
  \/ Pax!Next /\ UNCHANGED vars

\* paxSize() is a loop without calls: nothing delays it.
MCSpec == MCInit /\ [][MCNext]_<<vars, paxVars>> /\ WF_paxVars(Pax!Next /\ UNCHANGED vars)

\* paxSize() returns what a list of records says (see PaxRecords).
FindsSize == Pax!FindsSize

\* paxSize() ends on any data (see PaxRecords).
Termination == Pax!Termination
=============================================================================
