------------------------------ MODULE MCFiles ------------------------------
(***************************************************************************)
(* The instances of OutputFile and of Launch that TLC checks, side by      *)
(* side: the life of the output of a run, or what it opens at its start.   *)
(***************************************************************************)
EXTENDS OutputFile

CONSTANTS MaxLines

VARIABLES arg, inKind, outName, at, fd, stdin, lines, c, agreed, ctx, truncated, stage, outcome

launchVars ==
  <<arg, inKind, outName, at, fd, stdin, lines, c, agreed, ctx, truncated, stage, outcome>>

Launch == INSTANCE Launch WITH pc <- stage, status <- outcome, yes <- agreed

ASSUME LaunchAssumption == Launch!ConstantsFit

\* One of the two is about to start, always from the same state, and waits.
OutputWaits ==
  pc = "access" /\ ~force /\ ~terminal /\ ignored = {} /\ name = NoNode /\ others = 0

LaunchWaits ==
  /\ stage = "stderr" /\ inKind = "none" /\ outName = "none"
  /\ arg = [dash |-> FALSE, raw |-> FALSE, force |-> FALSE, out |-> "absent"]
  /\ \A n \in Launch!Fds : fd[n] = Launch!Closed

MCInit == Init /\ Launch!Init /\ (OutputWaits \/ LaunchWaits)

MCNext ==
  \/ LaunchWaits /\ Next /\ UNCHANGED launchVars
  \/ OutputWaits /\ Launch!Next /\ UNCHANGED vars

MCSpec == MCInit /\ [][MCNext]_<<vars, launchVars>>

\* The data compressed is the input's and nothing else's (see Launch).
ReadsInput == Launch!ReadsInput

\* No command line makes the run truncate its input (see Launch).
InputIntact == Launch!InputIntact

\* The archive goes where it was asked to, and nothing else does (see Launch).
OutputApart == Launch!OutputApart
=============================================================================
