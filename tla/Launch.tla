------------------------------- MODULE Launch -------------------------------
(***************************************************************************)
(* How main() and prepareInput() connect the input, the output and the     *)
(* standard streams of a run before anything is compressed: descriptors    *)
(* 0, 1 and 2, any of which may be closed at the start, the stdio state of *)
(* standard input, which the answer to the prompt is read through, and the *)
(* files behind the names.                                                 *)
(*                                                                         *)
(* No other process touches the names meanwhile: OutputFile is about that. *)
(* The system calls fail here only where a failure is not the end of the   *)
(* run (mmap) or where the program decides it.                             *)
(***************************************************************************)
EXTENDS Naturals, Sequences, FiniteSetsExt

CONSTANTS
  MaxLines   \* bound: lines read from the terminal

\* What the model assumes of the constant.
ConstantsFit == MaxLines \in Nat

Fds == 0 .. 4

NoFd == 5

\* What a descriptor refers to: the file that the input's name refers to, the
\* one that the output's name refers to, or what the shell left there.
Fd(obj, mode) == [obj |-> obj, mode |-> mode]

Closed == Fd("none", "none")

Readable(f) == f.mode \in {"r", "rw"}

\* What a terminal returns to one read(2): a line, the part of one before
\* Ctrl-D, or nothing, the end of file, for Ctrl-D alone.
Lines == {<<"y", "\n">>, <<"y", "e", "\n">>, <<"n", "\n">>, <<"\n">>, <<"y">>, <<>>}

VARIABLES
  arg,        \* the command line: dash, the input is "-"; raw, rawMode; force,
              \* -f; out, the argument of -o
  inKind,     \* what the input's name refers to
  outName,    \* the file that the output's name refers to, or "none"
  at,         \* descriptors 0 and 1 at the start (history)
  fd,         \* the descriptors
  stdin,      \* the FILE: its buffer and its end-of-file indicator
  lines,      \* lines read from the terminal
  c, yes,     \* the locals of the prompt
  ctx,        \* stdinMode, stdoutMode, whether inBuff is a mapping, and the
              \* descriptor of outFile
  truncated,  \* the file that fopen() truncated, or "none" (history)
  pc, status

given == <<arg, inKind, at>>

prompt == <<stdin, lines, c, yes>>

vars == <<given, outName, fd, prompt, ctx, truncated, pc, status>>

Init ==
  /\ arg \in [dash : BOOLEAN, raw : BOOLEAN, force : BOOLEAN, out : {"absent", "-", "name"}]
  /\ inKind \in {"none", "regular", "empty", "directory", "special"}
  /\ outName \in {"none", "out"} \cup (IF inKind = "none" THEN {} ELSE {"in"})
  /\ \E f0 \in {Closed, Fd("terminal", "rw"), Fd("pipe", "r"), Fd("in", "r"), Fd("out", "r")},
        f1 \in {Closed, Fd("terminal", "rw"), Fd("pipe", "w")},
        f2 \in {Closed, Fd("terminal", "rw")} :
       /\ f0.obj = "in" => inKind # "none"
       /\ f0.obj = "out" => outName = "out"
       /\ at = <<f0, f1>>
       /\ fd = [n \in Fds |-> CASE n = 0 -> f0 [] n = 1 -> f1 [] n = 2 -> f2
                                [] OTHER -> Closed]
  /\ stdin = [buffer |-> <<>>, eof |-> FALSE]
  /\ lines = 0 /\ c = "none" /\ yes = FALSE
  /\ ctx = [stdinMode |-> arg.dash, stdoutMode |-> FALSE, mapped |-> FALSE, out |-> NoFd]
  /\ truncated = "none"
  /\ pc = "stderr" /\ status = "running"

At(label) == status = "running" /\ pc = label

Goto(label) == pc' = label /\ UNCHANGED status

End(how) == status' = how /\ UNCHANGED pc

Quiet == UNCHANGED <<given, outName, fd, prompt, ctx, truncated>>

----------------------------------------------------------------------------
(* main(). *)

\* Mutant: stderr stays closed.
WithStderrNot == fd

\* open() takes the lowest free descriptor, which dup2() and close() move.
WithStderr == IF fd[2] = Closed THEN [fd EXCEPT ![2] = Fd("/dev/null", "w")] ELSE fd

FixStderr ==
  /\ At("stderr")
  /\ fd' = WithStderr
  /\ Goto("input")
  /\ UNCHANGED <<given, outName, prompt, ctx, truncated>>

\* "File not found".
CheckInput ==
  /\ At("input")
  /\ IF ~arg.dash /\ inKind = "none" THEN End("refused") ELSE Goto("destination")
  /\ Quiet

Destination ==
  /\ At("destination")
  /\ IF arg.out = "absent" /\ ctx.stdinMode /\ fd[1].obj = "terminal"
     THEN End("refused") /\ UNCHANGED ctx
     ELSE /\ ctx' = [ctx EXCEPT !.stdoutMode =
                       arg.out = "-" \/ (arg.out = "absent" /\ ctx.stdinMode)]
          /\ Goto("same")
  /\ UNCHANGED <<given, outName, fd, prompt, truncated>>

\* Mutant: only the names given are compared.
outputIsInputNamed == ~ctx.stdinMode /\ outName = "in"

outputIsInput == outName # "none" /\ outName = (IF ctx.stdinMode THEN fd[0].obj ELSE "in")

CheckSame ==
  /\ At("same")
  /\ IF ~ctx.stdoutMode /\ outputIsInput THEN End("refused") ELSE Goto("exists")
  /\ Quiet

\* The answer is read from stdin: a terminal, and not the input.
mayAsk == ~ctx.stdinMode /\ fd[0].obj = "terminal"

CheckExists ==
  /\ At("exists")
  /\ CASE ctx.stdoutMode \/ arg.force \/ outName = "none" -> Goto("open")
       [] OTHER -> IF mayAsk THEN Goto("prompt") ELSE End("refused")
  /\ Quiet

\* getchar(): from the buffer, or from the next line of the terminal.
getchar ==
  \/ /\ stdin.buffer # <<>>
     /\ c' = Head(stdin.buffer)
     /\ stdin' = [stdin EXCEPT !.buffer = Tail(@)]
     /\ UNCHANGED lines
  \/ /\ stdin.buffer = <<>> /\ lines < MaxLines
     /\ lines' = lines + 1
     /\ \E line \in Lines :
          IF line = <<>> THEN c' = "EOF" /\ stdin' = [stdin EXCEPT !.eof = TRUE]
          ELSE c' = Head(line) /\ stdin' = [stdin EXCEPT !.buffer = Tail(line)]

\* Mutant: the answer is one character.
LineEndsFirst == c # "none"

\* The answer ends with its line.
LineEnds == c \in {"\n", "EOF"}

Getchar ==
  /\ At("prompt") /\ ~LineEnds
  /\ getchar
  /\ yes' = IF c = "none" THEN c' = "y" ELSE yes
  /\ UNCHANGED <<given, outName, fd, ctx, truncated, pc, status>>

Answered ==
  /\ At("prompt") /\ LineEnds
  /\ IF yes THEN Goto("open") ELSE End("declined")
  /\ Quiet

----------------------------------------------------------------------------
(* prepareInput() and prepareOutput(). *)

SkipInput == At("open") /\ ctx.stdinMode /\ Goto("output") /\ Quiet

Opening == At("open") /\ ~ctx.stdinMode

\* A directory, or an empty tar file.
RejectInput ==
  /\ Opening
  /\ inKind = "directory" \/ (inKind = "empty" /\ ~arg.raw)
  /\ End("rejected")
  /\ Quiet

\* A regular file that reports a size is mapped, and its descriptor closed.
MapInput ==
  /\ Opening /\ inKind = "regular"
  /\ ctx' = [ctx EXCEPT !.mapped = TRUE]
  /\ Goto("output")
  /\ UNCHANGED <<given, outName, fd, prompt, truncated>>

Redirected == [ctx EXCEPT !.stdinMode = TRUE]

\* Anything else, and a file that cannot be mapped, becomes standard input:
\* dup2() changes the descriptor under the FILE, and nothing of the FILE.
RedirectInput ==
  /\ Opening
  /\ inKind \in {"regular", "special"} \/ (inKind = "empty" /\ arg.raw)
  /\ fd' = [fd EXCEPT ![0] = Fd("in", "r")]
  /\ ctx' = Redirected
  /\ Goto("output")
  /\ UNCHANGED <<given, outName, prompt, truncated>>

\* fopen(outFilename, "wb") takes the lowest free descriptor, which may be 0
\* or 1, and truncates the file that has the name.
PrepareOutput ==
  /\ At("output")
  /\ IF ctx.stdoutMode
     THEN ctx' = [ctx EXCEPT !.out = 1] /\ UNCHANGED <<fd, outName, truncated>>
     ELSE LET n == Min({k \in Fds : fd[k] = Closed})
          IN  /\ ctx' = [ctx EXCEPT !.out = n]
              /\ truncated' = outName
              /\ outName' = IF outName = "none" THEN "out" ELSE outName
              /\ fd' = [fd EXCEPT ![n] = Fd(outName', "w")]
  /\ Goto("compress")
  /\ UNCHANGED <<given, prompt>>

Next ==
  \/ FixStderr \/ CheckInput \/ Destination \/ CheckSame \/ CheckExists
  \/ Getchar \/ Answered
  \/ SkipInput \/ RejectInput \/ MapInput \/ RedirectInput
  \/ PrepareOutput

Spec == Init /\ [][Next]_vars
----------------------------------------------------------------------------
Compressing == pc = "compress"

\* What the run was asked to read.
asked == IF arg.dash THEN at[1].obj ELSE "in"

\* The data compressed is the input's and nothing else's: a mapping of a file
\* with a size, or a standard input that is the file asked for, or cannot be
\* read when the shell closed it, with nothing of the answer to the prompt
\* left in the buffer before it ("A closed stdin or stdout stays closed, so
\* that reading or writing it fails as it should").
ReadsInput ==
  Compressing =>
    /\ ctx.mapped => inKind = "regular"
    /\ ~ctx.mapped => /\ stdin.buffer = <<>>
                      /\ Readable(fd[0]) => fd[0].obj = asked
                      /\ ~arg.dash => Readable(fd[0])

\* No command line makes the run truncate the file it is to read, whatever the
\* names and the redirections of the shell that lead to it.
InputIntact == truncated # "none" => truncated # asked

\* The archive goes where it was asked to, and nothing else goes there: the
\* descriptor of the messages is neither of the files, and with -o - what is
\* written is the standard output of the start, closed if it was closed.
OutputApart ==
  Compressing =>
    /\ fd[2].obj \notin {"in", "out", "none"}
    /\ IF ctx.stdoutMode THEN fd[1] = at[2]
       ELSE /\ fd[ctx.out] = Fd(outName, "w") /\ outName # asked
            /\ \A n \in Fds \ {ctx.out} : fd[n] # fd[ctx.out]

\* The streaming path reads the whole input ("redirect it to stdin so the
\* streaming code path can handle it"): nothing says that it is at its end
\* before it is read.
ReadsToTheEnd == Compressing /\ ctx.stdinMode => ~stdin.eof
=============================================================================
