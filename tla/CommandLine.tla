---------------------------- MODULE CommandLine ----------------------------
(***************************************************************************)
(* parseArgs(): getopt() and the switch over what it returns, the numbers  *)
(* and sizes of the options, and the checks once every option is read.     *)
(*                                                                         *)
(* A word of the command line is a sequence of tokens: a number, or a text *)
(* such as "-", the letter of an option, a suffix or the end of a name.    *)
(***************************************************************************)
EXTENDS Integers, SequencesExt

CONSTANTS
  Permute,    \* getopt() looks for options after an operand, as glibc's does
  Kibi,       \* 1024
  Kilo,       \* 1000
  MaxLevel,   \* 22
  SizeMax,    \* SIZE_MAX
  ULLMax,     \* ULLONG_MAX
  LongMax,    \* LONG_MAX
  U32Max      \* UINT32_MAX

Number(n) == [number |-> n]

Text(t) == [text |-> t]

Token == [number : Nat] \cup [text : STRING]

IsNumber(token) == DOMAIN token = {"number"}

Minus == Text("-")

Space == Text(" ")

ASSUME CommandLineAssumption ==
  /\ Permute \in BOOLEAN
  /\ {Kibi, Kilo, MaxLevel} \subseteq Nat \ {0, 1}
  /\ {SizeMax, ULLMax, LongMax, U32Max} \subseteq Nat
  /\ MaxLevel <= LongMax /\ SizeMax <= ULLMax

WithArgument == {"l", "o", "s", "S", "T"}

Flags == {"r", "j", "V", "f", "v", "h"}

None == <<>>

newContext ==
  [level |-> 3, s |-> 0, S |-> 0, workers |-> 0, raw |-> FALSE, noTable |-> FALSE,
   verbose |-> FALSE, stdin |-> FALSE, overwrite |-> FALSE, out |-> None, in |-> None]

VARIABLES
  line,      \* the command line being read, without the program's name
  optind,    \* the next word getopt() reads
  cluster,   \* what is left of the word of options it is in
  operands,  \* the words it skipped
  ctx,       \* the Context, and main()'s `overwrite'
  status,
  returned   \* history: the options returned so far, with their arguments

getoptState == <<optind, cluster, operands>>

vars == <<line, getoptState, ctx, status, returned>>

\* parseArgs() starts on a command line.
Start(l) ==
  /\ line = l /\ ctx = newContext
  /\ optind = 1 /\ cluster = <<>> /\ operands = <<>>
  /\ returned = <<>>

----------------------------------------------------------------------------
(* The C library. *)

\* strtol() and strtoull() skip a space and a sign, and read a number.
Lead(arg) == IF arg # <<>> /\ arg[1] \in {Space, Minus} THEN 1 ELSE 0

HasDigits(arg) == Len(arg) > Lead(arg) /\ IsNumber(arg[Lead(arg) + 1])

Magnitude(arg) == IF HasDigits(arg) THEN arg[Lead(arg) + 1].number ELSE 0

strtol(arg) == IF Lead(arg) = 1 /\ arg[1] = Minus THEN -Magnitude(arg) ELSE Magnitude(arg)

endptr(arg) == IF HasDigits(arg) THEN SubSeq(arg, Lead(arg) + 2, Len(arg)) ELSE arg

\* A word of options; a lone "-" is an operand.
IsOptions(word) == Len(word) > 1 /\ word[1] = Minus

NextOptions ==
  CHOOSE k \in optind .. Len(line) + 1 :
    /\ k = Len(line) + 1 \/ IsOptions(line[k])
    /\ \A j \in optind .. k - 1 : ~IsOptions(line[j])

Skipped == operands \o SubSeq(line, optind, NextOptions - 1)

NextWord == IF NextOptions <= Len(line) THEN line[NextOptions] ELSE None

AtMarker == NextWord = <<Minus, Minus>> /\ (Permute \/ NextOptions = optind)

NoMoreOptions ==
  cluster = <<>> /\ (NextWord = None \/ AtMarker \/ (~Permute /\ NextOptions > optind))

\* What argv + optind holds when getopt() returned -1.
Remaining ==
  IF AtMarker
  THEN Skipped \o SubSeq(line, NextOptions + 1, Len(line))
  ELSE operands \o SubSeq(line, optind, Len(line))

\* getopt() returns the next letter: one of the word it is in, or the first of
\* the next word of options.
Word == IF cluster # <<>> THEN cluster ELSE Tail(NextWord)

After == IF cluster # <<>> THEN optind ELSE NextOptions + 1

Letter == IF IsNumber(Word[1]) THEN "number" ELSE Word[1].text

Missing == Letter \in WithArgument /\ Len(Word) = 1 /\ After > Len(line)

optarg ==
  IF Letter \notin WithArgument THEN None
  ELSE IF Len(Word) > 1 THEN Tail(Word) ELSE line[After]

Getopt(letters) ==
  /\ status = "parsing" /\ ~NoMoreOptions
  /\ Letter \in letters /\ ~Missing
  /\ operands' = IF cluster # <<>> THEN operands ELSE Skipped
  /\ cluster' = IF Letter \in WithArgument THEN <<>> ELSE Tail(Word)
  /\ optind' = IF Letter \in WithArgument /\ Len(Word) = 1 THEN After + 1 ELSE After
  /\ returned' = Append(returned, <<Letter, optarg>>)
  /\ UNCHANGED line

----------------------------------------------------------------------------
(* parseArgs(). *)

Take(new) == ctx' = new /\ UNCHANGED status

Leave(how) == status' = how /\ UNCHANGED ctx

WholeNumber(arg) ==
  HasDigits(arg) /\ endptr(arg) = <<>> /\ Magnitude(arg) <= LongMax

Level ==
  /\ Getopt({"l"})
  /\ IF WholeNumber(optarg) /\ strtol(optarg) \in 1 .. MaxLevel
     THEN Take([ctx EXCEPT !.level = strtol(optarg)])
     ELSE Leave("refused")

Threads ==
  /\ Getopt({"T"})
  /\ IF WholeNumber(optarg) /\ strtol(optarg) \in 1 .. U32Max
     THEN Take([ctx EXCEPT !.workers = strtol(optarg)])
     ELSE Leave("refused")

Output == Getopt({"o"}) /\ Take([ctx EXCEPT !.out = optarg])

decodeMultiplier(suffix) ==
  CASE suffix \in {<<Text("k")>>, <<Text("K")>>, <<Text("KiB")>>} -> Kibi
    [] suffix \in {<<Text("M")>>, <<Text("MiB")>>}                -> Kibi * Kibi
    [] suffix \in {<<Text("G")>>, <<Text("GiB")>>}                -> Kibi * Kibi * Kibi
    [] suffix \in {<<Text("kB")>>, <<Text("KB")>>}                -> Kilo
    [] suffix = <<Text("MB")>>                                    -> Kilo * Kilo
    [] suffix = <<Text("GB")>>                                    -> Kilo * Kilo * Kilo
    [] OTHER                                                      -> 1

\* Mutant: the product is not checked.
ValidSizeAny(arg) ==
  /\ arg # <<>> /\ IsNumber(arg[1])
  /\ Magnitude(arg) \in 1 .. ULLMax
  /\ endptr(arg) = <<>> \/ decodeMultiplier(endptr(arg)) # 1

ValidSize(arg) ==
  /\ arg # <<>> /\ IsNumber(arg[1])
  /\ Magnitude(arg) \in 1 .. ULLMax
  /\ endptr(arg) = <<>> \/ decodeMultiplier(endptr(arg)) # 1
  /\ Magnitude(arg) <= SizeMax \div decodeMultiplier(endptr(arg))

parseBlockSize(arg) == (Magnitude(arg) * decodeMultiplier(endptr(arg))) % (SizeMax + 1)

MinBlockSize ==
  /\ Getopt({"s"})
  /\ IF ValidSize(optarg)
     THEN Take([ctx EXCEPT !.s = parseBlockSize(optarg)])
     ELSE Leave("refused")

MaxBlockSize ==
  /\ Getopt({"S"})
  /\ IF ValidSize(optarg)
     THEN Take([ctx EXCEPT !.S = parseBlockSize(optarg)])
     ELSE Leave("refused")

Flag ==
  /\ Getopt({"r", "j", "v", "f"})
  /\ Take([ctx EXCEPT !.raw = @ \/ Letter = "r", !.noTable = @ \/ Letter = "j",
                      !.verbose = @ \/ Letter = "v", !.overwrite = @ \/ Letter = "f"])

\* -V and -h end the process, and the word they are in is half read.
Tell == Getopt({"V", "h"}) /\ Leave("told")

\* getopt() returned '?': no such option, or no argument for it.
Unknown ==
  /\ status = "parsing" /\ ~NoMoreOptions
  /\ Letter \notin WithArgument \cup Flags \/ Missing
  /\ operands' = IF cluster # <<>> THEN operands ELSE Skipped
  /\ cluster' = Tail(Word) /\ optind' = After
  /\ Leave("refused")
  /\ UNCHANGED <<line, returned>>

SizesOrdered == ctx.S = 0 \/ ctx.S >= ctx.s

AtEnd == status = "parsing" /\ NoMoreOptions

BadCount ==
  /\ AtEnd /\ Len(Remaining) # 1
  /\ Leave("refused")
  /\ UNCHANGED <<line, getoptState, returned>>

BadSizes ==
  /\ AtEnd /\ Len(Remaining) = 1 /\ ~SizesOrdered
  /\ Leave("sizes refused")
  /\ UNCHANGED <<line, getoptState, returned>>

\* strEndsWith() ignores case.
IsTarName(word) == word # <<>> /\ Last(word) \in {Text(".tar"), Text(".TAR"), Text(".gtar")}

Accept ==
  /\ AtEnd /\ Len(Remaining) = 1 /\ SizesOrdered
  /\ LET in == Remaining[1] IN
       ctx' = [ctx EXCEPT !.in = in, !.stdin = (in = <<Minus>>),
                          !.raw = @ \/ (in # <<Minus>> /\ ~IsTarName(in))]
  /\ status' = "accepted"
  /\ UNCHANGED <<line, getoptState, returned>>

Next ==
  \/ Level \/ Threads \/ Output \/ MinBlockSize \/ MaxBlockSize \/ Flag \/ Tell
  \/ Unknown \/ BadCount \/ BadSizes \/ Accept
----------------------------------------------------------------------------
\* The size that an argument stands for, in numbers without a limit.
SizeMeant(arg) ==
  LET factor == [k |-> Kibi, K |-> Kibi, KiB |-> Kibi, M |-> Kibi * Kibi, MiB |-> Kibi * Kibi,
                 G |-> Kibi * Kibi * Kibi, GiB |-> Kibi * Kibi * Kibi, kB |-> Kilo, KB |-> Kilo,
                 MB |-> Kilo * Kilo, GB |-> Kilo * Kilo * Kilo]
  IN  CASE Len(arg) = 1 -> arg[1].number
        [] Len(arg) = 2 -> arg[1].number * factor[arg[2].text]

\* The argument of the last option with this letter.
LastArgument(letter) ==
  returned[Max({i \in DOMAIN returned : returned[i][1] = letter})][2]

Given(letter) == \E i \in DOMAIN returned : returned[i][1] = letter

\* A run starts with the sizes and the level that the last option of each kind
\* says, whatever the order and the grouping of the options: a number that does
\* not fit, a suffix that is not one, a sign or a space never gives another
\* size.  They are sizes that Config takes, -S absent or no smaller than -s.
TakenAsMeant ==
  status = "accepted" =>
    /\ ctx.s = (IF Given("s") THEN SizeMeant(LastArgument("s")) ELSE 0)
    /\ ctx.S = (IF Given("S") THEN SizeMeant(LastArgument("S")) ELSE 0)
    /\ Given("l") => ctx.level = Magnitude(LastArgument("l"))
    /\ Given("r") => ctx.raw
    /\ ctx.S = 0 \/ ctx.s <= ctx.S
=============================================================================
