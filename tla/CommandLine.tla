---------------------------- MODULE CommandLine -----------------------------
(***************************************************************************)
(* The one string a Windows child is started with, and the argument vector *)
(* it makes of it (quoteWindowsCommandLineArgument and                     *)
(* buildWindowsCommandLine of child.hpp).                                  *)
(*                                                                         *)
(* A character is a space, a tab, a quote "q", a backslash "b" or anything *)
(* else.                                                                   *)
(***************************************************************************)
EXTENDS Naturals, Sequences, SequencesExt

CONSTANT MaxCharacters    \* bound on the characters of an argument vector

ASSUME CommandAssumption == MaxCharacters \in Nat

VARIABLE argv

Blanks == {" ", "t"}
Characters == Blanks \cup {"q", "b", "a"}

Backslashes(n) == [i \in 1..n |-> "b"]

(* Fault: an argument that ends in backslashes closes with them as they    *)
(* are.                                                                    *)
ClosingUndoubled(run) == Append(Backslashes(run), "q")

(* The closing quote, after the backslashes that would escape it.          *)
Closing(run) == Append(Backslashes(2 * run), "q")

(* One character of a quoted argument: backslashes wait for what follows.  *)
QuoteOne(q, c) ==
  CASE c = "b" -> [q EXCEPT !.run = @ + 1]
    [] c = "q" -> [out |-> q.out \o Backslashes(2 * q.run + 1) \o <<c>>,
                   run |-> 0]
    [] OTHER -> [out |-> q.out \o Backslashes(q.run) \o <<c>>, run |-> 0]

Quoted(arg) ==
  IF arg # <<>> /\ \A i \in DOMAIN arg : arg[i] \notin Blanks \cup {"q"}
  THEN arg
  ELSE LET body == FoldLeft(QuoteOne, [out |-> <<"q">>, run |-> 0], arg)
       IN  body.out \o Closing(body.run)

buildWindowsCommandLine(args) ==
  FoldLeft(LAMBDA line, i :
             line \o (IF i = 1 THEN <<>> ELSE <<" ">>) \o Quoted(args[i]),
           <<>>, [i \in DOMAIN args |-> i])

-----------------------------------------------------------------------------
(* What the child's runtime makes of the string: the rules documented for  *)
(* CommandLineToArgvW.                                                     *)

EmptySplit == [args |-> <<>>, text |-> <<>>, open |-> FALSE,
               quoting |-> FALSE, run |-> 0]

(* A run of backslashes that no quote follows is literal.                  *)
Literal(s) == [s EXCEPT !.text = @ \o Backslashes(s.run), !.run = 0]

EndArgument(s) ==
  IF s.open THEN [s EXCEPT !.args = Append(@, s.text), !.text = <<>>,
                           !.open = FALSE]
  ELSE s

SplitOne(s, c) ==
  CASE c = "b" -> [s EXCEPT !.run = @ + 1, !.open = TRUE]
    [] c = "q" /\ s.run % 2 = 1 ->
         [s EXCEPT !.text = @ \o Backslashes(s.run \div 2) \o <<c>>,
                   !.run = 0]
    [] c = "q" /\ s.run % 2 = 0 ->
         [s EXCEPT !.text = @ \o Backslashes(s.run \div 2),
                   !.run = 0, !.open = TRUE, !.quoting = ~@]
    [] c \in Blanks /\ ~s.quoting -> EndArgument(Literal(s))
    [] OTHER -> [Literal(s) EXCEPT !.text = Append(@, c), !.open = TRUE]

Split(line) == EndArgument(Literal(FoldLeft(SplitOne, EmptySplit, line))).args

-----------------------------------------------------------------------------
(* Every argument vector is built up.                                      *)

TotalLength == FoldLeft(LAMBDA n, arg : n + Len(arg), 0, argv)

AddArgument ==
  /\ Len(argv) + TotalLength < MaxCharacters
  /\ argv' = Append(argv, <<>>)

AddCharacter(c) ==
  /\ argv # <<>>
  /\ Len(argv) + TotalLength < MaxCharacters
  /\ argv' = [argv EXCEPT ![Len(argv)] = Append(@, c)]

CommandNext == AddArgument \/ \E c \in Characters : AddCharacter(c)

(* The child gets the argument vector it was started with, whatever blanks,*)
(* quotes and backslashes are in it, empty arguments included              *)
(* (buildWindowsCommandLine).                                              *)
ArgvRoundTrips == Split(buildWindowsCommandLine(argv)) = argv

=============================================================================
