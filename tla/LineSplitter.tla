---------------------------- MODULE LineSplitter ----------------------------
(***************************************************************************)
(* How a capture thread cuts a child's output into lines                   *)
(* (ChildProcess::captureLoop and processCapturedChunk of child.hpp): the  *)
(* bytes arrive in reads of any size, and only the carried tail and the    *)
(* discard flag survive from one read to the next.                         *)
(*                                                                         *)
(* A byte is "n" (newline), "r" (carriage return) or anything else.        *)
(***************************************************************************)
EXTENDS Naturals, Sequences, SequencesExt

CONSTANTS
  LineCap,    \* cLineCap
  MaxBytes    \* bound on the output of the child

ASSUME SplitterAssumption == LineCap \in Nat /\ MaxBytes \in Nat

VARIABLES
  input,       \* what the child writes until it closes the pipe
  pos,         \* bytes processed
  chunkEnd,    \* where the chunk of the last read ends
  carry,       \* the line begun
  discarding,  \* discardingOverlong
  lines,       \* [text, truncated] handed to writeChildOutputLine
  eof          \* the loop has ended

vars == <<input, pos, chunkEnd, carry, discarding, lines, eof>>

Byte == {"a", "r", "n"}
Line(text, truncated) == [text |-> text, truncated |-> truncated]

Init ==
  /\ input \in UNION {[1..n -> Byte] : n \in 0..MaxBytes}
  /\ pos = 0
  /\ chunkEnd = 0
  /\ carry = <<>>
  /\ discarding = FALSE
  /\ lines = <<>>
  /\ eof = FALSE

Write(text, truncated) == lines' = Append(lines, Line(text, truncated))

(* read() returns some of the bytes left.                                  *)
Read ==
  /\ ~eof
  /\ pos = chunkEnd
  /\ chunkEnd' \in (chunkEnd + 1)..Len(input)
  /\ UNCHANGED <<input, pos, carry, discarding, lines, eof>>

WithoutCr(text) ==
  IF text # <<>> /\ Last(text) = "r" THEN Front(text) ELSE text

(* The line is complete, or the end of one already written and cut.        *)
Newline ==
  /\ input[pos + 1] = "n"
  /\ \/ ~discarding /\ Write(WithoutCr(carry), FALSE)
     \/ discarding /\ UNCHANGED lines
  /\ discarding' = FALSE
  /\ carry' = <<>>

(* Fault: the line is cut when it reaches the cap, not when it passes it.  *)
OverlongAtCap(text) == Len(text) >= LineCap

Overlong(text) == Len(text) > LineCap

(* A byte of a line: passing the cap writes the prefix, flagged.           *)
Push ==
  LET text == Append(carry, input[pos + 1]) IN
  /\ input[pos + 1] # "n"
  /\ \/ /\ discarding
        /\ UNCHANGED <<carry, discarding, lines>>
     \/ /\ ~discarding /\ ~Overlong(text)
        /\ carry' = text
        /\ UNCHANGED <<discarding, lines>>
     \/ /\ ~discarding /\ Overlong(text)
        /\ Write(SubSeq(text, 1, LineCap), TRUE)
        /\ discarding' = TRUE
        /\ carry' = <<>>

ProcessByte ==
  /\ pos < chunkEnd
  /\ Newline \/ Push
  /\ pos' = pos + 1
  /\ UNCHANGED <<input, chunkEnd, eof>>

(* read() returns zero: a line without newline is still a line.            *)
EndOfOutput ==
  /\ ~eof
  /\ pos = Len(input)
  /\ eof' = TRUE
  /\ \/ ~discarding /\ carry # <<>> /\ Write(carry, FALSE)
     \/ (discarding \/ carry = <<>>) /\ UNCHANGED lines
  /\ UNCHANGED <<input, pos, chunkEnd, carry, discarding>>

Closed == eof /\ UNCHANGED vars

Next == Read \/ ProcessByte \/ EndOfOutput \/ Closed

Spec == Init /\ [][Next]_vars

-----------------------------------------------------------------------------
(* The lines of a text, defined without reading it byte by byte.           *)

NewlinesOf(s) == SetToSortSeq({i \in DOMAIN s : s[i] = "n"}, <)

Capped(text, ending) ==
  IF Len(text) > LineCap THEN Line(SubSeq(text, 1, LineCap), TRUE)
  ELSE Line(IF ending THEN WithoutCr(text) ELSE text, FALSE)

Between(s, k) ==
  LET ends == NewlinesOf(s) IN
  SubSeq(s, IF k = 1 THEN 1 ELSE ends[k - 1] + 1, ends[k] - 1)

Rest(s) ==
  LET ends == NewlinesOf(s) IN
  IF ends = <<>> THEN s ELSE SubSeq(s, Last(ends) + 1, Len(s))

ReferenceLines(s) ==
  [k \in DOMAIN NewlinesOf(s) |-> Capped(Between(s, k), TRUE)]
    \o (IF Rest(s) = <<>> THEN <<>> ELSE <<Capped(Rest(s), FALSE)>>)

(* The capture thread writes exactly the lines of the output, each once,   *)
(* cut at the cap and flagged when longer, wherever the reads divide it    *)
(* (processCapturedChunk).                                                 *)
SplitsExactly == eof => lines = ReferenceLines(input)

=============================================================================
