---------------------------- MODULE Conversions -----------------------------
(***************************************************************************)
(* Three conversions of bytes, each over every small input: the output of  *)
(* a child into lines, an argument vector into a Windows command line, and *)
(* the arguments of a call into records.                                   *)
(***************************************************************************)
EXTENDS LineSplitter, CommandLine, EncodeArgs

VARIABLE task    \* the conversion at work: "split", "quote" or "encode"

conversionVars == <<vars, argv, encodeVars, task>>

ConversionInit ==
  /\ Init
  /\ argv = <<>>
  /\ EncodeInit
  /\ \/ task = "split" /\ pack = <<>> /\ room = 0 /\ body = 0
     \/ task = "quote" /\ input = <<>> /\ pack = <<>> /\ room = 0 /\ body = 0
     \/ task = "encode" /\ input = <<>>

ConversionNext ==
  \/ task = "split" /\ Next /\ UNCHANGED <<argv, encodeVars, task>>
  \/ task = "quote" /\ CommandNext /\ UNCHANGED <<vars, encodeVars, task>>
  \/ task = "encode" /\ EncodeNext /\ UNCHANGED <<vars, argv, task>>

ConversionSpec == ConversionInit /\ [][ConversionNext]_conversionVars

-----------------------------------------------------------------------------
(* The instance that is checked.                                           *)

Plain(kind, size) == [kind |-> kind, size |-> size]

MCFixedTypes ==
  {Plain("bool", 1), Plain("char", 1), Plain("signed", 2),
   Plain("unsigned", 4), Plain("signed", 16), Plain("pointer", 4),
   Plain("float", 4), Plain("float", 16),
   [kind |-> "enum", size |-> 2, of |-> "signed"]}

MCValues == {-2, 0, 1}
MCRooms == {HeadBytes * k : k \in {0, 4, 6, 9, 12, 13, 22}}

=============================================================================
