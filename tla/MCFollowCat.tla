---------------------------- MODULE MCFollowCat ----------------------------
(***************************************************************************)
(* Two segments of one process, written before and after a restart of the  *)
(* machine: the monotonic clock started anew, and the first records of     *)
(* both stand at the same offset.  The second segment has a record that a  *)
(* handler stamped before the one in front of it, and before the anchor of *)
(* the segment, and two records of equal stamps, which are on a tie with   *)
(* the last one of the first segment.  The clocks are off by up to Skew.   *)
(***************************************************************************)
EXTENDS FollowCat

MCSegments == {1, 2}
MCWord == 64

MCHeaders ==
  <<[pid |-> 7, generation |-> 11, mono |-> 40, wall |-> 10],
    [pid |-> 7, generation |-> 12, mono |-> 3, wall |-> 14]>>

Message(thread, mono, instant, severity, correlation, subsystem, args) ==
  [thread |-> thread, mono |-> mono, instant |-> instant,
   severity |-> severity, correlation |-> correlation,
   subsystem |-> subsystem, args |-> args]

Unsigned(v) == [unsigned |-> TRUE, value |-> v]
Signed(v) == [unsigned |-> FALSE, value |-> v]

MCMessages ==
  <<[o \in {1, 2} |->
       IF o = 1 THEN Message(1, 42, 12, 2, 0, 1, <<Signed(5)>>)
                ELSE Message(2, 45, 14, 4, 9, 2, <<Unsigned(5)>>)],
    [o \in {1, 2, 3} |->
       CASE o = 1 -> Message(1, 4, 16, 4, 9, 1, <<Unsigned(4), Unsigned(5)>>)
         [] o = 2 -> Message(1, 2, 14, 4, 8, 1, <<>>)
         [] o = 3 -> Message(1, 4, 16, 2, 9, 1, <<>>)]>>

Opt(name, value) == [name |-> name, index |-> 0, value |-> value]
ArgUint(index, value) ==
  [name |-> "argUint", index |-> index, value |-> value]
In(path) == Opt("input", path)
Follow == Opt("follow", 1)

MCCommandLines ==
  { <<In(0)>>, <<In(1), In(2)>>, <<Follow, In(0)>>, <<Follow, In(1)>>,
    <<Opt("waitMs", 0), In(0)>>, <<Opt("waitMs", 1), In(0)>>,
    <<Follow, Opt("minimum", 0), Opt("minimum", 3), In(0)>>,
    <<Follow, Opt("correlation", 9), Opt("subsystem", 1), In(0)>>,
    <<Opt("waitMs", 1), ArgUint(0, 5), In(0)>>,
    <<ArgUint(1, 5), In(0), In(1)>>,
    <<Opt("maxFiles", 1), In(0)>>, <<Opt("maxInputBytes", 1), In(0)>>,
    <<Follow, Opt("maxRecords", 3), In(0)>>,
    <<Opt("maxOutputBytes", 1), In(0)>>,
    <<Opt("help", NoValue), Opt("unknown", Bad)>>, <<Opt("unknown", Bad)>>,
    <<Opt("maxRecords", 0)>>, <<Opt("waitMs", NoValue)>>, <<Follow>> }

Start(p1, p2, v1, v2) == [content |-> <<p1, p2>>, visible |-> <<v1, v2>>]

ASSUME ClocksAgree

MCStarts ==
  { Start(0, 0, {}, All(2)), Start(1, 0, {HeaderItem}, {}),
    Start(2, 1, All(1), All(2)), Start(1, 1, All(1) \ {1}, All(2)),
    Start(0, 1, All(1), {HeaderItem, 0}) }

=============================================================================
