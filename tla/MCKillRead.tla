----------------------------- MODULE MCKillRead -----------------------------
(* Instances of KillRead for TLC.                                          *)
EXTENDS KillRead

Pack(msg, conts, lossy) == [msg |-> msg, conts |-> conts, lossy |-> lossy]

(* A plain Message, one too large for any chunk, chains that fit a chunk   *)
(* (one with its last argument cut at the ceiling), and one that never     *)
(* fits.                                                                   *)
AllShapes ==
  {Pack(1, 0, FALSE), Pack(5, 0, FALSE), Pack(1, 1, TRUE), Pack(1, 2, FALSE),
   Pack(1, 4, FALSE)}

SmallDefinitions == [s \in Sites |-> 1]

(* A name that fits and one that does not.                                 *)
Names == {Pack(1, 0, FALSE), Pack(5, 0, TRUE)}

=============================================================================
