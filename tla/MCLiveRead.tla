----------------------------- MODULE MCLiveRead -----------------------------
(* Instances of LiveRead for TLC.                                          *)
EXTENDS LiveRead

ShortAndChained == {[msg |-> 1, conts |-> 0, lossy |-> FALSE],
                    [msg |-> 1, conts |-> 1, lossy |-> FALSE]}
OnlyShort == {[msg |-> 1, conts |-> 0, lossy |-> FALSE]}
SmallDefinitions == [s \in Sites |-> 1]
NoNames == {}

=============================================================================
