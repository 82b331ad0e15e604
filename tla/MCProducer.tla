----------------------------- MODULE MCProducer -----------------------------
(* Instances of Producer for TLC.                                          *)
EXTENDS ProducerInv

(* Definitions that have to be shortened to fit a chunk of three units.    *)
LongDefinitions == [s \in Sites |-> 4]
BareFields == [s \in Sites |-> 1]

OneShape == {[msg |-> 1, conts |-> 0, lossy |-> FALSE]}
NoNames == {}

=============================================================================
