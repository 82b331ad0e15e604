----------------------------- MODULE MCAbiHost ------------------------------
(* Instances of AbiHost for TLC.                                           *)
EXTENDS AbiHostInv

(* Every site hashes to the last slot: walks wrap around and collide.      *)
CollidingStarts == [s \in Sites |-> SlotCount - 1]

=============================================================================
