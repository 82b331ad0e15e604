----------------------------- MODULE AbiHostInv -----------------------------
(***************************************************************************)
(* The inductive invariants behind the theorems of AbiHostProofs: what the *)
(* announce table and the walks over it keep true (TableInv), and how the  *)
(* calls are accounted for (CountsInv).                                    *)
(***************************************************************************)
EXTENDS AbiHost

(* The first n slots of the walk for s hold other sites.  Keys are never   *)
(* removed, so this stays true.                                            *)
Passed(s, n) ==
  \A j \in 0..(n - 1) : slotSite[SlotAt(s, j)] \notin {NoSite, s}

(* A claimed key stands where the walk for it ends.                        *)
KeysReachable ==
  \A k \in TableSlots :
    slotSite[k] # NoSite =>
      \E n \in 0..(ProbeLimit - 1) :
        k = SlotAt(slotSite[k], n) /\ Passed(slotSite[k], n)

(* A thread in a probe loop has passed the slots before.                   *)
WalksInv ==
  \A t \in Threads :
    /\ pc[t] \in {"define", "claim", "store", "lookup", "load"} =>
         Passed(job[t].site, probe[t])
    /\ pc[t] \in {"store", "load"} =>
         /\ probe[t] < ProbeLimit
         /\ slotSite[SlotAt(job[t].site, probe[t])] = job[t].site
         /\ t \in saw[SlotAt(job[t].site, probe[t])]

(* A generation in the table stands for a definition in that segment.      *)
GenerationsInv ==
  \A t \in Threads, k \in TableSlots :
    \A l \in Loggers : l \in view[<<t, k>>] => slotSite[k] \in defs[l]

(* So does a call that is past its definition or its check.                *)
CallsInv ==
  \A t \in Threads :
    pc[t] \in {"claim", "store", "message"} => job[t].site \in defs[job[t].log]

(* What a claiming thread passed it cannot read as empty again.            *)
SeenInv ==
  \A t \in Threads :
    pc[t] \in {"define", "claim", "store"} =>
      \A j \in 0..(probe[t] - 1) : t \in saw[SlotAt(job[t].site, j)]

(* A thread that no longer loads generation 0 from a slot walked to it     *)
(* itself.                                                                 *)
OwnSlot(t, k, n) ==
  /\ slotSite[k] # NoSite
  /\ k = SlotAt(slotSite[k], n)
  /\ Passed(slotSite[k], n)
  /\ \A j \in 0..n : t \in saw[SlotAt(slotSite[k], j)]

ViewsInv ==
  \A t \in Threads, k \in TableSlots :
    /\ view[<<t, k>>] # {}
    /\ NoLogger \notin view[<<t, k>>] =>
         \E n \in 0..(ProbeLimit - 1) : OwnSlot(t, k, n)

TableInv ==
  /\ TypeOK
  /\ KeysReachable
  /\ WalksInv
  /\ GenerationsInv
  /\ CallsInv
  /\ MessageIsDecodable
  /\ SeenInv
  /\ ViewsInv
  /\ OwnDefinitionAccepted

-----------------------------------------------------------------------------
(* The accounts.                                                           *)

(* A thread outside a call, or in one that found nothing bound, writes to  *)
(* no segment.                                                             *)
FreeInv ==
  \A t \in Threads : pc[t] \in {"idle", "unbound"} => job[t].log = NoLogger

(* The calls of CallsAddUp that are still to be written or dropped.        *)
Running(l) ==
  {t \in Threads : job[t].log = l /\ pc[t] \notin {"claim", "store"}}

(* The calls that have passed the check of the cap and count next.         *)
Counting == {t \in Threads : pc[t] = "unbound"}

CallsFound == MapThenSumSet(LAMBDA l : started[l], Loggers)

RunningInv ==
  \A l \in Loggers :
    started[l] = written[l] + dropped[l] + Cardinality(Running(l))

(* What was counted, or is about to be, is exact or has reached the cap.   *)
UnboundInv ==
  LET counted == unbound + Cardinality(Counting)
      lost == calls - CallsFound
  IN  /\ \/ counted = lost
         \/ UnboundCap <= counted /\ counted <= lost
      /\ counted < UnboundCap + Cardinality(Threads)

CountsInv ==
  /\ FreeInv
  /\ RunningInv
  /\ UnboundInv

=============================================================================
