------------------------------- MODULE Merge -------------------------------
(***************************************************************************)
(* Merger of merge.hpp: the decoded segments of several processes put on   *)
(* one timeline.                                                           *)
(*                                                                         *)
(* A segment is named by a number; Headers gives the fields of its header  *)
(* that the merge uses, Messages the fields of the messages at its record  *)
(* offsets.  An image is what one read of a segment file found: the        *)
(* offsets whose records were committed (0 stands for the SiteDefinitions) *)
(* and whether the walk met damage.                                        *)
(***************************************************************************)
EXTENDS Integers, FiniteSets, Sequences, SequencesExt

CONSTANTS
  Segments,   \* segments written while the reader looks on
  Headers,    \* [Segments -> header fields]
  Messages,   \* [Segments -> [offsets -> message fields]]
  Word        \* one more than the largest clock reading (2^64)

Header == [pid : Nat, generation : Nat, mono : Nat, wall : Nat]

ASSUME HeadersAssumption == Headers \in [Segments -> Header]

(* Generations are random and non-zero, drawn anew for every segment.      *)
ASSUME GenerationsAssumption ==
  \A s, t \in Segments :
    s # t => Headers[s].generation # Headers[t].generation

Offsets(s) == DOMAIN Messages[s]
Items(s) == {0} \cup Offsets(s)

ASSUME MessagesAssumption ==
  /\ Word \in Nat \ {0}
  /\ \A s \in Segments :
       /\ IsFiniteSet(Offsets(s)) /\ Offsets(s) \subseteq Nat \ {0}
       /\ \A o \in Offsets(s) :
            Messages[s][o].thread \in Nat /\ Messages[s][o].mono \in Nat

Image(s, items, torn) == [seg |-> s, items |-> items, torn |-> torn]

(* The elements of a finite set in a strict total order: the k-th is the   *)
(* one with k - 1 before it.                                               *)
Ordered(S, before(_, _)) ==
  [k \in 1..Cardinality(S) |->
     CHOOSE x \in S : Cardinality({y \in S : before(y, x)}) = k - 1]

(* Fault: monotonic readings of different processes are compared as such.  *)
NotAligned(h, mono) == mono

(* The reading put on the wall clock of the segment's anchor; a reading    *)
(* before the anchor is pinned to it.                                      *)
Aligned(h, mono) ==
  IF mono >= h.mono THEN (h.wall + (mono - h.mono)) % Word ELSE h.wall

(* decodeAll on an image: without the definitions no message decodes.      *)
Decoded(image) ==
  IF 0 \in image.items
  THEN Ordered(image.items \ {0}, <) ELSE <<>>

MergedRecord(s, off) ==
  [seg |-> s, off |-> off, pid |-> Headers[s].pid,
   generation |-> Headers[s].generation, thread |-> Messages[s][off].thread,
   mono |-> Messages[s][off].mono,
   aligned |-> Aligned(Headers[s], Messages[s][off].mono)]

(* What addSegment adds to the totals.                                     *)
Undecodable(image) == IF 0 \in image.items THEN 0 ELSE Cardinality(image.items)

Totals(images) ==
  [undecodable |-> SumFunction([i \in DOMAIN images |-> Undecodable(images[i])]),
   unreadable |-> \E i \in DOMAIN images : images[i].torn]

(* The order of the merge.                                                 *)
Precedes(a, b) ==
  \/ a.aligned < b.aligned
  \/ /\ a.aligned = b.aligned
     /\ \/ a.pid < b.pid
        \/ /\ a.pid = b.pid
           /\ \/ a.thread < b.thread
              \/ a.thread = b.thread /\ a.mono < b.mono

(* std::stable_sort: what the order leaves open stays as it was.  (TLC     *)
(* evaluates a bound t once.)                                              *)
StableSorted(s, precedes(_, _)) ==
  LET Sorted(t) ==
        LET before(i, j) == \/ precedes(t[i], t[j])
                            \/ ~precedes(t[j], t[i]) /\ i < j
            order == Ordered(DOMAIN t, before)
        IN  [k \in DOMAIN t |-> t[order[k]]]
  IN  [t \in {s} |-> Sorted(t)][s]

(* What addSegment collects of one image, and of all of them.              *)
Collected(image) ==
  [k \in DOMAIN Decoded(image) |-> MergedRecord(image.seg, Decoded(image)[k])]

Merged(images) ==
  StableSorted(FlattenSeq([i \in DOMAIN images |-> Collected(images[i])]),
               Precedes)

=============================================================================
