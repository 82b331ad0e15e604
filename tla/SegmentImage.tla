---------------------------- MODULE SegmentImage ----------------------------
(***************************************************************************)
(* What a reader finds in the segments of Producer: the walk of            *)
(* SegmentReader::visit over a chunk stops at the first zero head word, and*)
(* each record becomes a view for Decoder.                                 *)
(***************************************************************************)
EXTENDS Producer, Decoder, SequencesExt

(* A view of a committed record; its name is its place.                    *)
RecordView(l, c, i) ==
  [kind |-> head[<<l, c, i>>].kind, more |-> head[<<l, c, i>>].more,
   ok |-> payload[<<l, c, i>>].written, site |-> payload[<<l, c, i>>].site,
   id |-> <<c, i>>]

(* The records visit() yields from one chunk, and from the whole segment.  *)
ChunkViews(l, c) ==
  [i \in 1..Cardinality({i \in Slots : Visible(l, c, i)}) |->
     RecordView(l, c, i)]

Image(l) == FlattenSeq([c \in Chunks |-> ChunkViews(l, c)])

(* The decoder d takes the n-th of the records decodeAll goes through: pass*)
(* one sees all of them, then pass two.                                    *)
TakeRecord(views, d, n) ==
  IF n <= Len(views) THEN FirstPass(d, views[n])
                     ELSE SecondPass(d, views[n - Len(views)])

(* decodeAll of an image that does not change meanwhile.                   *)
DecodeAll(views) ==
  LET after[n \in 0..(2 * Len(views))] ==
        IF n = 0 THEN EmptyDecoder ELSE TakeRecord(views, after[n - 1], n)
  IN  EndOfStream(after[2 * Len(views)])

(* The call whose records begin at the place a decoded record names first. *)
CallOf(l, chain) == payload[<<l, chain[1][1], chain[1][2]>>].call

(* The Message of call n can be read.                                      *)
MessageRecorded(l, n) ==
  \E c \in Chunks, i \in Slots :
    /\ Visible(l, c, i)
    /\ head[<<l, c, i>>].kind = "msg"
    /\ payload[<<l, c, i>>].call = n

(* All records of the message of call n, of whatever kind.                 *)
MessagePlaces(l, n) ==
  {p \in Chunks \X Slots :
     /\ head[<<l, p[1], p[2]>>].kind \in {"msg", "cont"}
     /\ payload[<<l, p[1], p[2]>>].call = n}

(* A decoded record is one call's Message and all its Continuations, side  *)
(* by side in one chunk.                                                   *)
DecodedWhole(l, chain) ==
  /\ ToSet(chain) = MessagePlaces(l, CallOf(l, chain))
  /\ \A k \in 1..(Len(chain) - 1) :
       chain[k + 1] = <<chain[k][1], chain[k][2] + 1>>

=============================================================================
