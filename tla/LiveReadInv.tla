---------------------------- MODULE LiveReadInv -----------------------------
(***************************************************************************)
(* The invariant of the reader behind DecodeProofs.  The reader takes no   *)
(* lock and the producer does not know of it: what it has read stays true  *)
(* because whatever is readable is final, so its invariant is written with *)
(* the places of the segment that are readable now.                        *)
(***************************************************************************)
EXTENDS LiveRead, ProducerInv

-----------------------------------------------------------------------------
(* The reader.                                                             *)

DecoderType ==
  [sites : SUBSET (Sites \cup {NoSite}), names : SUBSET (Sites \cup {NoSite}),
   messages : Nat, result : Seq(Seq(Place)), chain : Seq(Place),
   damaged : BOOLEAN, skipped : Nat, undecodable : Nat]

ReaderTypeOK ==
  /\ at \in {"off", "header", "tag", "rest", "done"}
  /\ pass \in {1, 2}
  /\ chunk \in Nat \ {0}
  /\ slot \in Nat \ {0}
  /\ tag \in BOOLEAN
  /\ decoder \in DecoderType
  /\ before \subseteq Nat

InChunk == at \in {"tag", "rest"}

(* The current visit is past this slot.                                    *)
Passed(c, i) == c < chunk \/ (c = chunk /\ InChunk /\ i < slot)

(* Where the walk is: every slot it has left behind in this chunk can be   *)
(* read, and so can the one whose tag it has seen.                         *)
WalkInv ==
  /\ at = "off" => pass = 1 /\ chunk = 1 /\ before = {}
  /\ at = "done" => pass = 2 /\ chunk > ChunkCount
  /\ InChunk => /\ chunk \in Chunks
                /\ \A j \in 1..(slot - 1) :
                     j \in Slots /\ Visible(Watched, chunk, j)
  /\ at = "rest" => /\ slot \in Slots
                    /\ tag => Visible(Watched, chunk, slot)

(* The record just passed promised a Continuation.                         *)
Promised == InChunk /\ slot > 1 /\ head[<<Watched, chunk, slot - 1>>].more

(* A run of the watched segment.                                           *)
Run(r, c, i) == RunOf(Watched, r, c, i)

(* The pending chain is all that was read of a message whose rest follows, *)
(* and a visit does not leave a chunk before what it was promised.         *)
ChainInv ==
  /\ at = "rest" /\ Promised => tag
  /\ ~InChunk => decoder.chain = <<>>
  /\ decoder.chain # <<>> =>
       /\ Promised
       /\ \E i \in Slots : /\ Run(decoder.chain, chunk, i)
                           /\ LastSlot(i, decoder.chain) = slot - 1
  /\ ~decoder.damaged

(* A result is a whole message the second visit is past, each another.     *)
ResultInv ==
  /\ \A k \in DOMAIN decoder.result :
       \E c \in Chunks, i \in Slots :
         /\ Run(decoder.result[k], c, i)
         /\ ~head[<<Watched, c, LastSlot(i, decoder.result[k])>>].more
         /\ Passed(c, i)
  /\ \A k, m \in DOMAIN decoder.result :
       decoder.result[k][1] = decoder.result[m][1] => k = m
  /\ decoder.chain # <<>> =>
       \A k \in DOMAIN decoder.result :
         decoder.result[k][1] # decoder.chain[1]

(* Nothing is counted before a Message is found undecodable.               *)
CountInv ==
  /\ pass = 1 => /\ decoder.chain = <<>> /\ decoder.result = <<>>
                 /\ decoder.undecodable = 0
  /\ decoder.undecodable = 0 =>
       /\ decoder.skipped = 0
       /\ pass = 2 /\ Promised => decoder.chain # <<>>

(* A readable place the visit is past or will get to.                      *)
Old(c, i) ==
  /\ Visible(Watched, c, i)
  /\ at = "rest" /\ ~tag /\ c = chunk => i < slot

(* The Message named p is decoded or is being put together.                *)
SeenBy(d, p) ==
  \/ \E k \in DOMAIN d.result : d.result[k][1] = p
  \/ d.chain # <<>> /\ d.chain[1] = p

Seen(c, i) == SeenBy(decoder, <<c, i>>)

(* The Message at c, i, defined at d, j, is not overlooked.                *)
Tracked(c, i, d, j) ==
  LET site == payload[<<Watched, c, i>>].site IN
  /\ Old(c, i) /\ IsMessage(Watched, c, i)
  /\ Old(d, j) /\ head[<<Watched, d, j>>].kind = "def"
  /\ payload[<<Watched, d, j>>].site = site
  /\ pass = 2 \/ Passed(d, j) => site \in decoder.sites
  /\ pass = 2 /\ Passed(c, i) => Seen(c, i)

BeforeInv ==
  \A n \in before :
    \E c, d \in Chunks, i, j \in Slots :
      /\ payload[<<Watched, c, i>>].call = n
      /\ Tracked(c, i, d, j)

ReaderInv ==
  /\ ReaderTypeOK
  /\ WalkInv
  /\ ChainInv
  /\ ResultInv
  /\ CountInv
  /\ BeforeInv

LiveInv == WriterInv /\ ReaderInv

=============================================================================
