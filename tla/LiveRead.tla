------------------------------ MODULE LiveRead ------------------------------
(***************************************************************************)
(* A reader that decodes a segment in place while its producer is still    *)
(* writing it: decodeAll visits the live memory twice, one read at a time  *)
(* (reader.hpp; detail/atomics.hpp, loadHeadWord).                         *)
(*                                                                         *)
(* A chunk header is 32 bytes stored and loaded without atomics: a reader  *)
(* that meets the store sees the header absent, torn, or far enough along  *)
(* to be taken for a claimed chunk.  A head word is loaded in halves, the  *)
(* half with the commit tag first.                                         *)
(***************************************************************************)
EXTENDS SegmentImage

VARIABLES
  at,         \* "off", "header", "tag", "rest" or "done"
  pass,       \* 1 or 2
  chunk,      \* the chunk the walk is in
  slot,       \* the record of the chunk it looks at
  tag,        \* the tag half of its head word was set
  decoder,    \* the Decoder
  unreadable, \* unreadableBytes_ of the current pass is not zero
  before      \* calls whose message could be read when decodeAll began

readerVars == <<at, pass, chunk, slot, tag, decoder, unreadable, before>>
liveVars == <<vars, readerVars>>

CONSTANT Watched   \* the Logger whose segment is read

ASSUME WatchedAssumption == Watched \in Loggers

LiveInit ==
  /\ Init
  /\ at = "off" /\ pass = 1 /\ chunk = 1 /\ slot = 1 /\ tag = FALSE
  /\ decoder = EmptyDecoder
  /\ unreadable = FALSE
  /\ before = {}

(* decodeAll starts its first visit.                                       *)
BeginDecode ==
  /\ at = "off"
  /\ at' = "header"
  /\ before' = {n \in 1..attempts[Watched] : MessageRecorded(Watched, n)}
  /\ UNCHANGED <<pass, chunk, slot, tag, decoder, unreadable>>

(* Some thread is storing the header of this chunk.                        *)
BeingStamped(c) ==
  \E t \in Threads : /\ pc[t] \in {"stamp", "restamp"}
                     /\ cache[t].owner = Watched
                     /\ cache[t].chunk = c

NextChunk(damaged) ==
  /\ at' = "header"
  /\ chunk' = chunk + 1
  /\ unreadable' = (unreadable \/ damaged)
  /\ UNCHANGED <<pass, slot, tag, decoder, before>>

EnterBody ==
  /\ at' = "tag"
  /\ slot' = 1
  /\ UNCHANGED <<pass, chunk, tag, decoder, unreadable, before>>

(* The header is read: never claimed, torn, or this generation's.          *)
ReadChunkHeader ==
  /\ at = "header" /\ chunk <= ChunkCount
  /\ \/ ~Stamped(Watched, chunk) /\ NextChunk(FALSE)
     \/ BeingStamped(chunk) /\ NextChunk(TRUE)
     \/ (BeingStamped(chunk) \/ Stamped(Watched, chunk)) /\ EnterBody

(* The first load of loadHeadWord.                                         *)
ReadTag ==
  /\ at = "tag"
  /\ \/ /\ slot <= ChunkUnits
        /\ at' = "rest"
        /\ tag' = Committed(Watched, chunk, slot)
        /\ UNCHANGED <<pass, chunk, slot, decoder, unreadable, before>>
     \/ slot > ChunkUnits /\ NextChunk(FALSE)

(* The low half, without the tag, is already there: the record has been    *)
(* committed since, or its writer is between the two halves it stores.     *)
LowHalfStored ==
  \/ Committed(Watched, chunk, slot)
  \/ /\ SplitAtomics
     /\ \E t \in Threads : /\ pc[t] = "commit"
                           /\ cache[t].owner = Watched
                           /\ cache[t].chunk = chunk
                           /\ NextCommit(t) = slot

(* Fault: the length half is read before the tag half, so a tag can be     *)
(* paired with the rest of an older word.                                  *)
DeliverStale(d) ==
  LET v == [RecordView(Watched, chunk, slot) EXCEPT !.more = FALSE]
  IN  IF pass = 1 THEN FirstPass(d, v) ELSE SecondPass(d, v)

(* The record goes to the callback of the pass.                            *)
Deliver(d) ==
  LET v == RecordView(Watched, chunk, slot)
  IN  IF pass = 1 THEN FirstPass(d, v) ELSE SecondPass(d, v)

(* The second load of loadHeadWord and what visit() makes of the word.     *)
ReadRest ==
  /\ at = "rest"
  /\ \/ /\ tag
        /\ at' = "tag"
        /\ slot' = slot + 1
        /\ decoder' = Deliver(decoder)
        /\ UNCHANGED <<pass, chunk, tag, unreadable, before>>
     \/ ~tag /\ LowHalfStored /\ NextChunk(TRUE)
     \/ ~tag /\ ~Committed(Watched, chunk, slot) /\ NextChunk(FALSE)

(* Fault: the second visit starts where the first one ended.               *)
EndVisitInPlace ==
  /\ at = "header" /\ chunk > ChunkCount
  /\ IF pass = 1
     THEN /\ pass' = 2 /\ unreadable' = FALSE
          /\ UNCHANGED <<at, decoder>>
     ELSE /\ at' = "done" /\ decoder' = EndOfStream(decoder)
          /\ UNCHANGED <<pass, unreadable>>
  /\ UNCHANGED <<chunk, slot, tag, before>>

(* The end of a visit: pass two starts over and resets the counters.       *)
EndVisit ==
  /\ at = "header" /\ chunk > ChunkCount
  /\ \/ /\ pass = 1
        /\ pass' = 2 /\ chunk' = 1 /\ unreadable' = FALSE
        /\ UNCHANGED <<at, decoder>>
     \/ /\ pass = 2
        /\ at' = "done" /\ decoder' = EndOfStream(decoder)
        /\ UNCHANGED <<pass, chunk, unreadable>>
  /\ UNCHANGED <<slot, tag, before>>

ReaderStep ==
  \/ ReadChunkHeader
  \/ ReadTag
  \/ ReadRest
  \/ EndVisit

LiveNext ==
  \/ Next /\ UNCHANGED readerVars
  \/ (BeginDecode \/ ReaderStep) /\ UNCHANGED vars

LiveSpec == LiveInit /\ [][LiveNext]_liveVars

-----------------------------------------------------------------------------

Results == {decoder.result[k] : k \in DOMAIN decoder.result}

(* However the reads fall between the producer's stores, what is decoded is*)
(* real: whole messages, each once, and never a broken chain; a            *)
(* Continuation is left over only when its Message could not be decoded    *)
(* (chunk.hpp, "commit last"; emit.hpp, emitChained).                      *)
LiveNeverPartial ==
  /\ decoder.undecodable = 0 => decoder.skipped = 0
  /\ ~decoder.damaged
  /\ \A r \in Results : DecodedWhole(Watched, r)
  /\ Cardinality(Results) = Len(decoder.result)
  /\ at = "done" => decoder.chain = <<>>

(* Everything that could be read when decodeAll began is in its result:    *)
(* what other threads store meanwhile hides nothing that was there.        *)
LiveSeesWhatWasThere ==
  at = "done" => before \subseteq {CallOf(Watched, r) : r \in Results}

=============================================================================
