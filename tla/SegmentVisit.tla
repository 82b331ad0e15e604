---------------------------- MODULE SegmentVisit ----------------------------
(***************************************************************************)
(* SegmentReader::open and SegmentReader::visit (reader.hpp), to the byte: *)
(* the walk over a segment image of which nothing is trusted.  The image   *)
(* may be cut short, recycled from an earlier segment, corrupted, or the   *)
(* intact work of a Segment.                                               *)
(*                                                                         *)
(* The walk reads every chunk header and every head word at most once, so  *)
(* the image is not a variable: each read chooses what it finds, and the   *)
(* choices of one behaviour together are one image.                        *)
(***************************************************************************)
EXTENDS Naturals

CONSTANTS
  ImageSizes,    \* bytes the reader may be handed
  HeaderSizes,   \* values of SegmentHeader::headerBytes_
  ChunkSizes,    \* values of SegmentHeader::chunkBytes_
  SegmentSizes,  \* values of SegmentHeader::segmentBytes_
  ClassSizes,    \* chunkBytesForSizeClass of the classes a header may name
  Lengths        \* values of RecordHead::payloadBytes_

SegmentHeaderBytes == 64   \* sizeof(SegmentHeader)
ChunkHeaderBytes == 32     \* sizeof(ChunkHeader)
WordBytes == 8             \* a head word, and the record alignment

ASSUME SizesAssumption ==
  /\ ImageSizes \subseteq Nat
  /\ HeaderSizes \subseteq Nat
  /\ ChunkSizes \subseteq Nat
  /\ SegmentSizes \subseteq Nat
  /\ ClassSizes \subseteq {b \in Nat : b > ChunkHeaderBytes}
  /\ Lengths \subseteq Nat

VARIABLES
  imageBytes, headerBytes, chunkBytes, segmentBytes,  \* fixed by the image
  phase,       \* "open", "chunk", "record" or "done"
  error,       \* error_
  chunkStart,  \* start of the chunk being read
  nominalEnd,  \* where the next chunk starts
  bodyEnd,     \* end of the part of the chunk that is present
  missing,     \* missingTail of the chunk
  cursor,      \* the next head word
  unreadable,  \* unreadableBytes_
  unwritten,   \* unwrittenBytes_
  legible,     \* bytes of the chunk headers that were read and not counted
  delivered,   \* bytes of the records handed to the callback
  touched,     \* end of the last byte of the image that was looked at
  intact       \* everything found so far is what a Segment writes

imageVars == <<imageBytes, headerBytes, chunkBytes, segmentBytes>>
vars == <<imageBytes, headerBytes, chunkBytes, segmentBytes, phase, error,
          chunkStart, nominalEnd, bodyEnd, missing, cursor, unreadable,
          unwritten, legible, delivered, touched, intact>>

Errors == {"Ok", "TooSmall", "BadMagic", "UnknownVersion", "BadGeometry"}

Least(a, b) == IF a <= b THEN a ELSE b
Most(a, b) == IF a >= b THEN a ELSE b

TypeOK ==
  /\ imageBytes \in Nat /\ headerBytes \in Nat
  /\ chunkBytes \in Nat /\ segmentBytes \in Nat
  /\ phase \in {"open", "chunk", "record", "done"}
  /\ error \in Errors
  /\ chunkStart \in Nat /\ nominalEnd \in Nat /\ bodyEnd \in Nat
  /\ missing \in Nat /\ cursor \in Nat
  /\ unreadable \in Nat /\ unwritten \in Nat
  /\ legible \in Nat /\ delivered \in Nat
  /\ touched \in Nat
  /\ intact \in BOOLEAN

-----------------------------------------------------------------------------
(* What a Segment writes (segment.hpp).                                    *)

(* Segment::validateChunkBytes and the size checks of create().            *)
ProducerGeometry ==
  /\ headerBytes >= SegmentHeaderBytes
  /\ headerBytes % WordBytes = 0
  /\ chunkBytes % WordBytes = 0
  /\ chunkBytes >= ChunkHeaderBytes + 2 * WordBytes
  /\ segmentBytes >= headerBytes + chunkBytes

(* chunkCount_ is rounded down: the claimable chunks end here, and the rest*)
(* of the segment is never written.                                        *)
ClaimableEnd ==
  headerBytes + ((segmentBytes - headerBytes) \div chunkBytes) * chunkBytes

-----------------------------------------------------------------------------

Init ==
  /\ imageBytes \in ImageSizes /\ headerBytes \in HeaderSizes
  /\ chunkBytes \in ChunkSizes /\ segmentBytes \in SegmentSizes
  /\ phase = "open" /\ error = "TooSmall"
  /\ chunkStart = 0 /\ nominalEnd = 0 /\ bodyEnd = 0
  /\ missing = 0 /\ cursor = 0
  /\ unreadable = 0 /\ unwritten = 0
  /\ legible = 0 /\ delivered = 0 /\ touched = 0
  /\ intact = (ProducerGeometry /\ imageBytes = segmentBytes)

(* Fault: any chunk size is taken from the segment header.                 *)
AnyChunkSize ==
  /\ headerBytes >= SegmentHeaderBytes
  /\ segmentBytes >= headerBytes
  /\ headerBytes <= imageBytes

(* geometrySane.                                                           *)
SaneGeometry ==
  /\ headerBytes >= SegmentHeaderBytes
  /\ chunkBytes > ChunkHeaderBytes
  /\ segmentBytes >= headerBytes
  /\ headerBytes <= imageBytes

Refuse(why) ==
  /\ error' = why
  /\ phase' = "done"
  /\ UNCHANGED chunkStart

(* SegmentReader::open, then the head of visit().                          *)
Open ==
  /\ phase = "open"
  /\ \E magic, version \in BOOLEAN :
       /\ touched' = IF imageBytes < SegmentHeaderBytes
                     THEN 0 ELSE SegmentHeaderBytes
       /\ intact' = (intact /\ magic /\ version)
       /\ \/ imageBytes < SegmentHeaderBytes /\ Refuse("TooSmall")
          \/ /\ imageBytes >= SegmentHeaderBytes
             /\ \/ ~magic /\ Refuse("BadMagic")
                \/ magic /\ ~version /\ Refuse("UnknownVersion")
                \/ magic /\ version /\ ~SaneGeometry /\ Refuse("BadGeometry")
                \/ /\ magic /\ version /\ SaneGeometry
                   /\ error' = "Ok"
                   /\ phase' = "chunk"
                   /\ chunkStart' = headerBytes
  /\ UNCHANGED <<imageVars, nominalEnd, bodyEnd, missing, cursor, unreadable,
                 unwritten, legible, delivered>>

-----------------------------------------------------------------------------
(* One turn of the chunk loop.                                             *)

(* The bounds used until the chunk's own header is believed.               *)
FallbackEnd == chunkStart + chunkBytes
FallbackBytes == Least(FallbackEnd, segmentBytes) - chunkStart
FallbackAvailable ==
  Least(Least(FallbackEnd, segmentBytes), imageBytes) - chunkStart

AtChunk == phase = "chunk" /\ chunkStart < segmentBytes

(* Past the declared end: the walk is over.                                *)
EndOfSegment ==
  /\ phase = "chunk" /\ chunkStart >= segmentBytes
  /\ phase' = "done"
  /\ UNCHANGED <<imageVars, error, chunkStart, nominalEnd, bodyEnd, missing,
                 cursor, unreadable, unwritten, legible, delivered, touched,
                 intact>>

(* Fault: the absent tail is stepped over without being counted.           *)
TailForgotten ==
  /\ AtChunk /\ chunkStart >= imageBytes
  /\ phase' = "done"
  /\ UNCHANGED <<imageVars, error, chunkStart, nominalEnd, bodyEnd, missing,
                 cursor, unreadable, unwritten, legible, delivered, touched,
                 intact>>

(* The image ends before this chunk: the whole rest is missing.            *)
TruncatedTail ==
  /\ AtChunk /\ chunkStart >= imageBytes
  /\ unreadable' = unreadable + (segmentBytes - chunkStart)
  /\ phase' = "done"
  /\ UNCHANGED <<imageVars, error, chunkStart, nominalEnd, bodyEnd, missing,
                 cursor, unwritten, legible, delivered, touched, intact>>

(* A chunk whose body is not walked: the next one is a stride away.        *)
SkipChunk ==
  /\ chunkStart' = FallbackEnd
  /\ UNCHANGED <<imageVars, phase, error, nominalEnd, bodyEnd, missing,
                 cursor, delivered>>

(* Not even the chunk header is there.                                     *)
HeaderAbsent ==
  /\ AtChunk /\ chunkStart < imageBytes
  /\ FallbackAvailable < ChunkHeaderBytes
  /\ unreadable' = unreadable + FallbackBytes
  /\ SkipChunk
  /\ UNCHANGED <<unwritten, legible, touched, intact>>

(* The chunk header is read; what was touched so far includes it.          *)
ReadHeader ==
  /\ AtChunk /\ chunkStart < imageBytes
  /\ FallbackAvailable >= ChunkHeaderBytes
  /\ touched' = Most(touched, chunkStart + ChunkHeaderBytes)

(* A wrong checksum, a chunk of an earlier generation, or a size class the *)
(* format does not have: the header is legible, the body is not ours.      *)
ForeignChunk ==
  /\ ReadHeader
  /\ unreadable' = unreadable + (FallbackAvailable - ChunkHeaderBytes)
                              + (FallbackBytes - FallbackAvailable)
  /\ legible' = legible + ChunkHeaderBytes
  /\ intact' = FALSE
  /\ SkipChunk
  /\ UNCHANGED unwritten

(* Generation zero: never claimed.                                         *)
UnclaimedChunk ==
  /\ ReadHeader
  /\ unwritten' = unwritten + FallbackBytes
  /\ SkipChunk
  /\ UNCHANGED <<unreadable, legible, intact>>

(* Fault: the present part of a chunk is not bounded by the image.         *)
EnterUnbounded(size) ==
  /\ nominalEnd' = chunkStart + size
  /\ bodyEnd' = Least(chunkStart + size, segmentBytes)
  /\ missing' = 0

(* The bounds of a chunk of this generation, from its own size.            *)
EnterBounds(size) ==
  /\ nominalEnd' = chunkStart + size
  /\ bodyEnd' = Least(Least(chunkStart + size, segmentBytes), imageBytes)
  /\ missing' = Least(chunkStart + size, segmentBytes) - bodyEnd'

(* A chunk of this generation, of the size its header names or, for class  *)
(* 0, the size the segment header names.                                   *)
EnterChunk ==
  /\ ReadHeader
  /\ \E size \in ClassSizes \cup {chunkBytes} :
       /\ EnterBounds(size)
       /\ intact' = (/\ intact
                     /\ size = chunkBytes
                     /\ chunkStart < ClaimableEnd)
  /\ cursor' = chunkStart + ChunkHeaderBytes
  /\ legible' = legible + ChunkHeaderBytes
  /\ phase' = "record"
  /\ UNCHANGED <<imageVars, error, chunkStart, unreadable, unwritten,
                 delivered>>

-----------------------------------------------------------------------------
(* One turn of the record loop.                                            *)

(* paddedPayload.                                                          *)
Padded(n) == ((n + (WordBytes - 1)) \div WordBytes) * WordBytes

Remaining == bodyEnd - cursor

AtRecord == phase = "record" /\ cursor < bodyEnd

(* The chunk is finished, at its end or where its records stop.            *)
LeaveChunk ==
  /\ phase' = "chunk"
  /\ chunkStart' = nominalEnd
  /\ UNCHANGED <<imageVars, error, nominalEnd, bodyEnd, missing, cursor,
                 legible, delivered>>

(* The records filled the body.                                            *)
EndOfBody ==
  /\ phase = "record" /\ cursor >= bodyEnd
  /\ unreadable' = unreadable + missing
  /\ LeaveChunk
  /\ UNCHANGED <<unwritten, touched, intact>>

(* Fewer bytes than a head word.                                           *)
NoRoomForHead ==
  /\ AtRecord /\ Remaining < WordBytes
  /\ unwritten' = unwritten + Remaining
  /\ unreadable' = unreadable + missing
  /\ LeaveChunk
  /\ UNCHANGED <<touched, intact>>

ReadHeadWord ==
  /\ AtRecord /\ Remaining >= WordBytes
  /\ touched' = Most(touched, cursor + WordBytes)

(* Fault: space that was never written is counted as damage.               *)
ZeroWordIsDamage ==
  /\ ReadHeadWord
  /\ unreadable' = unreadable + Remaining + missing
  /\ LeaveChunk
  /\ UNCHANGED <<unwritten, intact>>

(* A zero head word: the rest of the chunk was never written.              *)
ZeroHeadWord ==
  /\ ReadHeadWord
  /\ unwritten' = unwritten + Remaining
  /\ unreadable' = unreadable + missing
  /\ LeaveChunk
  /\ UNCHANGED intact

(* A torn word.                                                            *)
TornHeadWord ==
  /\ ReadHeadWord
  /\ unreadable' = unreadable + Remaining + missing
  /\ LeaveChunk
  /\ intact' = FALSE
  /\ UNCHANGED unwritten

LengthFits(n) == n <= bodyEnd - (cursor + WordBytes)

(* A length that would leave the chunk.                                    *)
BadLength ==
  /\ ReadHeadWord
  /\ \E n \in Lengths : ~LengthFits(n)
  /\ unreadable' = unreadable + Remaining + missing
  /\ LeaveChunk
  /\ intact' = FALSE
  /\ UNCHANGED unwritten

(* A committed record goes to the callback, which may read its payload.    *)
DeliverRecord ==
  /\ AtRecord /\ Remaining >= WordBytes
  /\ \E n \in Lengths :
       /\ LengthFits(n)
       /\ touched' = Most(touched, cursor + WordBytes + n)
       /\ cursor' = cursor + WordBytes + Padded(n)
       /\ delivered' = delivered + (Least(cursor', bodyEnd) - cursor)
       /\ intact' = (intact /\ cursor' <= bodyEnd)
  /\ UNCHANGED <<imageVars, phase, error, chunkStart, nominalEnd, bodyEnd,
                 missing, unreadable, unwritten, legible>>

-----------------------------------------------------------------------------

ChunkStep ==
  \/ EndOfSegment
  \/ TruncatedTail
  \/ HeaderAbsent
  \/ ForeignChunk
  \/ UnclaimedChunk
  \/ EnterChunk

RecordStep ==
  \/ EndOfBody
  \/ NoRoomForHead
  \/ ZeroHeadWord
  \/ TornHeadWord
  \/ BadLength
  \/ DeliverRecord

Done == phase = "done" /\ UNCHANGED vars

Next == Open \/ ChunkStep \/ RecordStep \/ Done

Spec == Init /\ [][Next]_vars

(* visit() is a loop in one thread: it keeps taking steps.                 *)
FairSpec == Spec /\ WF_vars(Open \/ ChunkStep \/ RecordStep)

-----------------------------------------------------------------------------
(* What has to hold, whatever the image contains.                          *)

(* No byte outside the image is read, by visit() or through a RecordView.  *)
ReadsInsideImage == touched <= imageBytes

(* A record's payload is never taken from another chunk's bytes: in a chunk*)
(* the walk stays inside the bytes that are present and its own.           *)
RecordsStayInChunk ==
  phase = "record" => touched <= bodyEnd

(* Every byte of the declared body is accounted for exactly once: damage,  *)
(* unwritten space, a legible chunk header, or a record (R3.3, R9.2).      *)
BytesAddUp ==
  phase = "done" /\ error = "Ok" =>
    unreadable + unwritten + legible + delivered = segmentBytes - headerBytes

(* An intact segment reports no damage, however little of it was used      *)
(* (reader.hpp, unreadableBytes), provided what is left after its last     *)
(* chunk is nothing or could hold a chunk header.                          *)
IntactHasNoDamage ==
  intact /\ segmentBytes - ClaimableEnd \notin 1..(ChunkHeaderBytes - 1) =>
    unreadable = 0

(* A corrupted header cannot keep the reader going for ever.               *)
VisitEnds == <>(phase = "done")

=============================================================================
