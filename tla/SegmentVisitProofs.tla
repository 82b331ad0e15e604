------------------------- MODULE SegmentVisitProofs -------------------------
(***************************************************************************)
(* What SegmentReader::visit guarantees for every image and every geometry.*)
(* The invariant says, for each place of the walk, where it is, how far it *)
(* has looked, and that the four counts add up to what it has passed.      *)
(***************************************************************************)
EXTENDS SegmentVisit, TLAPS

Counted == unreadable + unwritten + legible + delivered

Opened == error = "Ok" /\ SaneGeometry

AtChunkInv ==
  phase = "chunk" =>
    /\ Opened
    /\ headerBytes <= chunkStart
    /\ touched <= chunkStart
    /\ Counted = Least(chunkStart, segmentBytes) - headerBytes

AtRecordInv ==
  phase = "record" =>
    /\ Opened
    /\ headerBytes <= chunkStart
    /\ chunkStart + ChunkHeaderBytes <= cursor
    /\ chunkStart + ChunkHeaderBytes <= bodyEnd
    /\ bodyEnd <= imageBytes
    /\ bodyEnd <= nominalEnd
    /\ bodyEnd + missing = Least(nominalEnd, segmentBytes)
    /\ touched <= bodyEnd
    /\ Counted = Least(cursor, bodyEnd) - headerBytes

FreshInv ==
  phase = "open" =>
    /\ error # "Ok"
    /\ Counted = 0
    /\ touched = 0

VisitInv ==
  /\ TypeOK
  /\ ReadsInsideImage
  /\ FreshInv
  /\ AtChunkInv
  /\ AtRecordInv
  /\ BytesAddUp

-----------------------------------------------------------------------------

(* The padding of paddedPayload never shortens a payload.                  *)
LEMMA PaddedAtLeast ==
  ASSUME NEW n \in Nat
  PROVE  Padded(n) \in Nat /\ Padded(n) >= n
  BY DEF Padded, WordBytes

(* The minimum and maximum used for the bounds.                            *)
LEMMA Extremes ==
  ASSUME NEW a \in Nat, NEW b \in Nat
  PROVE  /\ Least(a, b) \in Nat /\ Least(a, b) <= a /\ Least(a, b) <= b
         /\ Least(a, b) = a \/ Least(a, b) = b
         /\ Most(a, b) \in Nat
         /\ Most(a, b) = a \/ Most(a, b) = b
  BY DEF Least, Most

USE DEF SegmentHeaderBytes, ChunkHeaderBytes, WordBytes

(* The walk starts with nothing read and nothing counted.                  *)
LEMMA VisitStarts == Init => VisitInv
  BY SizesAssumption
  DEF Init, VisitInv, TypeOK, Errors, ReadsInsideImage, FreshInv, AtChunkInv,
      AtRecordInv, BytesAddUp, Counted

(* open() leaves the counts alone and enters the loop only when sane.      *)
LEMMA OpenKeeps == VisitInv /\ Open => VisitInv'
  <1> SUFFICES ASSUME VisitInv, Open PROVE VisitInv'
    OBVIOUS
  <1>1. /\ phase = "open"
        /\ touched' \in {0, 64} /\ touched' <= imageBytes
        /\ intact' \in BOOLEAN
        /\ UNCHANGED <<imageVars, nominalEnd, bodyEnd, missing, cursor,
                       unreadable, unwritten, legible, delivered>>
        /\ Counted = 0
    BY DEF Open, VisitInv, TypeOK, FreshInv
  <1>2. \/ phase' = "done" /\ error' # "Ok" /\ error' \in Errors
           /\ chunkStart' = chunkStart
        \/ phase' = "chunk" /\ error' = "Ok" /\ SaneGeometry
           /\ chunkStart' = headerBytes
    BY DEF Open, Refuse, Errors
  <1>3. TypeOK'
    BY <1>1, <1>2 DEF VisitInv, TypeOK, imageVars, Errors
  <1>4. Counted' = 0
    BY <1>1 DEF Counted
  <1>5. ReadsInsideImage' /\ FreshInv' /\ AtRecordInv' /\ BytesAddUp'
    BY <1>1, <1>2, <1>4
    DEF ReadsInsideImage, FreshInv, AtRecordInv, BytesAddUp, imageVars
  <1>6. AtChunkInv'
    BY <1>1, <1>2, <1>3, <1>4
    DEF AtChunkInv, Opened, SaneGeometry, imageVars, Least, TypeOK
  <1>7. QED
    BY <1>3, <1>5, <1>6 DEF VisitInv

(* Every way past a chunk header keeps the invariant.                      *)
LEMMA ChunkKeeps == VisitInv /\ ChunkStep => VisitInv'
  <1> SUFFICES ASSUME VisitInv, ChunkStep PROVE VisitInv'
    OBVIOUS
  <1>a. /\ TypeOK /\ phase = "chunk" /\ Opened /\ headerBytes <= chunkStart
        /\ touched <= chunkStart /\ touched <= imageBytes
        /\ Counted = Least(chunkStart, segmentBytes) - headerBytes
    BY DEF VisitInv, AtChunkInv, ChunkStep, EndOfSegment, TruncatedTail,
           HeaderAbsent, ForeignChunk, UnclaimedChunk, EnterChunk, ReadHeader,
           AtChunk, ReadsInsideImage
  <1>1. CASE EndOfSegment
    BY <1>1, <1>a
    DEF EndOfSegment, VisitInv, TypeOK, ReadsInsideImage, FreshInv, AtChunkInv,
        AtRecordInv, BytesAddUp, Counted, Opened, SaneGeometry, imageVars,
        Least
  <1>2. CASE TruncatedTail
    BY <1>2, <1>a
    DEF TruncatedTail, AtChunk, VisitInv, TypeOK, ReadsInsideImage, FreshInv,
        AtChunkInv, AtRecordInv, BytesAddUp, Counted, Opened, SaneGeometry,
        imageVars, Least
  <1>3. CASE HeaderAbsent
    BY <1>3, <1>a
    DEF HeaderAbsent, SkipChunk, AtChunk, FallbackEnd, FallbackBytes,
        FallbackAvailable, VisitInv, TypeOK, ReadsInsideImage, FreshInv,
        AtChunkInv, AtRecordInv, BytesAddUp, Counted, Opened, SaneGeometry,
        imageVars, Least
  <1>4. CASE ForeignChunk
    <2>1. intact' = FALSE /\ intact' \in BOOLEAN
      BY <1>4, Zenon DEF ForeignChunk
    <2>2. /\ SkipChunk /\ unwritten' = unwritten /\ legible' = legible + 32
          /\ unreadable' = unreadable + (FallbackAvailable - 32)
                                      + (FallbackBytes - FallbackAvailable)
          /\ touched' = Most(touched, chunkStart + 32)
          /\ chunkStart < segmentBytes /\ chunkStart < imageBytes
          /\ FallbackAvailable >= 32
      BY <1>4 DEF ForeignChunk, ReadHeader, AtChunk
    <2>3. /\ FallbackAvailable \in Nat /\ FallbackBytes \in Nat
          /\ FallbackAvailable <= FallbackBytes
          /\ chunkStart + 32 <= imageBytes
          /\ FallbackEnd \in Nat /\ chunkStart + 32 <= FallbackEnd
          /\ FallbackBytes = Least(FallbackEnd, segmentBytes) - chunkStart
      BY <2>2, <1>a
      DEF FallbackAvailable, FallbackBytes, FallbackEnd, Least, TypeOK
    <2>4. /\ touched' = chunkStart + 32 /\ touched' \in Nat
          /\ unreadable' = unreadable + (FallbackBytes - 32)
          /\ unreadable' \in Nat /\ legible' \in Nat
      BY <2>2, <2>3, <1>a DEF Most, TypeOK
    <2>5. TypeOK'
      BY <1>a, <2>1, <2>2, <2>3, <2>4 DEF SkipChunk, TypeOK, imageVars
    <2>6. Counted' = Least(FallbackEnd, segmentBytes) - headerBytes
      BY <1>a, <2>2, <2>3, <2>4 DEF SkipChunk, Counted, Least, TypeOK
    <2>7. QED
      BY <1>a, <2>2, <2>3, <2>4, <2>5, <2>6
      DEF SkipChunk, VisitInv, TypeOK, ReadsInsideImage, FreshInv, AtChunkInv,
          AtRecordInv, BytesAddUp, Opened, SaneGeometry, imageVars, Least
  <1>5. CASE UnclaimedChunk
    BY <1>5, <1>a
    DEF UnclaimedChunk, ReadHeader, SkipChunk, AtChunk, FallbackEnd,
        FallbackBytes, FallbackAvailable, VisitInv, TypeOK, ReadsInsideImage,
        FreshInv, AtChunkInv, AtRecordInv, BytesAddUp, Counted, Opened,
        SaneGeometry, imageVars, Least, Most
  <1>6. CASE EnterChunk
    <2>1. PICK size \in ClassSizes \cup {chunkBytes} :
            EnterBounds(size) /\ intact' \in BOOLEAN
      BY <1>6, <1>a DEF EnterChunk, TypeOK
    <2>2. size \in Nat /\ size > 32
      BY <1>a, SizesAssumption DEF Opened, SaneGeometry, TypeOK
    <2>3. /\ cursor' = chunkStart + 32 /\ legible' = legible + 32
          /\ phase' = "record"
          /\ UNCHANGED <<imageVars, error, chunkStart, unreadable, unwritten,
                         delivered>>
          /\ touched' = Most(touched, chunkStart + 32)
          /\ chunkStart < segmentBytes /\ chunkStart < imageBytes
          /\ FallbackAvailable >= 32
      BY <1>6 DEF EnterChunk, ReadHeader, AtChunk
    <2>4. chunkStart + 32 <= segmentBytes /\ chunkStart + 32 <= imageBytes
      BY <2>3, <1>a
      DEF FallbackAvailable, FallbackEnd, Least, TypeOK
    <2>5. /\ nominalEnd' = chunkStart + size /\ nominalEnd' \in Nat
          /\ bodyEnd' \in Nat /\ missing' \in Nat
          /\ chunkStart + 32 <= bodyEnd'
          /\ bodyEnd' <= nominalEnd' /\ bodyEnd' <= imageBytes
          /\ bodyEnd' + missing' = Least(nominalEnd', segmentBytes)
      BY <2>1, <2>2, <2>4, <1>a DEF EnterBounds, Least, TypeOK
    <2>6. touched' = chunkStart + 32 /\ touched' \in Nat
      BY <2>3, <1>a DEF Most, TypeOK
    <2>7. TypeOK'
      BY <1>a, <2>1, <2>3, <2>5, <2>6 DEF TypeOK, imageVars
    <2>8. Counted' = (chunkStart + 32) - headerBytes
      BY <1>a, <2>3 DEF Counted, Least, TypeOK
    <2>9. AtRecordInv'
      BY <1>a, <2>3, <2>5, <2>6, <2>7, <2>8
      DEF AtRecordInv, Opened, SaneGeometry, imageVars, TypeOK, Least
    <2>10. QED
      BY <1>a, <2>3, <2>4, <2>6, <2>7, <2>9
      DEF VisitInv, ReadsInsideImage, FreshInv, AtChunkInv, BytesAddUp,
          imageVars, TypeOK
  <1>7. QED
    BY <1>1, <1>2, <1>3, <1>4, <1>5, <1>6 DEF ChunkStep

(* Every turn of the record loop keeps the invariant.                      *)
LEMMA RecordKeeps == VisitInv /\ RecordStep => VisitInv'
  <1> SUFFICES ASSUME VisitInv, RecordStep PROVE VisitInv'
    OBVIOUS
  <1>a. /\ TypeOK /\ phase = "record" /\ Opened /\ headerBytes <= chunkStart
        /\ chunkStart + 32 <= cursor /\ chunkStart + 32 <= bodyEnd
        /\ bodyEnd <= imageBytes /\ bodyEnd <= nominalEnd
        /\ bodyEnd + missing = Least(nominalEnd, segmentBytes)
        /\ touched <= bodyEnd /\ touched <= imageBytes
        /\ Counted = Least(cursor, bodyEnd) - headerBytes
    BY DEF VisitInv, AtRecordInv, RecordStep, EndOfBody, NoRoomForHead,
           ZeroHeadWord, TornHeadWord, BadLength, DeliverRecord, ReadHeadWord,
           AtRecord, ReadsInsideImage
  <1>b. ASSUME LeaveChunk, touched' \in Nat, touched' <= bodyEnd,
               intact' \in BOOLEAN, unreadable' \in Nat, unwritten' \in Nat,
               Counted' = bodyEnd + missing - headerBytes
        PROVE  VisitInv'
    <2>1. TypeOK'
      BY <1>a, <1>b DEF LeaveChunk, TypeOK, imageVars
    <2>2. QED
      BY <1>a, <1>b, <2>1
      DEF LeaveChunk, VisitInv, TypeOK, ReadsInsideImage, FreshInv,
          AtChunkInv, AtRecordInv, BytesAddUp, Opened, SaneGeometry,
          imageVars, Least
  <1>1. CASE EndOfBody
    BY <1>1, <1>a, <1>b
    DEF EndOfBody, LeaveChunk, Counted, TypeOK, Least
  <1>2. CASE NoRoomForHead
    BY <1>2, <1>a, <1>b
    DEF NoRoomForHead, AtRecord, Remaining, LeaveChunk, Counted, TypeOK, Least
  <1>3. CASE ZeroHeadWord
    BY <1>3, <1>a, <1>b
    DEF ZeroHeadWord, ReadHeadWord, AtRecord, Remaining, LeaveChunk, Counted,
        TypeOK, Least, Most
  <1>4. CASE TornHeadWord
    <2>1. intact' = FALSE /\ intact' \in BOOLEAN
      BY <1>4, Zenon DEF TornHeadWord
    <2>2. /\ LeaveChunk /\ unwritten' = unwritten
          /\ unreadable' = unreadable + (bodyEnd - cursor) + missing
          /\ touched' = Most(touched, cursor + 8)
          /\ cursor < bodyEnd /\ bodyEnd - cursor >= 8
      BY <1>4 DEF TornHeadWord, ReadHeadWord, AtRecord, Remaining
    <2>3. /\ touched' \in Nat /\ touched' <= bodyEnd
          /\ unreadable' \in Nat /\ unwritten' \in Nat
      BY <2>2, <1>a DEF Most, TypeOK
    <2>4. Counted' = bodyEnd + missing - headerBytes
      BY <2>2, <1>a DEF LeaveChunk, Counted, Least, TypeOK
    <2>5. QED
      BY <2>1, <2>2, <2>3, <2>4, <1>b
  <1>5. CASE BadLength
    <2>1. intact' = FALSE /\ intact' \in BOOLEAN
      BY <1>5, Zenon DEF BadLength
    <2>2. /\ LeaveChunk /\ unwritten' = unwritten
          /\ unreadable' = unreadable + (bodyEnd - cursor) + missing
          /\ touched' = Most(touched, cursor + 8)
          /\ cursor < bodyEnd /\ bodyEnd - cursor >= 8
      BY <1>5 DEF BadLength, ReadHeadWord, AtRecord, Remaining
    <2>3. /\ touched' \in Nat /\ touched' <= bodyEnd
          /\ unreadable' \in Nat /\ unwritten' \in Nat
      BY <2>2, <1>a DEF Most, TypeOK
    <2>4. Counted' = bodyEnd + missing - headerBytes
      BY <2>2, <1>a DEF LeaveChunk, Counted, Least, TypeOK
    <2>5. QED
      BY <2>1, <2>2, <2>3, <2>4, <1>b
  <1>6. CASE DeliverRecord
    <2>1. PICK n \in Lengths :
            /\ LengthFits(n)
            /\ touched' = Most(touched, cursor + 8 + n)
            /\ cursor' = cursor + 8 + Padded(n)
            /\ delivered' = delivered + (Least(cursor', bodyEnd) - cursor)
            /\ intact' \in BOOLEAN
      BY <1>6, <1>a DEF DeliverRecord, TypeOK
    <2>2. /\ cursor < bodyEnd /\ bodyEnd - cursor >= 8
          /\ UNCHANGED <<imageVars, phase, error, chunkStart, nominalEnd,
                         bodyEnd, missing, unreadable, unwritten, legible>>
      BY <1>6 DEF DeliverRecord, AtRecord, Remaining
    <2>3. n \in Nat /\ Padded(n) \in Nat
      BY SizesAssumption, PaddedAtLeast
    <2>4. cursor + 8 + n <= bodyEnd /\ touched' \in Nat /\ touched' <= bodyEnd
      BY <1>a, <2>1, <2>2, <2>3 DEF LengthFits, Most, TypeOK
    <2>5. /\ cursor' \in Nat /\ cursor' >= cursor
          /\ delivered' \in Nat
          /\ delivered' = delivered + (Least(cursor', bodyEnd) - cursor)
      BY <1>a, <2>1, <2>2, <2>3 DEF Least, TypeOK
    <2>6. Counted' = Least(cursor', bodyEnd) - headerBytes
      <3>1. Counted = cursor - headerBytes
        BY <1>a, <2>2 DEF Least, TypeOK
      <3>2. Least(cursor', bodyEnd) \in Nat
        BY <1>a, <2>5 DEF Least, TypeOK
      <3>3. Counted' = unreadable + unwritten + legible + delivered'
        BY <2>2 DEF Counted
      <3>4. unreadable + unwritten + legible + delivered = cursor - headerBytes
        BY <3>1 DEF Counted
      <3>5. /\ unreadable \in Nat /\ unwritten \in Nat /\ legible \in Nat
            /\ delivered \in Nat /\ cursor \in Nat /\ headerBytes \in Nat
        BY <1>a DEF TypeOK
      <3>6. PICK e \in Nat : e = Least(cursor', bodyEnd)
        BY <3>2
      <3>7. delivered' = delivered + (e - cursor)
        BY <2>5, <3>6
      <3>8. Counted' = e - headerBytes
        BY <3>3, <3>4, <3>5, <3>7
      <3>9. QED
        BY <3>6, <3>8
    <2>7. TypeOK'
      BY <1>a, <2>1, <2>2, <2>4, <2>5 DEF TypeOK, imageVars
    <2>8. AtRecordInv'
      BY <1>a, <2>2, <2>4, <2>5, <2>6, <2>7
      DEF AtRecordInv, Opened, SaneGeometry, imageVars, TypeOK, Least
    <2>9. QED
      BY <1>a, <2>2, <2>4, <2>7, <2>8
      DEF VisitInv, ReadsInsideImage, FreshInv, AtChunkInv, BytesAddUp,
          imageVars, TypeOK
  <1>7. QED
    BY <1>1, <1>2, <1>3, <1>4, <1>5, <1>6 DEF RecordStep

-----------------------------------------------------------------------------

(* The invariant holds throughout the walk of any image.                   *)
THEOREM VisitInvariance == Spec => []VisitInv
  <1>1. Init => VisitInv
    BY VisitStarts
  <1>2. VisitInv /\ [Next]_vars => VisitInv'
    <2> SUFFICES ASSUME VisitInv, [Next]_vars PROVE VisitInv'
      OBVIOUS
    <2>1. CASE UNCHANGED vars
      BY <2>1
      DEF vars, VisitInv, TypeOK, ReadsInsideImage, FreshInv, AtChunkInv,
          AtRecordInv, BytesAddUp, Opened, SaneGeometry, Counted
    <2>2. QED
      BY <2>1, OpenKeeps, ChunkKeeps, RecordKeeps DEF Next, Done
  <1>3. QED
    BY <1>1, <1>2, PTL DEF Spec

(* The counters never go below zero: no subtraction of visit() wraps.      *)
THEOREM VisitTypes == Spec => []TypeOK
  BY VisitInvariance, PTL DEF VisitInv

(* Whatever the image says of itself, no byte outside it is read.          *)
THEOREM StaysInside == Spec => []ReadsInsideImage
  BY VisitInvariance, PTL DEF VisitInv

(* Inside a chunk nothing past the chunk's present bytes is looked at.     *)
THEOREM StaysInChunk == Spec => []RecordsStayInChunk
  <1>1. VisitInv => RecordsStayInChunk
    BY DEF VisitInv, AtRecordInv, RecordsStayInChunk
  <1>2. QED
    BY <1>1, VisitInvariance, PTL

(* The damage, unwritten, header and record bytes of a finished walk add up*)
(* to the declared body, whatever was corrupted or cut off.                *)
THEOREM Accounting == Spec => []BytesAddUp
  BY VisitInvariance, PTL DEF VisitInv

-----------------------------------------------------------------------------
(* An intact image: the walk stays on the grid of chunks the producer laid *)
(* out, so it finds neither a cut chunk nor a misplaced one.               *)

OnGrid(x) == \E k \in 0..x : x = headerBytes + k * chunkBytes

(* What is left after the last chunk is nothing or holds a chunk header.   *)
NoStub == segmentBytes - ClaimableEnd \notin 1..(ChunkHeaderBytes - 1)

IntactInv ==
  intact =>
    /\ ProducerGeometry /\ imageBytes = segmentBytes
    /\ NoStub => unreadable = 0
    /\ phase = "chunk" => OnGrid(chunkStart)
    /\ phase = "record" => missing = 0 /\ OnGrid(nominalEnd)

LEMMA Division ==
  ASSUME NEW a \in Nat, NEW b \in Nat, b > 0
  PROVE  a \div b \in Nat /\ (a \div b) * b <= a /\ a < (a \div b) * b + b
  OBVIOUS

LEMMA Strides ==
  ASSUME NEW k \in Nat, NEW q \in Nat, NEW c \in Nat, k < q
  PROVE  k * c + c <= q * c
  OBVIOUS

(* A whole stride fits between a place on the grid and a later one.        *)
LEMMA GridStep ==
  ASSUME TypeOK, ProducerGeometry, NEW x \in Nat, OnGrid(x), x < segmentBytes
  PROVE  /\ ClaimableEnd \in Nat /\ ClaimableEnd <= segmentBytes
         /\ x < ClaimableEnd => x + chunkBytes <= ClaimableEnd
         /\ x >= ClaimableEnd => x = ClaimableEnd
         /\ OnGrid(x + chunkBytes)
  <1>1. PICK k \in 0..x : x = headerBytes + k * chunkBytes
    BY DEF OnGrid
  <1>2. /\ headerBytes \in Nat /\ chunkBytes \in Nat /\ segmentBytes \in Nat
        /\ chunkBytes > 0 /\ segmentBytes >= headerBytes /\ k \in Nat
    BY DEF TypeOK, ProducerGeometry
  <1>3. PICK a \in Nat : a = segmentBytes - headerBytes
    BY <1>2
  <1>4. PICK q \in Nat : /\ q = a \div chunkBytes
                         /\ q * chunkBytes <= a
                         /\ a < q * chunkBytes + chunkBytes
    BY <1>2, Division
  <1>5. ClaimableEnd = headerBytes + q * chunkBytes
    BY <1>3, <1>4 DEF ClaimableEnd
  <1>6. PICK m \in Nat, n \in Nat : m = k * chunkBytes /\ n = q * chunkBytes
    BY <1>2
  <1>7. /\ k < q => m + chunkBytes <= n
        /\ q < k => n + chunkBytes <= m
    BY <1>2, <1>6, Strides
  <1>8. k = q => m = n
    BY <1>6
  <1>9. x = headerBytes + m /\ ClaimableEnd = headerBytes + n
    BY <1>1, <1>5, <1>6
  <1>10. n <= a /\ a < n + chunkBytes
    BY <1>4, <1>6
  <1>11. ClaimableEnd \in Nat /\ ClaimableEnd <= segmentBytes
    BY <1>2, <1>3, <1>9, <1>10
  <1>12. x < ClaimableEnd => x + chunkBytes <= ClaimableEnd
    BY <1>2, <1>7, <1>8, <1>9
  <1>13. x >= ClaimableEnd => x = ClaimableEnd
    BY <1>2, <1>3, <1>7, <1>8, <1>9, <1>10
  <1>14. OnGrid(x + chunkBytes)
    <2>1. k + 1 \in 0..(x + chunkBytes)
      BY <1>2
    <2>2. (k + 1) * chunkBytes = m + chunkBytes
      BY <1>2, <1>6
    <2>3. x + chunkBytes = headerBytes + (k + 1) * chunkBytes
      BY <1>2, <1>9, <2>2
    <2>4. QED
      BY <2>1, <2>3 DEF OnGrid
  <1>15. QED
    BY <1>11, <1>12, <1>13, <1>14

(* Open() puts the walk on the first place of the grid.                    *)
LEMMA OpenIntact == VisitInv /\ IntactInv /\ Open => IntactInv'
  <1> SUFFICES ASSUME VisitInv, IntactInv, Open, intact' PROVE IntactInv'
    BY DEF IntactInv
  <1>1. PICK magic \in BOOLEAN, version \in BOOLEAN :
            intact' = (intact /\ magic /\ version)
    BY DEF Open
  <1>2. intact
    BY <1>1, Zenon
  <1>3. /\ UNCHANGED imageVars /\ unreadable' = unreadable
        /\ \/ phase' = "done"
           \/ phase' = "chunk" /\ chunkStart' = headerBytes
    BY DEF Open, Refuse
  <1>4. ProducerGeometry' /\ imageBytes' = segmentBytes'
    BY <1>2, <1>3 DEF IntactInv, ProducerGeometry, imageVars
  <1>5. (NoStub => unreadable = 0)'
    BY <1>2, <1>3 DEF IntactInv, NoStub, ClaimableEnd, imageVars
  <1>6. phase' = "chunk" => OnGrid(chunkStart)'
    <2>1. headerBytes \in Nat /\ chunkBytes \in Nat
      BY DEF VisitInv, TypeOK
    <2>2. headerBytes = headerBytes + 0 * chunkBytes /\ 0 \in 0..headerBytes
      BY <2>1
    <2>3. OnGrid(headerBytes)
      BY <2>2 DEF OnGrid
    <2>4. QED
      BY <1>3, <2>3 DEF OnGrid, imageVars
  <1>7. phase' # "record"
    BY <1>3
  <1>8. QED
    BY <1>4, <1>5, <1>6, <1>7 DEF IntactInv

(* No turn of the chunk loop finds damage, and each ends on the grid.      *)
LEMMA ChunkIntact == VisitInv /\ IntactInv /\ ChunkStep => IntactInv'
  <1> SUFFICES ASSUME VisitInv, IntactInv, ChunkStep, intact'
               PROVE  IntactInv'
    BY DEF IntactInv
  <1>a. /\ TypeOK /\ phase = "chunk" /\ UNCHANGED imageVars
        /\ (~ForeignChunk => intact)
    <2>1. phase = "chunk" /\ UNCHANGED imageVars
      BY DEF ChunkStep, EndOfSegment, TruncatedTail, HeaderAbsent,
             ForeignChunk, UnclaimedChunk, EnterChunk, ReadHeader, AtChunk,
             SkipChunk
    <2>2. EnterChunk => intact
      <3> SUFFICES ASSUME EnterChunk PROVE intact
        OBVIOUS
      <3>1. PICK size \in ClassSizes \cup {chunkBytes} :
              intact' = (/\ intact /\ size = chunkBytes
                         /\ chunkStart < ClaimableEnd)
        BY DEF EnterChunk
      <3>2. QED
        BY <3>1, Zenon
    <2>3. EndOfSegment \/ TruncatedTail \/ HeaderAbsent \/ UnclaimedChunk
            => intact
      BY Zenon DEF EndOfSegment, TruncatedTail, HeaderAbsent, UnclaimedChunk
    <2>4. ~ForeignChunk => intact
      BY <2>2, <2>3 DEF ChunkStep
    <2>5. QED
      BY <2>1, <2>4 DEF VisitInv
  <1>b. ~ForeignChunk
    BY Zenon DEF ForeignChunk
  <1>c. /\ intact /\ ProducerGeometry /\ imageBytes = segmentBytes
        /\ (NoStub => unreadable = 0) /\ OnGrid(chunkStart)
    BY <1>a, <1>b DEF IntactInv
  <1>d. /\ chunkStart \in Nat /\ chunkBytes \in Nat /\ segmentBytes \in Nat
        /\ unreadable \in Nat /\ chunkBytes >= 48
    BY <1>a, <1>c DEF TypeOK, ProducerGeometry
  <1>e. chunkStart < segmentBytes =>
          /\ ClaimableEnd \in Nat /\ ClaimableEnd <= segmentBytes
          /\ chunkStart < ClaimableEnd => chunkStart + chunkBytes <= ClaimableEnd
          /\ chunkStart >= ClaimableEnd => chunkStart = ClaimableEnd
          /\ OnGrid(chunkStart + chunkBytes)
    BY <1>a, <1>c, <1>d, GridStep
  <1>f. ASSUME unreadable' = unreadable \/ ~NoStub,
               phase' = "chunk" => OnGrid(chunkStart'),
               phase' = "record" => missing' = 0 /\ OnGrid(nominalEnd')
        PROVE  IntactInv'
    <2>1. ProducerGeometry' /\ imageBytes' = segmentBytes'
      BY <1>a, <1>c DEF ProducerGeometry, imageVars
    <2>2. NoStub' <=> NoStub
      BY <1>a DEF NoStub, ClaimableEnd, imageVars
    <2>3. NoStub' => unreadable' = 0
      BY <1>c, <1>f, <2>2
    <2>4. (phase' = "chunk" => OnGrid(chunkStart)')
          /\ (phase' = "record" => OnGrid(nominalEnd)')
      BY <1>a, <1>f DEF OnGrid, imageVars
    <2>5. QED
      BY <1>f, <2>1, <2>3, <2>4 DEF IntactInv
  <1>1. CASE EndOfSegment
    BY <1>1, <1>f DEF EndOfSegment
  <1>2. CASE TruncatedTail
    BY <1>2, <1>c, <1>d DEF TruncatedTail, AtChunk
  <1>3. CASE HeaderAbsent
    <2>1. /\ chunkStart < segmentBytes /\ FallbackAvailable < 32
          /\ phase' = "chunk" /\ chunkStart' = chunkStart + chunkBytes
      BY <1>3, <1>a
      DEF HeaderAbsent, AtChunk, SkipChunk, FallbackEnd
    <2>2. segmentBytes - chunkStart < 32
      BY <2>1, <1>c, <1>d DEF FallbackAvailable, FallbackEnd, Least
    <2>3. segmentBytes - ClaimableEnd \in 1..31
      BY <2>1, <2>2, <1>d, <1>e
    <2>4. QED
      BY <2>1, <2>3, <1>e, <1>f DEF NoStub
  <1>5. CASE UnclaimedChunk
    <2>1. /\ chunkStart < segmentBytes /\ unreadable' = unreadable
          /\ phase' = "chunk" /\ chunkStart' = chunkStart + chunkBytes
      BY <1>5, <1>a
      DEF UnclaimedChunk, ReadHeader, AtChunk, SkipChunk, FallbackEnd
    <2>2. QED
      BY <2>1, <1>e, <1>f
  <1>6. CASE EnterChunk
    <2>1. PICK size \in ClassSizes \cup {chunkBytes} :
            /\ EnterBounds(size)
            /\ intact' = (/\ intact /\ size = chunkBytes
                          /\ chunkStart < ClaimableEnd)
      BY <1>6 DEF EnterChunk
    <2>2. size = chunkBytes /\ chunkStart < ClaimableEnd
      BY <2>1, Zenon
    <2>3. /\ phase' = "record" /\ unreadable' = unreadable
          /\ chunkStart < segmentBytes
      BY <1>6 DEF EnterChunk, ReadHeader, AtChunk
    <2>4. chunkStart + chunkBytes <= segmentBytes
      BY <2>2, <2>3, <1>d, <1>e
    <2>5. nominalEnd' = chunkStart + chunkBytes /\ missing' = 0
      BY <2>1, <2>2, <2>4, <1>c, <1>d DEF EnterBounds, Least
    <2>6. QED
      BY <2>3, <2>5, <1>e, <1>f
  <1>7. QED
    BY <1>1, <1>2, <1>3, <1>5, <1>6, <1>b DEF ChunkStep

(* No turn of the record loop finds damage in an intact chunk.             *)
LEMMA RecordIntact == VisitInv /\ IntactInv /\ RecordStep => IntactInv'
  <1> SUFFICES ASSUME VisitInv, IntactInv, RecordStep, intact'
               PROVE  IntactInv'
    BY DEF IntactInv
  <1>a. phase = "record" /\ UNCHANGED imageVars
    BY DEF RecordStep, EndOfBody, NoRoomForHead, ZeroHeadWord, TornHeadWord,
           BadLength, DeliverRecord, ReadHeadWord, AtRecord, LeaveChunk
  <1>b. ~TornHeadWord /\ ~BadLength
    BY Zenon DEF TornHeadWord, BadLength
  <1>c. intact
    <2>1. DeliverRecord => intact
      <3> SUFFICES ASSUME DeliverRecord PROVE intact
        OBVIOUS
      <3>1. intact' = (intact /\ cursor' <= bodyEnd)
        BY DEF DeliverRecord
      <3>2. QED
        BY <3>1, Zenon
    <2>2. EndOfBody \/ NoRoomForHead \/ ZeroHeadWord => intact
      BY Zenon DEF EndOfBody, NoRoomForHead, ZeroHeadWord
    <2>3. QED
      BY <2>1, <2>2, <1>b DEF RecordStep
  <1>d. /\ ProducerGeometry /\ imageBytes = segmentBytes
        /\ (NoStub => unreadable = 0) /\ missing = 0 /\ OnGrid(nominalEnd)
        /\ unreadable \in Nat
    BY <1>a, <1>c DEF IntactInv, VisitInv, TypeOK
  <1>e. /\ ProducerGeometry' /\ imageBytes' = segmentBytes'
        /\ NoStub' <=> NoStub
    BY <1>a, <1>d DEF ProducerGeometry, NoStub, ClaimableEnd, imageVars
  <1>1. CASE EndOfBody \/ NoRoomForHead \/ ZeroHeadWord
    <2>1. LeaveChunk /\ unreadable' = unreadable + missing
      BY <1>1 DEF EndOfBody, NoRoomForHead, ZeroHeadWord
    <2>2. unreadable' = unreadable /\ phase' = "chunk"
          /\ chunkStart' = nominalEnd
      BY <2>1, <1>d DEF LeaveChunk
    <2>3. OnGrid(chunkStart)'
      BY <2>2, <1>a, <1>d DEF OnGrid, imageVars
    <2>4. QED
      BY <2>2, <2>3, <1>d, <1>e DEF IntactInv
  <1>2. CASE DeliverRecord
    <2>1. UNCHANGED <<phase, nominalEnd, missing, unreadable>>
      BY <1>2 DEF DeliverRecord
    <2>2. OnGrid(nominalEnd)'
      BY <2>1, <1>a, <1>d DEF OnGrid, imageVars
    <2>3. QED
      BY <2>1, <2>2, <1>a, <1>d, <1>e DEF IntactInv
  <1>3. QED
    BY <1>1, <1>2, <1>b DEF RecordStep

(* A segment that is what a Segment wrote is read without any byte counted *)
(* as damage, wherever the producer stopped using it.                      *)
THEOREM NoFalseDamage == Spec => []IntactHasNoDamage
  <1>1. Init => IntactInv
    BY Zenon DEF Init, IntactInv
  <1>2. VisitInv /\ IntactInv /\ [Next]_vars => IntactInv'
    <2> SUFFICES ASSUME VisitInv, IntactInv, [Next]_vars PROVE IntactInv'
      OBVIOUS
    <2>1. CASE UNCHANGED vars
      BY <2>1
      DEF vars, IntactInv, ProducerGeometry, NoStub, ClaimableEnd, OnGrid
    <2>2. QED
      BY <2>1, OpenIntact, ChunkIntact, RecordIntact DEF Next, Done
  <1>3. IntactInv => IntactHasNoDamage
    BY DEF IntactInv, NoStub, IntactHasNoDamage
  <1>4. QED
    BY <1>1, <1>2, <1>3, VisitInvariance, PTL DEF Spec

=============================================================================
