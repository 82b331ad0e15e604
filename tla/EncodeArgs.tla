----------------------------- MODULE EncodeArgs -----------------------------
(***************************************************************************)
(* The arguments of one call on their way through the wire: the types a    *)
(* call site may pass, their sizes, the pass that sizes a record and the   *)
(* pass that writes it (encode.hpp, emitRecord and emitChained of          *)
(* detail/emit.hpp), and what the Decoder makes of the bytes (reader.hpp). *)
(*                                                                         *)
(* A byte is a number.  Those of a number are its digits, the lowest       *)
(* first; those of a text are numbered from Base on, no two alike.         *)
(***************************************************************************)
EXTENDS Integers, Sequences, SequencesExt

CONSTANTS
  Base,              \* values of a byte of a number
  InlineCap,         \* cInlineBytesCap
  MaxContinuations,  \* cMaxContinuations
  MessagePrefix,     \* sizeof MessagePayload
  SlicePrefix,       \* sizeof ContinuationPayload
  HeadBytes,         \* the head word, and the alignment of records
  LengthBytes,       \* a length on the wire: u16
  MaxPayload,        \* the largest payloadBytes_ of a head word
  FixedTypes,        \* fixed-size types of C++: [kind, size, (of)]
  Values,            \* of the arguments of fixed size
  Lengths,           \* of the text arguments
  MaxArgs,           \* bound on the arguments of a call
  Rooms              \* what may be left in a chunk

ArgCeiling == InlineCap * (1 + MaxContinuations)

ASSUME EncodeAssumption ==
  /\ Base \in Nat /\ Base >= 2
  /\ InlineCap \in 1..(Base ^ LengthBytes - 1)
  /\ \A r \in Rooms : r % HeadBytes = 0
  /\ MaxPayload \in Nat

VARIABLES
  pack,     \* the arguments of the call
  room,     \* left in the thread's chunk
  body,     \* size of a fresh chunk; none when 0
  records,  \* what the call wrote
  status    \* of the call: "begun", "written" or "dropped"

encodeVars == <<pack, room, body, records, status>>

-----------------------------------------------------------------------------
(* Types and their sizes.                                                  *)

IsBytes(t) == t.kind \in {"view", "cstring"}

FixedEncodable(t) ==
  \/ t.kind \in {"bool", "char", "enum", "pointer"}
  \/ t.kind \in {"signed", "unsigned"} /\ t.size <= 8
  \/ t.kind = "float" /\ t.size \in {4, 8}

IntegerCode(kind, size) ==
  IF kind = "signed"
  THEN CASE size = 1 -> "I8" [] size = 2 -> "I16" [] size = 4 -> "I32"
         [] OTHER -> "I64"
  ELSE CASE size = 1 -> "U8" [] size = 2 -> "U16" [] size = 4 -> "U32"
         [] OTHER -> "U64"

typeCodeFor(t) ==
  CASE t.kind = "bool" -> "Bool"
    [] t.kind = "char" -> "Char"
    [] t.kind = "enum" -> IntegerCode(t.of, t.size)
    [] IsBytes(t) -> "Bytes"
    [] t.kind = "pointer" -> "Pointer"
    [] t.kind = "float" -> IF t.size = 4 THEN "F32" ELSE "F64"
    [] OTHER -> IntegerCode(t.kind, t.size)

fixedSizeOf ==
  [Bool |-> 1, I8 |-> 1, U8 |-> 1, Char |-> 1, I16 |-> 2, U16 |-> 2,
   I32 |-> 4, U32 |-> 4, F32 |-> 4, I64 |-> 8, U64 |-> 8, F64 |-> 8,
   Pointer |-> 8, Bytes |-> 0]

fixedWireSize(t) ==
  CASE t.kind = "bool" -> 1
    [] t.kind = "pointer" -> 8
    [] OTHER -> t.size

-----------------------------------------------------------------------------
(* Bytes.                                                                  *)

Digits(n, count) == [i \in 1..count |-> (n \div Base ^ (i - 1)) % Base]

Number(bytes) ==
  FoldRight(LAMBDA digit, n : digit + Base * n, bytes, 0)

Least(m, n) == IF m < n THEN m ELSE n
Upto(s, n) == SubSeq(s, 1, Least(n, Len(s)))
Past(s, n) == SubSeq(s, n + 1, Len(s))

Concat(seqs) == FoldLeft(LAMBDA s, t : s \o t, <<>>, seqs)
Total(numbers) == FoldLeft(LAMBDA m, n : m + n, 0, numbers)

encodeFixedOne(a) == Digits(a.value, fixedWireSize(a.type))

-----------------------------------------------------------------------------
(* A pack of fixed-size arguments only: upperBoundSize and encodeArgs.     *)
(* emitRecord sends a pack with a text in it another way.                  *)

HasByteArg(args) == \E i \in DOMAIN args : IsBytes(args[i].type)

upperBoundSize(args) ==
  Total([i \in DOMAIN args |-> fixedWireSize(args[i].type)])

encodeArgs(args) == Concat([i \in DOMAIN args |-> encodeFixedOne(args[i])])

-----------------------------------------------------------------------------
(* A pack with a text in it: the sizing pass of emitChained.               *)

(* Fault: the scan of a C string stops at the ceiling.                     *)
RawToCeiling(a) ==
  CASE a.type.kind = "view" -> a.text
    [] a.type.kind = "cstring" -> Upto(a.text, ArgCeiling)
    [] OTHER -> <<>>

(* A C string is scanned one byte past the ceiling, a view is not scanned. *)
rawBytesOf(a) ==
  CASE a.type.kind = "view" -> a.text
    [] a.type.kind = "cstring" -> Upto(a.text, ArgCeiling + 1)
    [] OTHER -> <<>>

InlineOf(a) == Upto(rawBytesOf(a), InlineCap)
OverflowOf(a) == Past(Upto(rawBytesOf(a), ArgCeiling), InlineCap)

PastCeiling(args) ==
  \E i \in DOMAIN args : Len(rawBytesOf(args[i])) > ArgCeiling

ArgBytes(a) ==
  IF IsBytes(a.type) THEN LengthBytes + Len(InlineOf(a))
  ELSE fixedWireSize(a.type)

messagePayloadBytes(args) ==
  MessagePrefix + Total([i \in DOMAIN args |-> ArgBytes(args[i])])

(* One slice per InlineCap bytes that do not go into the Message.          *)
SlicesOf(args, i) ==
  LET tail == OverflowOf(args[i])
      count == (Len(tail) + InlineCap - 1) \div InlineCap
  IN  [k \in 1..count |->
         [arg |-> i, bytes |-> Upto(Past(tail, (k - 1) * InlineCap),
                                     InlineCap)]]

Slices(args) == Concat([i \in DOMAIN args |-> SlicesOf(args, i)])

paddedPayload(n) == ((n + HeadBytes - 1) \div HeadBytes) * HeadBytes
recordFootprint(n) == HeadBytes + paddedPayload(n)

(* A chunk takes a record, or a chain that begins with it.                 *)
FitsChunk(payload, needed, space) ==
  payload <= MaxPayload /\ needed <= space

(* Fault: the padding of the slices is forgotten.                          *)
ChainBytesUnpadded(args) ==
  recordFootprint(messagePayloadBytes(args))
    + Total([k \in DOMAIN Slices(args) |->
               HeadBytes + SlicePrefix + Len(Slices(args)[k].bytes)])

ChainBytes(args) ==
  recordFootprint(messagePayloadBytes(args))
    + Total([k \in DOMAIN Slices(args) |->
               recordFootprint(SlicePrefix + Len(Slices(args)[k].bytes))])

-----------------------------------------------------------------------------
(* The writing pass.                                                       *)

WriteOne(a) ==
  IF IsBytes(a.type) THEN Digits(Len(InlineOf(a)), LengthBytes) \o InlineOf(a)
  ELSE encodeFixedOne(a)

Message(bytes, reserved, cut, continued) ==
  [kind |-> "msg", bytes |-> bytes, reserved |-> reserved,
   cut |-> cut, more |-> continued]

Chain(args, slices, cut) ==
  <<Message(Concat([i \in DOMAIN args |-> WriteOne(args[i])]),
            messagePayloadBytes(args) - MessagePrefix, cut, slices # <<>>)>>
  \o [k \in DOMAIN slices |->
        [kind |-> "cont", arg |-> slices[k].arg, bytes |-> slices[k].bytes,
         reserved |-> Len(slices[k].bytes), more |-> k < Len(slices)]]

Store(written) == records' = written /\ status' = "written"
Drop == records' = <<>> /\ status' = "dropped"

(* emitRecord: reserveRecord, then encodeArgs into the slot.               *)
EmitPlain ==
  LET size == upperBoundSize(pack)
      fits(space) == FitsChunk(MessagePrefix + size,
                               recordFootprint(MessagePrefix + size), space)
  IN  /\ status = "begun"
      /\ ~HasByteArg(pack)
      /\ \/ /\ fits(room) \/ fits(body)
            /\ Store(<<Message(encodeArgs(pack), size, FALSE, FALSE)>>)
         \/ ~fits(room) /\ ~fits(body) /\ Drop
      /\ UNCHANGED <<pack, room, body>>

ChainFits(space) ==
  FitsChunk(messagePayloadBytes(pack), ChainBytes(pack), space)

FlatFits(space) ==
  FitsChunk(messagePayloadBytes(pack),
            recordFootprint(messagePayloadBytes(pack)), space)

(* emitChained: the chain in the thread's chunk or in a fresh one.         *)
EmitChain ==
  /\ status = "begun"
  /\ HasByteArg(pack)
  /\ ChainFits(room) \/ ChainFits(body)
  /\ Store(Chain(pack, Slices(pack), PastCeiling(pack)))
  /\ UNCHANGED <<pack, room, body>>

(* No chunk takes the chain: the Message alone, flagged.                   *)
EmitFlat ==
  /\ status = "begun"
  /\ HasByteArg(pack)
  /\ ~ChainFits(room) /\ ~ChainFits(body)
  /\ \/ FlatFits(body) /\ Store(Chain(pack, <<>>, TRUE))
     \/ ~FlatFits(body) /\ Drop
  /\ UNCHANGED <<pack, room, body>>

-----------------------------------------------------------------------------
(* The Decoder: the arguments of a Message by the type codes of its site.  *)

decodeFixedArg(code, bytes) ==
  LET n == Number(bytes) IN
  CASE code = "Bool" -> IF n # 0 THEN 1 ELSE 0
    [] code \in {"I8", "I16", "I32", "I64"} ->
         IF Last(bytes) >= Base \div 2 THEN n - Base ^ Len(bytes) ELSE n
    [] OTHER -> n

DecodeText(d) ==
  LET length == Number(Upto(d.rest, LengthBytes))
      after == Past(d.rest, LengthBytes)
  IN  IF LengthBytes > Len(d.rest) \/ length > Len(after)
      THEN [d EXCEPT !.ok = FALSE]
      ELSE [d EXCEPT !.args = Append(@, Upto(after, length)),
                     !.rest = Past(after, length)]

DecodeFixed(d, code) ==
  LET size == fixedSizeOf[code] IN
  IF size = 0 \/ size > Len(d.rest) THEN [d EXCEPT !.ok = FALSE]
  ELSE [d EXCEPT
          !.args = Append(@, <<decodeFixedArg(code, Upto(d.rest, size))>>),
          !.rest = Past(d.rest, size)]

DecodeOne(d, code) ==
  IF ~d.ok THEN d
  ELSE IF code = "Bytes" THEN DecodeText(d) ELSE DecodeFixed(d, code)

(* A Continuation extends the argument it names, if that is a text.        *)
JoinSlice(codes, d, r) ==
  IF ~d.ok \/ r.arg > Len(d.args) \/ codes[r.arg] # "Bytes"
  THEN [d EXCEPT !.ok = FALSE]
  ELSE [d EXCEPT !.args[r.arg] = @ \o r.bytes]

Decoded(codes, written) ==
  LET message == FoldLeft(DecodeOne,
                          [ok |-> TRUE, rest |-> Head(written).bytes,
                           args |-> <<>>], codes)
  IN  FoldLeft(LAMBDA d, r : JoinSlice(codes, d, r), message, Tail(written))

-----------------------------------------------------------------------------
(* Calls.                                                                  *)

TextArgs ==
  {[type |-> [kind |-> kind], text |-> [i \in 1..n |-> Base + i]] :
     kind \in {"view", "cstring"}, n \in Lengths}

FixedArgs ==
  {[type |-> t, value |-> v] :
     t \in {u \in FixedTypes : FixedEncodable(u)}, v \in Values}

(* The values a type has.                                                  *)
InRange(a) ==
  LET t == a.type
      signed == t.kind = "signed" \/ (t.kind = "enum" /\ t.of = "signed")
  IN  \/ t.kind = "bool" /\ a.value \in {0, 1}
      \/ t.kind # "bool" /\ ~signed /\ a.value \in 0..(Base ^ t.size - 1)
      \/ signed /\ a.value \in -(Base ^ (t.size - 1))..(Base ^ (t.size - 1) - 1)

Arguments == TextArgs \cup {a \in FixedArgs : InRange(a)}

EncodeInit ==
  /\ pack \in UNION {[1..n -> Arguments] : n \in 0..MaxArgs}
  /\ room \in Rooms
  /\ body \in Rooms
  /\ records = <<>>
  /\ status = "begun"

EncodeNext == EmitPlain \/ EmitChain \/ EmitFlat

Codes == [i \in DOMAIN pack |-> typeCodeFor(pack[i].type)]

Passed(i) ==
  IF IsBytes(pack[i].type) THEN pack[i].text ELSE <<pack[i].value>>

(* A record that is not flagged decodes to the arguments of the call, each *)
(* as it was passed; a flagged one to the same with at least one text cut, *)
(* not before the inline cap: no cut is silent and no flag is false        *)
(* (emitChained, rawBytesOf, encodeArgs, decodeAll).                       *)
ArgumentsRoundTrip ==
  status = "written" =>
    LET read == Decoded(Codes, records) IN
    /\ read.ok /\ read.rest = <<>> /\ Len(read.args) = Len(pack)
    /\ Head(records).cut = (\E i \in DOMAIN pack : read.args[i] # Passed(i))
    /\ \A i \in DOMAIN pack :
         \/ read.args[i] = Passed(i)
         \/ /\ IsBytes(pack[i].type)
            /\ IsPrefix(read.args[i], Passed(i))
            /\ Len(read.args[i]) >= InlineCap

(* The writing pass stores exactly the bytes the sizing pass reserved, no  *)
(* more than a head word can tell, and the records of the call fit a chunk *)
(* together (reserveChain, reserve).                                       *)
WritesWhatItReserved ==
  status = "written" =>
    LET prefix(r) == IF r.kind = "msg" THEN MessagePrefix ELSE SlicePrefix
        used == Total([k \in DOMAIN records |->
                  recordFootprint(prefix(records[k])
                                    + Len(records[k].bytes))])
    IN  /\ \A k \in DOMAIN records :
             /\ Len(records[k].bytes) = records[k].reserved
             /\ prefix(records[k]) + Len(records[k].bytes) <= MaxPayload
        /\ used <= room \/ used <= body

=============================================================================
