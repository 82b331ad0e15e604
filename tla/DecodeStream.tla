---------------------------- MODULE DecodeStream ----------------------------
(***************************************************************************)
(* decodeAll over any stream of records a damaged segment can yield: the   *)
(* two passes take the same stream one record at a time.                   *)
(***************************************************************************)
EXTENDS Decoder, FiniteSets

CONSTANTS
  SiteIds,    \* site ids
  MaxLength   \* bound on the records of a stream

ASSUME LengthAssumption == MaxLength \in Nat

(* A view without its name; illegible definitions, Messages cut short and  *)
(* Continuations that name no Bytes argument have ok = FALSE.              *)
Forms ==
  {[kind |-> k, more |-> FALSE, ok |-> b, site |-> s] :
     k \in {"def", "sub"}, b \in BOOLEAN, s \in SiteIds}
  \cup {[kind |-> "msg", more |-> m, ok |-> b, site |-> s] :
          m \in BOOLEAN, b \in BOOLEAN, s \in SiteIds}
  \cup {[kind |-> "cont", more |-> m, ok |-> b, site |-> 0] :
          m \in BOOLEAN, b \in BOOLEAN}
  \cup {[kind |-> "blob", more |-> FALSE, ok |-> TRUE, site |-> 0]}

Named(f, i) ==
  [kind |-> f.kind, more |-> f.more, ok |-> f.ok, site |-> f.site, id |-> i]

VARIABLES
  stream,    \* what visit() yields, in file order
  phase,     \* 1, 2 or 3 when decodeAll has returned
  position,  \* records of the stream the pass has taken
  reading    \* the Decoder

streamVars == <<stream, phase, position, reading>>

StreamInit ==
  /\ \E n \in 0..MaxLength : \E f \in [1..n -> Forms] :
       stream = [i \in 1..n |-> Named(f[i], i)]
  /\ phase = 1
  /\ position = 0
  /\ reading = EmptyDecoder

Take(Callback(_, _)) ==
  /\ position < Len(stream)
  /\ position' = position + 1
  /\ reading' = Callback(reading, stream[position + 1])
  /\ UNCHANGED <<stream, phase>>

PassOne == phase = 1 /\ Take(FirstPass)

TurnRound ==
  /\ phase = 1 /\ position = Len(stream)
  /\ phase' = 2 /\ position' = 0
  /\ UNCHANGED <<stream, reading>>

PassTwo == phase = 2 /\ Take(SecondPass)

Return ==
  /\ phase = 2 /\ position = Len(stream)
  /\ phase' = 3
  /\ reading' = EndOfStream(reading)
  /\ UNCHANGED <<stream, position>>

Returned == phase = 3 /\ UNCHANGED streamVars

StreamNext == PassOne \/ TurnRound \/ PassTwo \/ Return \/ Returned

StreamSpec == StreamInit /\ [][StreamNext]_streamVars

-----------------------------------------------------------------------------
(* What a stream s says should come of each of its records.                *)

Defined(s, x) ==
  \E i \in DOMAIN s : s[i].kind = "def" /\ s[i].ok /\ s[i].site = x

(* A Message whose own record is sound.                                    *)
Sound(s, i) == s[i].kind = "msg" /\ s[i].ok /\ Defined(s, s[i].site)

(* From i to j every record but the last promises the next, which is a     *)
(* Continuation.                                                           *)
Linked(s, i, j) ==
  /\ \A k \in i..(j - 1) : s[k].more
  /\ \A k \in (i + 1)..j : s[k].kind = "cont"

(* The records from i to j are one sound Message and all that it promised. *)
WholeMessage(s, i, j) ==
  /\ i <= j
  /\ Sound(s, i)
  /\ Linked(s, i, j)
  /\ ~s[j].more
  /\ \A k \in (i + 1)..j : s[k].ok

Decodable(s, i) == \E j \in DOMAIN s : WholeMessage(s, i, j)

Names(s, i, j) == [k \in 1..(j - i + 1) |-> s[i + k - 1].id]

(* decodeAll returns exactly the Messages whose definition is anywhere in  *)
(* the stream and whose chain is whole, each once, joined from its own     *)
(* records and in file order, whatever surrounds them.                     *)
DecodesExactly ==
  phase = 3 =>
    LET result == reading.result IN
    /\ \A k \in DOMAIN result :
         \E i, j \in DOMAIN stream :
           WholeMessage(stream, i, j) /\ result[k] = Names(stream, i, j)
    /\ \A i, j \in DOMAIN stream :
         WholeMessage(stream, i, j) =>
           \E k \in DOMAIN result : result[k] = Names(stream, i, j)
    /\ \A k, m \in DOMAIN result : k < m => result[k][1] < result[m][1]

(* A Continuation that belongs to no sound Message.                        *)
Orphan(s, k) ==
  /\ s[k].kind = "cont"
  /\ \A i \in 1..(k - 1) : ~(Sound(s, i) /\ Linked(s, i, k))

Illegible(s) ==
  {i \in DOMAIN s : s[i].kind \in {"def", "sub"} /\ ~s[i].ok}

(* Records of a kind the decoder does not know.                            *)
Strange(s) ==
  {i \in DOMAIN s : s[i].kind \notin {"def", "sub", "msg", "cont"}}

(* Nothing is lost in silence (R9.2): a Message that is not returned counts*)
(* once as undecodable, an illegible definition too; a Continuation that   *)
(* joins nothing and a kind the decoder does not know count once as        *)
(* skipped.                                                                *)
NothingSilent ==
  phase = 3 =>
    /\ reading.undecodable =
         Cardinality(Illegible(stream))
         + Cardinality({i \in DOMAIN stream :
                          stream[i].kind = "msg" /\ ~Decodable(stream, i)})
    /\ reading.skipped =
         Cardinality(Strange(stream))
         + Cardinality({k \in DOMAIN stream : Orphan(stream, k)})

=============================================================================
