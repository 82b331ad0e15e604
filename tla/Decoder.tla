------------------------------ MODULE Decoder -------------------------------
(***************************************************************************)
(* Decoder::decodeAll (reader.hpp) as functions of the decoder's state and *)
(* the record visit() hands it.  A record is what the decoder looks at: its*)
(* kind, whether its head promises a Continuation, whether its payload is  *)
(* legible, its site, and a name for it.  A decoded record is the sequence *)
(* of the names of the records it was put together from.                   *)
(*                                                                         *)
(* expectingContinuation and pending.has_value() change together, so one   *)
(* field stands for both: chain, empty when no Message is pending.         *)
(***************************************************************************)
EXTENDS Naturals, Sequences

EmptyDecoder ==
  [sites |-> {},        \* sites_, by site id
   names |-> {},        \* subsystemNames_
   messages |-> 0,      \* messageCount of pass one
   result |-> <<>>,     \* the DecodedRecords
   chain |-> <<>>,      \* pending and what was joined to it
   damaged |-> FALSE,   \* of the pending chain
   skipped |-> 0,
   undecodable |-> 0]

Undecodable(d) == [d EXCEPT !.undecodable = @ + 1]
Skipped(d) == [d EXCEPT !.skipped = @ + 1]

(* Fault: a Continuation is counted here and again in pass two.            *)
FirstPassCountsAll(d, v) ==
  CASE v.kind = "def" /\ v.ok -> [d EXCEPT !.sites = @ \cup {v.site}]
    [] v.kind = "sub" /\ v.ok -> [d EXCEPT !.names = @ \cup {v.site}]
    [] v.kind \in {"def", "sub"} /\ ~v.ok -> Undecodable(d)
    [] v.kind = "msg" -> [d EXCEPT !.messages = @ + 1]
    [] OTHER -> Skipped(d)

(* The callback of pass one: definitions are collected, of two for one id  *)
(* the first is kept.                                                      *)
FirstPass(d, v) ==
  CASE v.kind = "def" /\ v.ok -> [d EXCEPT !.sites = @ \cup {v.site}]
    [] v.kind = "sub" /\ v.ok -> [d EXCEPT !.names = @ \cup {v.site}]
    [] v.kind \in {"def", "sub"} /\ ~v.ok -> Undecodable(d)
    [] v.kind = "msg" -> [d EXCEPT !.messages = @ + 1]
    [] v.kind = "cont" -> d
    [] OTHER -> Skipped(d)

(* finalizePending: the chain is published or counted.                     *)
FinalizePending(d) ==
  IF d.chain = <<>> THEN d
  ELSE [(IF d.damaged THEN Undecodable(d)
         ELSE [d EXCEPT !.result = Append(@, d.chain)])
        EXCEPT !.chain = <<>>, !.damaged = FALSE]

(* A Continuation of the pending chain.  An illegible one damages the chain*)
(* but its head still says whether another follows.                        *)
JoinContinuation(d, v) ==
  LET joined == [d EXCEPT !.damaged = @ \/ ~v.ok,
                          !.chain = IF v.ok /\ ~d.damaged THEN Append(@, v.id)
                                    ELSE @]
  IN  IF v.more THEN joined ELSE FinalizePending(joined)

(* A Message: undecodable, published, or held until its chain is complete. *)
OpenMessage(d, v) ==
  IF ~v.ok \/ v.site \notin d.sites THEN Undecodable(d)
  ELSE IF v.more THEN [d EXCEPT !.chain = <<v.id>>, !.damaged = FALSE]
  ELSE [d EXCEPT !.result = Append(@, <<v.id>>)]

(* A record that is not part of a pending chain.                           *)
Unchained(d, v) ==
  CASE v.kind = "cont" -> Skipped(d)
    [] v.kind = "msg" -> OpenMessage(d, v)
    [] OTHER -> d

(* The callback of pass two.                                               *)
SecondPass(d, v) ==
  IF d.chain = <<>> THEN Unchained(d, v)
  ELSE IF v.kind = "cont" THEN JoinContinuation(d, v)
  ELSE Unchained(FinalizePending([d EXCEPT !.damaged = TRUE]), v)

(* Fault: what was collected of an open chain is published.                *)
EndPublishesOpen(d) == FinalizePending(d)

(* The end of the stream: an open chain lost its tail.                     *)
EndOfStream(d) ==
  FinalizePending(IF d.chain # <<>> THEN [d EXCEPT !.damaged = TRUE] ELSE d)

=============================================================================
