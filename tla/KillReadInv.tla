----------------------------- MODULE KillReadInv -----------------------------
(***************************************************************************)
(* The invariant behind CutIsFlagged: what a call was given is carried by  *)
(* its reservation and from there by the record it commits.                *)
(***************************************************************************)
EXTENDS KillRead, ProducerInv

(* A call in progress was asked for the arguments it carries.              *)
AskedInv ==
  /\ asked \in [Loggers \X (1..MaxEmits) -> Shape]
  /\ \A t \in Threads :
       pc[t] # "idle" => asked[<<job[t].log, job[t].call>>] = job[t].shape

(* A reservation for a Message that is not flagged has a slot for each     *)
(* record the arguments need.                                              *)
ReservedInv ==
  \A t \in Threads :
    HoldsSlots(t) /\ job[t].kind = "msg" =>
      \/ held[t].trunc
      \/ ~job[t].shape.lossy /\ held[t].count = 1 + job[t].shape.conts

(* The Message at this place is followed by n Continuations.               *)
Promises(l, c, i, n) ==
  \/ n = 0 /\ ~head[<<l, c, i>>].more
  \/ n \in 1..ChunkUnits /\ head[<<l, c, i>>].more /\ Chain(l, c, i, n)

(* A Message that is not flagged is followed by a Continuation for each    *)
(* argument that needs one.                                                *)
FlaggedInv ==
  \A l \in Loggers, c \in Chunks, i \in Slots :
    IsMessage(l, c, i) =>
      LET m == asked[<<l, payload[<<l, c, i>>].call>>] IN
      \/ head[<<l, c, i>>].trunc
      \/ ~m.lossy /\ Promises(l, c, i, m.conts)

KillInv ==
  /\ WriterInv
  /\ AskedInv
  /\ ReservedInv
  /\ FlaggedInv

=============================================================================
