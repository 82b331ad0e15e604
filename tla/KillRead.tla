------------------------------ MODULE KillRead ------------------------------
(***************************************************************************)
(* Reading back what a killed process left.  A kill leaves the segment as  *)
(* it is in some reachable state of Producer, so what the decoder makes of *)
(* every reachable state is what a reader finds after a kill there.        *)
(***************************************************************************)
EXTENDS SegmentImage

VARIABLE asked   \* the arguments of every call made so far

killVars == <<vars, asked>>

Unasked == [msg |-> 1, conts |-> 0, lossy |-> FALSE]

KillInit == Init /\ asked = [p \in Loggers \X (1..MaxEmits) |-> Unasked]

BeginsCall(t) == pc[t] = "idle" /\ job'[t] # NoJob

KillNext ==
  /\ Next
  /\ asked' = [p \in DOMAIN asked |->
                 IF \E t \in Threads :
                      BeginsCall(t) /\ p = <<job'[t].log, job'[t].call>>
                 THEN job'[CHOOSE t \in Threads : BeginsCall(t)].shape
                 ELSE asked[p]]

KillSpec == KillInit /\ [][KillNext]_killVars

(* Whenever the process is killed, its segment decodes to exactly the      *)
(* messages whose commit was reached, each once and whole, with nothing    *)
(* undecodable and nothing skipped (R3.1, R3.2).                           *)
KilledImageDecodes ==
  \A l \in Loggers :
    LET d == DecodeAll(Image(l)) IN
    /\ d.undecodable = 0
    /\ d.skipped = 0
    /\ \A k \in DOMAIN d.result : DecodedWhole(l, d.result[k])
    /\ {CallOf(l, d.result[k]) : k \in DOMAIN d.result} =
         {n \in 1..attempts[l] : MessageRecorded(l, n)}
    /\ Len(d.result) =
         Cardinality({n \in 1..attempts[l] : MessageRecorded(l, n)})

(* A message that does not hold everything its call was given says so      *)
(* (cFlagTruncated, R9.2).                                                 *)
CutIsFlagged ==
  \A l \in Loggers, c \in Chunks, i \in Slots :
    Visible(l, c, i) /\ head[<<l, c, i>>].kind = "msg" =>
      LET call == payload[<<l, c, i>>].call
          m == asked[<<l, call>>]
      IN  \/ head[<<l, c, i>>].trunc
          \/ ~m.lossy /\ Cardinality(MessagePlaces(l, call)) = 1 + m.conts

=============================================================================
