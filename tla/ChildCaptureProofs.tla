------------------------- MODULE ChildCaptureProofs -------------------------
(***************************************************************************)
(* Theorems about spawn(), wait() and the capture threads, for any number  *)
(* of lines, any size of a pipe and any choice of captured streams.        *)
(***************************************************************************)
EXTENDS ChildCapture, CollectionLemmas, SequenceTheorems, TLAPS

-----------------------------------------------------------------------------
(* The inductive invariant.                                                *)

(* The streams a pass over Captured has still to come to.                  *)
Rest == {Captured[i] : i \in turn..Len(Captured)}

(* What spawn() holds at each of its steps.                                *)
SpawnInv ==
  /\ pc \in {"pipes", "fork", "error"} <=> child = "none"
  /\ pc \in {"fork", "handover", "announce", "running", "reap", "done"} =>
       turn = 1
  /\ pc = "pipes" => \A s \in Streams :
       IF s \in Rest THEN readEnd[s] = "none" /\ writers[s] = {}
                     ELSE readEnd[s] = "spawn" /\ writers[s] = {"parent"}
  /\ pc = "fork" => \A s \in Streams : writers[s] = {"parent"}
  /\ pc \in {"fork", "handover", "announce"} =>
       \A s \in Streams : readEnd[s] = "spawn"
  /\ pc \in {"pipes", "fork", "handover", "announce", "error"} =>
       \A s \in Streams : thread[s] = "none"
  /\ pc = "threads" => \A s \in Streams :
       IF s \in Rest THEN readEnd[s] = "spawn" /\ thread[s] = "none"
                     ELSE thread[s] # "none"
  /\ pc = "error" => \A s \in Streams : readEnd[s] \in {"none", "closed"}
  /\ pc \notin {"pipes", "fork", "handover"} =>
       \A s \in Streams : "parent" \notin writers[s]
  /\ pc \in {"pipes", "fork", "handover", "announce", "threads", "catch",
             "running"} => ~failed

(* What wait() finds and leaves.                                           *)
WaitInv ==
  /\ pc \in {"running", "join", "reap", "done"} =>
       \A s \in Streams : /\ readEnd[s] # "spawn"
                          /\ ~failed => thread[s] # "none"
  /\ pc = "join" => \A s \in Streams \ Rest : thread[s] \in {"none", "done"}
  /\ pc \in {"reap", "done"} =>
       \A s \in Streams : thread[s] \in {"none", "done"}
  /\ pc = "done" => child \in Ended /\ taker # "none"
  /\ pc # "done" => taker \in {"none", "catch", "host"}
  /\ taker = "catch" => failed

(* A capture thread owns its read end until it closes it, and closes it    *)
(* with the pipe drained and without writers, unless it broke off.         *)
ThreadInv ==
  \A s \in Streams :
    /\ thread[s] \in {"reading", "line", "counted"} <=> readEnd[s] = "thread"
    /\ thread[s] = "done" =>
         /\ readEnd[s] = "closed"
         /\ s \in broken \/ (got[s] = sent[s] /\ writers[s] = {})

(* The child holds its write ends as long as it runs.                      *)
WritersInv ==
  \A s \in Streams : child = "running" <=> "child" \in writers[s]

(* The exit record carries the end of the child, or zero for a status that *)
(* was not wait()'s to get.                                                *)
TellsEnd(r) ==
  \/ r[2] = child
  \/ r[2] = "zero" /\ taker \in {"host", "lost", "catch"}

(* The start record is the first, the exit record the last.                *)
LogInv ==
  /\ pc \in {"pipes", "fork", "handover", "announce"} => log = <<>>
  /\ \A i \in DOMAIN log : log[i] = <<"start">> => i = 1
  /\ \A i \in DOMAIN log :
       log[i][1] = "exit" => /\ pc = "done"
                             /\ i = Len(log)
                             /\ TellsEnd(log[i])

OnLine(step) == {s \in Streams : thread[s] = step}

(* The lines of all streams together.                                      *)
Total(f) == IF Streams = {"out", "err"} THEN f["out"] + f["err"]
            ELSE f[Captured[1]]

(* Every line taken from a pipe is on its way or was counted.              *)
CountInv ==
  /\ stats.captured = stats.suppressed + stats.unlogged + lost + LinesLogged
                      + Cardinality(OnLine("counted"))
  /\ Total(got) = stats.captured + Cardinality(OnLine("line"))

CaptureInv ==
  /\ TypeOK
  /\ SpawnInv
  /\ WaitInv
  /\ ThreadInv
  /\ WritersInv
  /\ LogInv
  /\ CountInv

-----------------------------------------------------------------------------
(* Passes over Captured.                                                   *)

(* The three choices of captured streams.                                  *)
LEMMA CapturedCases ==
  \/ Captured = <<"out">> /\ Streams = {"out"} /\ Len(Captured) = 1
  \/ Captured = <<"err">> /\ Streams = {"err"} /\ Len(Captured) = 1
  \/ Captured = <<"out", "err">> /\ Streams = {"out", "err"} /\ Len(Captured) = 2
<1>1. CASE Captured = <<"out">>
  BY <1>1 DEF Streams
<1>2. CASE Captured = <<"err">>
  BY <1>2 DEF Streams
<1>3. CASE Captured = <<"out", "err">>
  <2>1. DOMAIN Captured = {1, 2} /\ Len(Captured) = 2
    BY <1>3
  <2>2. Captured[1] = "out" /\ Captured[2] = "err"
    BY <1>3
  <2> QED
    BY <1>3, <2>1, <2>2 DEF Streams
<1> QED
  BY <1>1, <1>2, <1>3, CaptureAssumption

(* What a pass has to come to shrinks by the stream it is at.              *)
LEMMA RestFacts ==
  ASSUME turn \in DOMAIN Captured
  PROVE  /\ Captured[turn] \in Streams /\ Captured[turn] \in Rest
         /\ turn = 1 => Rest = Streams
         /\ LastTurn => Rest = {Captured[turn]}
         /\ ~LastTurn /\ turn' = turn + 1 =>
              turn' \in DOMAIN Captured /\ Rest' = Rest \ {Captured[turn]}
         /\ turn' = 1 => turn' \in DOMAIN Captured /\ Rest' = Streams
         /\ turn' = turn => Rest' = Rest
<1>1. CASE Len(Captured) = 1
  <2>1. DOMAIN Captured = {1} /\ turn = 1 /\ Streams = {Captured[1]}
    BY <1>1, CapturedCases
  <2>2. Rest = {Captured[1]} /\ (turn' = 1 => Rest' = {Captured[1]})
    BY <1>1, <2>1 DEF Rest
  <2> QED
    BY <1>1, <2>1, <2>2 DEF LastTurn, Rest
<1>2. CASE Len(Captured) = 2
  <2>1. /\ DOMAIN Captured = {1, 2} /\ turn \in {1, 2}
        /\ Captured[1] = "out" /\ Captured[2] = "err"
        /\ Streams = {"out", "err"}
    BY <1>2, CapturedCases
  <2>2. /\ turn = 1 => Rest = {"out", "err"}
        /\ turn = 2 => Rest = {"err"}
        /\ turn' = 1 => Rest' = {"out", "err"}
        /\ turn' = 2 => Rest' = {"err"}
    BY <1>2, <2>1 DEF Rest
  <2> QED
    BY <1>2, <2>1, <2>2 DEF LastTurn, Rest
<1> QED
  BY <1>1, <1>2, CapturedCases

-----------------------------------------------------------------------------
(* What most steps leave alone.                                            *)

LEMMA CountFrame ==
  ASSUME CountInv, UNCHANGED <<got, thread, stats, lost>>,
         log' = log \/ \E r \in Records : log' = Append(log, r) /\ r # <<"line">>,
         log \in Seq(Records)
  PROVE  CountInv'
<1>1. LinesLogged' = LinesLogged
  <2>1. CASE log' = log
    BY <2>1 DEF LinesLogged
  <2>2. ASSUME NEW r \in Records, log' = Append(log, r), r # <<"line">>
        PROVE  LinesLogged' = LinesLogged
    <3>1. /\ DOMAIN log' = 1..(Len(log) + 1) /\ DOMAIN log = 1..Len(log)
          /\ Len(log) \in Nat
          /\ \A i \in 1..Len(log) : log'[i] = log[i]
          /\ log'[Len(log) + 1] = r
      BY <2>2
    <3>2. {i \in DOMAIN log' : log'[i] = <<"line">>}
            = {i \in DOMAIN log : log[i] = <<"line">>}
      <4>1. \A i \in DOMAIN log' :
              log'[i] = <<"line">> => i \in DOMAIN log /\ log[i] = <<"line">>
        <5> SUFFICES ASSUME NEW i \in DOMAIN log', log'[i] = <<"line">>
                     PROVE  i \in DOMAIN log /\ log[i] = <<"line">>
          OBVIOUS
        <5>1. i # Len(log) + 1
          BY <2>2, <3>1, Zenon
        <5>2. i \in 1..Len(log)
          BY <3>1, <5>1
        <5> QED
          BY <3>1, <5>2
      <4>2. \A i \in DOMAIN log : i \in DOMAIN log' /\ log'[i] = log[i]
        BY <3>1
      <4> QED
        BY <4>1, <4>2
    <3> QED
      BY <3>2 DEF LinesLogged
  <2> QED
    BY <2>1, <2>2
<1>2. Total(got)' = Total(got)
  BY DEF Total
<1>3. OnLine("counted")' = OnLine("counted") /\ OnLine("line")' = OnLine("line")
  BY DEF OnLine
<1> QED
  BY <1>1, <1>2, <1>3 DEF CountInv

(* A record that is no exit record, written before wait() has collected    *)
(* the child.                                                              *)
LEMMA LogGrows ==
  ASSUME LogInv, log \in Seq(Records), pc # "done",
         NEW r \in Records, r = <<"start">> => log = <<>>,
         r[1] # "exit",
         log' = Append(log, r), pc' # "done", pc' \notin
           {"pipes", "fork", "handover", "announce"}
  PROVE  LogInv' /\ log' \in Seq(Records)
<1>1. /\ DOMAIN log' = 1..(Len(log) + 1) /\ DOMAIN log = 1..Len(log)
      /\ Len(log) \in Nat
      /\ \A i \in 1..Len(log) : log'[i] = log[i]
      /\ log'[Len(log) + 1] = r
      /\ log' \in Seq(Records)
  OBVIOUS
<1>2. \A i \in DOMAIN log' : log'[i][1] # "exit"
  BY <1>1 DEF LogInv
<1>3. \A i \in DOMAIN log' : log'[i] = <<"start">> => i = 1
  <2> SUFFICES ASSUME NEW i \in DOMAIN log', log'[i] = <<"start">>
               PROVE  i = 1
    OBVIOUS
  <2>1. CASE i \in 1..Len(log)
    BY <1>1, <2>1 DEF LogInv
  <2>2. CASE i = Len(log) + 1
    <3>1. log = <<>> /\ Len(log) = 0
      BY <1>1, <2>2
    <3> QED
      BY <2>2, <3>1
  <2> QED
    BY <1>1, <2>1, <2>2
<1> QED
  BY <1>1, <1>2, <1>3 DEF LogInv

LEMMA LogFrame ==
  ASSUME LogInv, log' = log,
         pc' = "done" <=> pc = "done",
         pc' \in {"pipes", "fork", "handover", "announce"} =>
           pc \in {"pipes", "fork", "handover", "announce"},
         pc = "done" => UNCHANGED <<child, taker>>
  PROVE  LogInv'
BY DEF LogInv, TellsEnd

-----------------------------------------------------------------------------
(* spawn().                                                                *)

LEMMA InitCapture == Init => CaptureInv
<1> SUFFICES ASSUME Init
             PROVE  CaptureInv
  OBVIOUS
<1>1. turn \in DOMAIN Captured /\ Rest = Streams
  BY CapturedCases, RestFacts DEF Init
<1>2. TypeOK
  <2>1. windows \in BOOLEAN /\ logger \in BOOLEAN
    BY CaptureAssumption, Zenon DEF Init
  <2>2. log \in Seq(Records)
    BY EmptySeq DEF Init
  <2>3. writers \in [Streams -> SUBSET {"parent", "child", "grandchild"}]
    BY DEF Init
  <2> QED
    BY <1>1, <2>1, <2>2, <2>3 DEF Init, TypeOK, ParentSteps
<1>3. SpawnInv /\ WaitInv /\ ThreadInv /\ WritersInv /\ LogInv
  BY <1>1 DEF Init, SpawnInv, WaitInv, ThreadInv, WritersInv, LogInv, Ended
<1>4. CountInv
  <2>1. LinesLogged = 0
    <3>1. {i \in DOMAIN log : log[i] = <<"line">>} = {}
      BY DEF Init
    <3> QED
      BY <3>1, FS_EmptySet DEF LinesLogged
  <2>2. OnLine("counted") = {} /\ OnLine("line") = {}
    BY DEF Init, OnLine
  <2>3. Cardinality({}) = 0
    BY FS_EmptySet
  <2>4. Total(got) = 0
    BY CapturedCases DEF Init, Total
  <2>5. /\ stats.captured = 0 /\ stats.suppressed = 0 /\ stats.unlogged = 0
        /\ lost = 0
    BY DEF Init
  <2> QED
    BY <2>1, <2>2, <2>3, <2>4, <2>5 DEF CountInv
<1> QED
  BY <1>2, <1>3, <1>4 DEF CaptureInv

LEMMA GiveUpKeeps == CaptureInv /\ GiveUp => CaptureInv'
<1> SUFFICES ASSUME CaptureInv, GiveUp
             PROVE  CaptureInv'
  OBVIOUS
<1>1. TypeOK'
  BY DEF CaptureInv, TypeOK, GiveUp, CloseEnds, processVars, captureVars,
         ParentSteps
<1>2. SpawnInv'
  BY DEF CaptureInv, TypeOK, SpawnInv, GiveUp, CloseEnds, processVars,
         captureVars
<1>3. WaitInv' /\ ThreadInv' /\ WritersInv'
  BY DEF CaptureInv, TypeOK, SpawnInv, WaitInv, ThreadInv, WritersInv, GiveUp,
         CloseEnds, processVars, captureVars
<1>4. LogInv' /\ CountInv'
  BY LogFrame, CountFrame
     DEF CaptureInv, TypeOK, GiveUp, processVars, captureVars
<1> QED
  BY <1>1, <1>2, <1>3, <1>4 DEF CaptureInv

LEMMA MakePipeKeeps == CaptureInv /\ MakePipe => CaptureInv'
<1> SUFFICES ASSUME CaptureInv, MakePipe
             PROVE  CaptureInv'
  OBVIOUS
<1>1. /\ pc = "pipes" /\ turn \in DOMAIN Captured
      /\ readEnd' = [readEnd EXCEPT ![Captured[turn]] = "spawn"]
      /\ writers' = [writers EXCEPT ![Captured[turn]] = {"parent"}]
      /\ NextTurn("fork")
      /\ UNCHANGED <<processVars, failed, captureVars, log>>
  BY DEF MakePipe, CaptureInv, TypeOK
<1>2. /\ Captured[turn] \in Streams /\ turn' \in DOMAIN Captured
      /\ \/ pc' = "fork" /\ turn' = 1 /\ Rest = {Captured[turn]}
         \/ pc' = "pipes" /\ Rest' = Rest \ {Captured[turn]}
  BY <1>1, RestFacts DEF NextTurn
<1>3. TypeOK'
  BY <1>1, <1>2 DEF CaptureInv, TypeOK, processVars, captureVars, ParentSteps
<1>4. SpawnInv'
  BY <1>1, <1>2 DEF CaptureInv, TypeOK, SpawnInv, processVars, captureVars
<1>5. WaitInv' /\ ThreadInv' /\ WritersInv'
  BY <1>1, <1>2
     DEF CaptureInv, TypeOK, SpawnInv, WaitInv, ThreadInv, WritersInv,
         processVars, captureVars
<1>6. LogInv' /\ CountInv'
  BY <1>1, <1>2, LogFrame, CountFrame
     DEF CaptureInv, TypeOK, processVars, captureVars
<1> QED
  BY <1>3, <1>4, <1>5, <1>6 DEF CaptureInv

LEMMA ForkKeeps == CaptureInv /\ Fork => CaptureInv'
<1> SUFFICES ASSUME CaptureInv, Fork
             PROVE  CaptureInv'
  OBVIOUS
<1>1. TypeOK'
  BY DEF CaptureInv, TypeOK, Fork, captureVars, ParentSteps
<1>2. SpawnInv'
  BY DEF CaptureInv, TypeOK, SpawnInv, Fork, captureVars
<1>3. WaitInv' /\ ThreadInv' /\ WritersInv'
  BY DEF CaptureInv, TypeOK, SpawnInv, WaitInv, ThreadInv, WritersInv, Fork,
         captureVars
<1>4. LogInv' /\ CountInv'
  BY LogFrame, CountFrame DEF CaptureInv, TypeOK, Fork, captureVars
<1> QED
  BY <1>1, <1>2, <1>3, <1>4 DEF CaptureInv

LEMMA CloseWriteEndsKeeps == CaptureInv /\ CloseWriteEnds => CaptureInv'
<1> SUFFICES ASSUME CaptureInv, CloseWriteEnds
             PROVE  CaptureInv'
  OBVIOUS
<1>1. TypeOK'
  BY DEF CaptureInv, TypeOK, CloseWriteEnds, processVars, captureVars,
         ParentSteps
<1>2. SpawnInv'
  BY DEF CaptureInv, TypeOK, SpawnInv, CloseWriteEnds, processVars, captureVars
<1>3. WaitInv' /\ ThreadInv' /\ WritersInv'
  BY DEF CaptureInv, TypeOK, SpawnInv, WaitInv, ThreadInv, WritersInv,
         CloseWriteEnds, processVars, captureVars
<1>4. LogInv' /\ CountInv'
  BY LogFrame, CountFrame
     DEF CaptureInv, TypeOK, CloseWriteEnds, processVars, captureVars
<1> QED
  BY <1>1, <1>2, <1>3, <1>4 DEF CaptureInv

LEMMA WriteChildStartKeeps == CaptureInv /\ WriteChildStart => CaptureInv'
<1> SUFFICES ASSUME CaptureInv, WriteChildStart
             PROVE  CaptureInv'
  OBVIOUS
<1>1. /\ pc = "announce" /\ pc' = "threads" /\ log = <<>> /\ log \in Seq(Records)
      /\ UNCHANGED <<turn, readEnd, writers, processVars, failed, captureVars>>
      /\ <<"start">> \in Records
  BY DEF WriteChildStart, CaptureInv, LogInv, TypeOK, Records
<1>2. log' = log \/ log' = Append(log, <<"start">>)
  BY DEF WriteChildStart, TryLog
<1>3. LogInv' /\ log' \in Seq(Records)
  <2>1. CASE log' = log
    BY <1>1, <2>1, LogFrame DEF CaptureInv
  <2>2. CASE log' = Append(log, <<"start">>)
    BY <1>1, <2>2, LogGrows DEF CaptureInv
  <2> QED
    BY <1>2, <2>1, <2>2
<1>4. TypeOK'
  BY <1>1, <1>3 DEF CaptureInv, TypeOK, processVars, captureVars, ParentSteps
<1>5. SpawnInv'
  BY <1>1, RestFacts
     DEF CaptureInv, TypeOK, SpawnInv, processVars, captureVars
<1>6. WaitInv' /\ ThreadInv' /\ WritersInv'
  BY <1>1
     DEF CaptureInv, TypeOK, SpawnInv, WaitInv, ThreadInv, WritersInv,
         processVars, captureVars
<1>7. CountInv'
  <2>1. <<"start">> # <<"line">>
    OBVIOUS
  <2> QED
    BY <1>1, <1>2, <2>1, CountFrame DEF CaptureInv, captureVars
<1> QED
  BY <1>3, <1>4, <1>5, <1>6, <1>7 DEF CaptureInv

(* A thread starts or ends without a line in hand.                         *)
LEMMA CountThread ==
  ASSUME CaptureInv, NEW s \in Streams, NEW step \in {"reading", "done"},
         thread[s] \in {"none", "reading"},
         thread' = [thread EXCEPT ![s] = step],
         UNCHANGED <<got, stats, lost, log>>
  PROVE  CountInv'
<1>1. OnLine("counted")' = OnLine("counted") /\ OnLine("line")' = OnLine("line")
  BY DEF OnLine, CaptureInv, TypeOK
<1>2. LinesLogged' = LinesLogged /\ Total(got)' = Total(got)
  BY DEF LinesLogged, Total
<1> QED
  BY <1>1, <1>2 DEF CaptureInv, CountInv

LEMMA StartThreadKeeps == CaptureInv /\ StartThread => CaptureInv'
<1> SUFFICES ASSUME CaptureInv, StartThread
             PROVE  CaptureInv'
  OBVIOUS
<1>1. /\ pc = "threads" /\ turn \in DOMAIN Captured
      /\ UNCHANGED <<writers, processVars, failed, sent, got, broken, stats,
                     lost, log>>
  BY DEF StartThread, CaptureInv, TypeOK
<1>2. CASE /\ thread' = [thread EXCEPT ![Captured[turn]] = "reading"]
           /\ readEnd' = [readEnd EXCEPT ![Captured[turn]] = "thread"]
           /\ NextTurn("running")
  <2>1. /\ Captured[turn] \in Rest
        /\ Captured[turn] \in Streams /\ turn' \in DOMAIN Captured
        /\ \/ pc' = "running" /\ turn' = 1 /\ Rest = {Captured[turn]}
           \/ pc' = "threads" /\ Rest' = Rest \ {Captured[turn]}
    BY <1>1, <1>2, RestFacts DEF NextTurn
  <2>2. thread[Captured[turn]] = "none" /\ readEnd[Captured[turn]] = "spawn"
    BY <1>1, <2>1 DEF CaptureInv, SpawnInv
  <2>3. TypeOK'
    BY <1>1, <1>2, <2>1 DEF CaptureInv, TypeOK, processVars, ParentSteps
  <2>4. SpawnInv'
    BY <1>1, <1>2, <2>1 DEF CaptureInv, TypeOK, SpawnInv, processVars
  <2>5. WaitInv'
    <3>1. \A s \in Streams : thread'[s] # "none" \/ (s \in Rest /\ s # Captured[turn])
      BY <1>1, <1>2, <2>1 DEF CaptureInv, TypeOK, SpawnInv
    <3>2. \A s \in Streams : thread'[s] # "none" => readEnd'[s] # "spawn"
      BY <1>1, <1>2, <2>1 DEF CaptureInv, TypeOK, ThreadInv
    <3>3. pc' = "running" => \A s \in Streams : /\ thread'[s] # "none"
                                               /\ readEnd'[s] # "spawn"
      BY <1>1, <2>1, <3>1, <3>2
    <3>4. pc' \in {"running", "threads"} /\ taker' = taker /\ failed' = failed
      BY <1>1, <2>1 DEF processVars
    <3> QED
      BY <1>1, <3>3, <3>4 DEF CaptureInv, WaitInv
  <2>6. ThreadInv' /\ WritersInv'
    BY <1>1, <1>2, <2>1, <2>2
       DEF CaptureInv, TypeOK, ThreadInv, WritersInv, processVars
  <2>7. LogInv'
    BY <1>1, <2>1, LogFrame DEF CaptureInv
  <2>8. CountInv'
    BY <1>1, <1>2, <2>1, <2>2, CountThread
  <2> QED
    BY <2>3, <2>4, <2>5, <2>6, <2>7, <2>8 DEF CaptureInv
<1>3. CASE pc' = "catch" /\ UNCHANGED <<thread, readEnd, turn>>
  <2>1. TypeOK'
    BY <1>1, <1>3 DEF CaptureInv, TypeOK, processVars, ParentSteps
  <2>2. SpawnInv' /\ WaitInv' /\ ThreadInv' /\ WritersInv'
    BY <1>1, <1>3
       DEF CaptureInv, SpawnInv, WaitInv, ThreadInv, WritersInv, processVars
  <2>3. LogInv' /\ CountInv'
    BY <1>1, <1>3, LogFrame, CountFrame DEF CaptureInv, TypeOK
  <2> QED
    BY <2>1, <2>2, <2>3 DEF CaptureInv
<1> QED
  BY <1>2, <1>3 DEF StartThread

LEMMA CatchKeeps == CaptureInv /\ Catch => CaptureInv'
<1> SUFFICES ASSUME CaptureInv, Catch
             PROVE  CaptureInv'
  OBVIOUS
<1>1. /\ pc = "catch" /\ pc' = "join" /\ turn' = 1
      /\ readEnd' = [s \in Streams |->
                       IF readEnd[s] = "spawn" THEN "closed" ELSE readEnd[s]]
      /\ failed'
      /\ UNCHANGED <<windows, logger, grandchild, captureVars, log>>
  BY DEF Catch
<1>2. failed' \in BOOLEAN /\ turn' \in DOMAIN Captured /\ Rest' = Streams
  BY <1>1, RestFacts, Zenon DEF Catch, CaptureInv, TypeOK
<1>3. LogInv' /\ CountInv'
  BY <1>1, LogFrame, CountFrame DEF CaptureInv, TypeOK, captureVars
<1>4. CASE KillChild
  <2>1. TypeOK'
    BY <1>1, <1>2, <1>4
       DEF KillChild, CaptureInv, TypeOK, captureVars, ParentSteps, Ended
  <2>2. SpawnInv' /\ WaitInv'
    BY <1>1, <1>2, <1>4
       DEF KillChild, CaptureInv, TypeOK, SpawnInv, WaitInv, ThreadInv,
           captureVars
  <2>3. ThreadInv' /\ WritersInv'
    BY <1>1, <1>4
       DEF KillChild, CaptureInv, TypeOK, ThreadInv, WritersInv, captureVars
  <2> QED
    BY <1>3, <2>1, <2>2, <2>3 DEF CaptureInv
<1>5. CASE LeaveChild
  <2>1. TypeOK'
    BY <1>1, <1>2, <1>5
       DEF LeaveChild, CaptureInv, TypeOK, captureVars, ParentSteps
  <2>2. SpawnInv' /\ WaitInv'
    BY <1>1, <1>2, <1>5
       DEF LeaveChild, CaptureInv, TypeOK, SpawnInv, WaitInv, ThreadInv,
           captureVars
  <2>3. ThreadInv' /\ WritersInv'
    BY <1>1, <1>5
       DEF LeaveChild, CaptureInv, TypeOK, ThreadInv, WritersInv, captureVars
  <2> QED
    BY <1>3, <2>1, <2>2, <2>3 DEF CaptureInv
<1> QED
  BY <1>4, <1>5 DEF Catch

-----------------------------------------------------------------------------
(* wait().                                                                 *)

LEMMA CallWaitKeeps == CaptureInv /\ CallWait => CaptureInv'
<1> SUFFICES ASSUME CaptureInv, CallWait
             PROVE  CaptureInv'
  OBVIOUS
<1>1. /\ pc = "running" /\ pc' = "join" /\ turn = 1
      /\ UNCHANGED <<turn, readEnd, writers, processVars, failed, captureVars,
                     log>>
  BY DEF CallWait, CaptureInv, SpawnInv
<1>2. Rest' = Streams
  BY <1>1, RestFacts DEF CaptureInv, TypeOK
<1>3. TypeOK'
  BY <1>1 DEF CaptureInv, TypeOK, processVars, captureVars, ParentSteps
<1>4. SpawnInv' /\ WaitInv' /\ ThreadInv' /\ WritersInv'
  BY <1>1, <1>2
     DEF CaptureInv, SpawnInv, WaitInv, ThreadInv, WritersInv, processVars,
         captureVars
<1>5. LogInv' /\ CountInv'
  BY <1>1, LogFrame, CountFrame DEF CaptureInv, TypeOK, captureVars
<1> QED
  BY <1>3, <1>4, <1>5 DEF CaptureInv

LEMMA JoinKeeps == CaptureInv /\ Join => CaptureInv'
<1> SUFFICES ASSUME CaptureInv, Join
             PROVE  CaptureInv'
  OBVIOUS
<1>1. /\ pc = "join" /\ turn \in DOMAIN Captured
      /\ thread[Captured[turn]] \in {"none", "done"}
      /\ NextTurn("reap")
      /\ UNCHANGED <<readEnd, writers, processVars, failed, captureVars, log>>
  BY DEF Join, CaptureInv, TypeOK
<1>2. /\ turn' \in DOMAIN Captured
      /\ \/ pc' = "reap" /\ turn' = 1 /\ Rest = {Captured[turn]}
         \/ pc' = "join" /\ Rest' = Rest \ {Captured[turn]}
  BY <1>1, RestFacts DEF NextTurn
<1>3. TypeOK'
  BY <1>1, <1>2 DEF CaptureInv, TypeOK, processVars, captureVars, ParentSteps
<1>4. SpawnInv' /\ ThreadInv' /\ WritersInv'
  BY <1>1, <1>2
     DEF CaptureInv, SpawnInv, ThreadInv, WritersInv, processVars, captureVars
<1>5. WaitInv'
  BY <1>1, <1>2 DEF CaptureInv, WaitInv, processVars, captureVars
<1>6. LogInv' /\ CountInv'
  BY <1>1, <1>2, LogFrame, CountFrame DEF CaptureInv, TypeOK, captureVars
<1> QED
  BY <1>3, <1>4, <1>5, <1>6 DEF CaptureInv

LEMMA ReapKeeps == CaptureInv /\ Reap => CaptureInv'
<1> SUFFICES ASSUME CaptureInv, Reap
             PROVE  CaptureInv'
  OBVIOUS
<1>1. /\ pc = "reap" /\ pc' = "done" /\ child \in Ended
      /\ UNCHANGED <<windows, logger, turn, readEnd, writers, child,
                     grandchild, failed, captureVars>>
      /\ log \in Seq(Records)
  BY DEF Reap, CaptureInv, TypeOK
<1>2. /\ taker \in {"none", "catch", "host"}
      /\ taker' \in {"catch", "wait", "host", "lost"}
      /\ taker' = "catch" => failed
  BY <1>1 DEF Reap, Collect, CaptureInv, WaitInv
<1>3. PICK e \in Ended :
        /\ TryLog(<<"exit", e>>)
        /\ e = child \/ (e = "zero" /\ taker' \in {"host", "lost", "catch"})
  BY <1>1, <1>2 DEF Reap, Collect, Ended
<1>4. PICK r \in Records : r = <<"exit", e>>
  BY <1>3 DEF Records
<1>5. r[1] = "exit" /\ r[2] = e /\ r # <<"line">> /\ r # <<"start">>
  BY <1>4
<1>6. log' = log \/ log' = Append(log, r)
  BY <1>3, <1>4 DEF TryLog
<1>7. LogInv' /\ log' \in Seq(Records)
  <2>1. CASE log' = log
    BY <1>1, <2>1 DEF CaptureInv, LogInv
  <2>2. CASE log' = Append(log, r)
    <3>1. /\ DOMAIN log' = 1..(Len(log) + 1) /\ DOMAIN log = 1..Len(log)
          /\ Len(log) \in Nat /\ Len(log') = Len(log) + 1
          /\ \A i \in 1..Len(log) : log'[i] = log[i]
          /\ log'[Len(log) + 1] = r
          /\ log' \in Seq(Records)
      BY <1>1, <2>2
    <3>2. \A i \in 1..Len(log) : log[i][1] # "exit"
      BY <1>1, <3>1 DEF CaptureInv, LogInv
    <3>3. \A i \in DOMAIN log' : i \in 1..Len(log) \/ i = Len(log) + 1
      BY <3>1
    <3>4. \A i \in DOMAIN log' : log'[i] = <<"start">> => i = 1
      BY <1>5, <3>1, <3>3 DEF CaptureInv, LogInv
    <3>5. \A i \in DOMAIN log' :
            log'[i][1] = "exit" => i = Len(log') /\ log'[i] = r
      BY <3>1, <3>2, <3>3
    <3> QED
      BY <1>1, <1>3, <1>5, <3>1, <3>4, <3>5 DEF LogInv, TellsEnd
  <2> QED
    BY <1>6, <2>1, <2>2
<1>8. TypeOK'
  BY <1>1, <1>2, <1>7 DEF CaptureInv, TypeOK, captureVars, ParentSteps
<1>9. SpawnInv' /\ WaitInv' /\ ThreadInv' /\ WritersInv'
  BY <1>1, <1>2
     DEF CaptureInv, SpawnInv, WaitInv, ThreadInv, WritersInv, captureVars
<1>10. CountInv'
  BY <1>1, <1>5, <1>6, CountFrame DEF CaptureInv, captureVars
<1> QED
  BY <1>7, <1>8, <1>9, <1>10 DEF CaptureInv

-----------------------------------------------------------------------------
(* The capture threads.                                                    *)

(* The finite sets CountInv counts.                                        *)
LEMMA FiniteCounts ==
  ASSUME TypeOK
  PROVE  /\ IsFiniteSet(Streams)
         /\ \A step : IsFiniteSet(OnLine(step))
         /\ \A step : Cardinality(OnLine(step)) \in Nat
         /\ IsFiniteSet({i \in DOMAIN log : log[i] = <<"line">>})
         /\ LinesLogged \in Nat
<1>1. IsFiniteSet(Streams)
  <2>1. IsFiniteSet({"out"}) /\ IsFiniteSet({"err"})
    BY FS_Singleton
  <2>2. IsFiniteSet({"out"} \cup {"err"})
    BY <2>1, FS_Union
  <2>3. {"out"} \cup {"err"} = {"out", "err"}
    OBVIOUS
  <2> QED
    BY <2>1, <2>2, <2>3, CapturedCases
<1>2. \A step : IsFiniteSet(OnLine(step))
  <2>1. \A step : OnLine(step) \subseteq Streams
    BY DEF OnLine
  <2> QED
    BY <1>1, <2>1, FS_Subset
<1>3. IsFiniteSet({i \in DOMAIN log : log[i] = <<"line">>})
  <2>1. Len(log) \in Nat /\ DOMAIN log = 1..Len(log)
    BY DEF TypeOK
  <2>2. IsFiniteSet(1..Len(log))
    BY <2>1, FS_Interval
  <2>3. {i \in DOMAIN log : log[i] = <<"line">>} \subseteq 1..Len(log)
    BY <2>1
  <2> QED
    BY <2>2, <2>3, FS_Subset
<1> QED
  BY <1>1, <1>2, <1>3, FS_CardinalityType DEF LinesLogged

(* A thread that goes to or from `step' changes its count by one.          *)
LEMMA OnLineMoves ==
  ASSUME TypeOK, NEW s \in Streams, NEW from, NEW to,
         thread[s] = from, from # to, thread' = [thread EXCEPT ![s] = to]
  PROVE  /\ Cardinality(OnLine(to)') = Cardinality(OnLine(to)) + 1
         /\ Cardinality(OnLine(from)') = Cardinality(OnLine(from)) - 1
<1>1. thread'[s] = to /\ \A r \in Streams : r # s => thread'[r] = thread[r]
  BY DEF TypeOK
<1>2. OnLine(to)' = OnLine(to) \cup {s} /\ s \notin OnLine(to)
  BY <1>1 DEF OnLine
<1>3. OnLine(from)' = OnLine(from) \ {s} /\ s \in OnLine(from)
  BY <1>1 DEF OnLine
<1>4. Cardinality(OnLine(to) \cup {s}) = Cardinality(OnLine(to)) + 1
  BY <1>2, FiniteCounts, FS_AddElement
<1>5. Cardinality(OnLine(from) \ {s}) = Cardinality(OnLine(from)) - 1
  BY <1>3, FiniteCounts, FS_RemoveElement
<1> QED
  BY <1>2, <1>3, <1>4, <1>5

LEMMA OnLineStays ==
  ASSUME TypeOK, NEW s \in Streams, NEW step, NEW to,
         thread[s] # step, step # to, thread' = [thread EXCEPT ![s] = to]
  PROVE  OnLine(step)' = OnLine(step)
BY DEF TypeOK, OnLine

(* The counters of a ChildProcess.                                         *)
LEMMA StatsFacts ==
  ASSUME NEW st \in [captured : Nat, suppressed : Nat, unlogged : Nat]
  PROVE  /\ [st EXCEPT !.captured = @ + 1]
              \in [captured : Nat, suppressed : Nat, unlogged : Nat]
         /\ [st EXCEPT !.suppressed = @ + 1]
              \in [captured : Nat, suppressed : Nat, unlogged : Nat]
         /\ [st EXCEPT !.unlogged = @ + 1]
              \in [captured : Nat, suppressed : Nat, unlogged : Nat]
<1>1. /\ st = [captured |-> st.captured, suppressed |-> st.suppressed,
               unlogged |-> st.unlogged]
      /\ st.captured \in Nat /\ st.suppressed \in Nat /\ st.unlogged \in Nat
  OBVIOUS
<1>2. /\ st.captured + 1 \in Nat /\ st.suppressed + 1 \in Nat
      /\ st.unlogged + 1 \in Nat
  BY <1>1
<1>3. [st EXCEPT !.captured = @ + 1]
        = [captured |-> st.captured + 1, suppressed |-> st.suppressed,
           unlogged |-> st.unlogged]
  BY <1>1
<1>4. [st EXCEPT !.suppressed = @ + 1]
        = [captured |-> st.captured, suppressed |-> st.suppressed + 1,
           unlogged |-> st.unlogged]
  BY <1>1
<1>5. [st EXCEPT !.unlogged = @ + 1]
        = [captured |-> st.captured, suppressed |-> st.suppressed,
           unlogged |-> st.unlogged + 1]
  BY <1>1
<1>6. \A a, b, c \in Nat :
        [captured |-> a, suppressed |-> b, unlogged |-> c]
          \in [captured : Nat, suppressed : Nat, unlogged : Nat]
  OBVIOUS
<1> QED
  BY <1>1, <1>2, <1>3, <1>4, <1>5, <1>6

(* What a thread does with the pipe's other end, the parent and the child  *)
(* unchanged.                                                              *)
LEMMA ThreadStep ==
  ASSUME CaptureInv, NEW s \in Streams,
         thread[s] \in {"reading", "line", "counted"},
         thread' \in [Streams -> {"none", "reading", "line", "counted", "done"}],
         thread'[s] \in {"reading", "line", "counted"},
         \A r \in Streams : r # s => thread'[r] = thread[r],
         \A r \in Streams : r # s => got'[r] = got[r],
         UNCHANGED <<pc, turn, readEnd, writers, processVars, failed, sent,
                     broken>>
  PROVE  SpawnInv' /\ WaitInv' /\ ThreadInv' /\ WritersInv'
<1>1. SpawnInv'
  BY DEF CaptureInv, TypeOK, SpawnInv, Rest, processVars
<1>2. WaitInv'
  BY DEF CaptureInv, TypeOK, WaitInv, Rest, processVars
<1>3. ThreadInv' /\ WritersInv'
  BY DEF CaptureInv, TypeOK, ThreadInv, WritersInv, processVars
<1> QED
  BY <1>1, <1>2, <1>3

LEMMA ReadLineKeeps ==
  ASSUME CaptureInv, NEW s \in Streams, ReadLine(s)
  PROVE  CaptureInv'
<1>1. /\ thread[s] = "reading"
      /\ got' = [got EXCEPT ![s] = @ + 1]
      /\ thread' = [thread EXCEPT ![s] = "line"]
      /\ UNCHANGED <<pc, turn, readEnd, writers, processVars, failed, sent,
                     broken, stats, lost, log>>
  BY DEF ReadLine, ThreadGoto
<1>2. TypeOK'
  BY <1>1 DEF CaptureInv, TypeOK, processVars
<1>3. SpawnInv' /\ WaitInv' /\ ThreadInv' /\ WritersInv'
  <2>1. /\ thread'[s] = "line"
        /\ \A r \in Streams : r # s => thread'[r] = thread[r] /\ got'[r] = got[r]
    BY <1>1 DEF CaptureInv, TypeOK
  <2> QED
    BY <1>1, <1>2, <2>1, ThreadStep DEF TypeOK
<1>4. LogInv'
  BY <1>1, LogFrame DEF CaptureInv, processVars
<1>5. CountInv'
  <2>1. /\ Cardinality(OnLine("line")') = Cardinality(OnLine("line")) + 1
        /\ OnLine("counted")' = OnLine("counted")
    BY <1>1, OnLineMoves, OnLineStays DEF CaptureInv
  <2>2. Total(got)' = Total(got) + 1
    <3>1. /\ got'[s] = got[s] + 1 /\ \A r \in Streams : got[r] \in Nat
          /\ \A r \in Streams : r # s => got'[r] = got[r]
      BY <1>1 DEF CaptureInv, TypeOK
    <3>2. CASE Streams = {"out", "err"}
      BY <3>1, <3>2 DEF Total
    <3>3. CASE Streams = {Captured[1]} /\ Streams # {"out", "err"}
      BY <3>1, <3>3 DEF Total
    <3> QED
      BY <3>2, <3>3, CapturedCases
  <2>3. LinesLogged' = LinesLogged
    BY <1>1 DEF LinesLogged
  <2>4. Cardinality(OnLine("line")) \in Nat /\ stats.captured \in Nat
    BY FiniteCounts DEF CaptureInv, TypeOK
  <2> QED
    BY <1>1, <2>1, <2>2, <2>3, <2>4 DEF CaptureInv, CountInv
<1> QED
  BY <1>2, <1>3, <1>4, <1>5 DEF CaptureInv

LEMMA EndCaptureKeeps ==
  ASSUME CaptureInv, NEW s \in Streams, EndOfFile(s) \/ BreakOff(s)
  PROVE  CaptureInv'
<1>1. /\ thread[s] = "reading"
      /\ thread' = [thread EXCEPT ![s] = "done"]
      /\ readEnd' = [readEnd EXCEPT ![s] = "closed"]
      /\ UNCHANGED <<pc, turn, writers, processVars, failed, sent, got, stats,
                     lost, log>>
  BY DEF EndOfFile, BreakOff, EndCapture, ThreadGoto
<1>2. \/ broken' = broken /\ got[s] = sent[s] /\ writers[s] = {}
      \/ broken' = broken \cup {s}
  BY DEF EndOfFile, BreakOff, Drained
<1>3. TypeOK'
  BY <1>1, <1>2 DEF CaptureInv, TypeOK, processVars
<1>4. /\ thread'[s] = "done" /\ readEnd'[s] = "closed"
      /\ readEnd[s] = "thread"
      /\ \A r \in Streams : r # s => /\ thread'[r] = thread[r]
                                     /\ readEnd'[r] = readEnd[r]
  BY <1>1 DEF CaptureInv, TypeOK, ThreadInv
<1>5. SpawnInv'
  BY <1>1, <1>4 DEF CaptureInv, SpawnInv, Rest, processVars
<1>6. WaitInv'
  BY <1>1, <1>4 DEF CaptureInv, WaitInv, Rest, processVars
<1>7. ThreadInv' /\ WritersInv'
  BY <1>1, <1>2, <1>4 DEF CaptureInv, ThreadInv, WritersInv, processVars
<1>8. LogInv' /\ CountInv'
  BY <1>1, LogFrame, CountThread DEF CaptureInv, processVars
<1> QED
  BY <1>3, <1>5, <1>6, <1>7, <1>8 DEF CaptureInv

LEMMA CountLineKeeps ==
  ASSUME CaptureInv, NEW s \in Streams, CountLine(s)
  PROVE  CaptureInv'
<1>1. /\ thread[s] = "line"
      /\ stats' = [stats EXCEPT !.captured = @ + 1]
      /\ thread' = [thread EXCEPT ![s] = "counted"]
      /\ UNCHANGED <<pc, turn, readEnd, writers, processVars, failed, sent, got,
                     broken, lost, log>>
  BY DEF CountLine, ThreadGoto
<1>2. TypeOK'
  <2>1. stats' \in [captured : Nat, suppressed : Nat, unlogged : Nat]
    BY <1>1, StatsFacts DEF CaptureInv, TypeOK
  <2>2. thread' \in [Streams -> {"none", "reading", "line", "counted", "done"}]
    BY <1>1 DEF CaptureInv, TypeOK
  <2> QED
    BY <1>1, <2>1, <2>2 DEF CaptureInv, TypeOK, processVars
<1>3. SpawnInv' /\ WaitInv' /\ ThreadInv' /\ WritersInv'
  <2>1. /\ thread'[s] = "counted"
        /\ \A r \in Streams : r # s => thread'[r] = thread[r]
    BY <1>1 DEF CaptureInv, TypeOK
  <2> QED
    BY <1>1, <1>2, <2>1, ThreadStep DEF TypeOK
<1>4. LogInv'
  BY <1>1, LogFrame DEF CaptureInv, processVars
<1>5. CountInv'
  <2>1. /\ Cardinality(OnLine("counted")') = Cardinality(OnLine("counted")) + 1
        /\ Cardinality(OnLine("line")') = Cardinality(OnLine("line")) - 1
    BY <1>1, OnLineMoves DEF CaptureInv
  <2>2. LinesLogged' = LinesLogged /\ Total(got)' = Total(got)
    BY <1>1 DEF LinesLogged, Total
  <2>3. /\ Cardinality(OnLine("line")) \in Nat
        /\ Cardinality(OnLine("counted")) \in Nat
        /\ LinesLogged \in Nat
    BY FiniteCounts DEF CaptureInv
  <2>4. /\ stats.captured \in Nat /\ stats.suppressed \in Nat
        /\ stats.unlogged \in Nat /\ lost \in Nat
        /\ stats'.captured = stats.captured + 1
        /\ stats'.suppressed = stats.suppressed
        /\ stats'.unlogged = stats.unlogged /\ lost' = lost
    BY <1>1 DEF CaptureInv, TypeOK
  <2> QED
    BY <2>1, <2>2, <2>3, <2>4 DEF CaptureInv, CountInv
<1> QED
  BY <1>2, <1>3, <1>4, <1>5 DEF CaptureInv

LEMMA DisposeKeeps ==
  ASSUME CaptureInv, NEW s \in Streams, Dispose(s)
  PROVE  CaptureInv'
<1>1. /\ thread[s] = "counted"
      /\ thread' = [thread EXCEPT ![s] = "reading"]
      /\ UNCHANGED <<pc, turn, readEnd, writers, processVars, failed, sent, got,
                     broken>>
      /\ pc # "done" /\ log \in Seq(Records)
  BY DEF Dispose, ThreadGoto, CaptureInv, WaitInv, TypeOK
<1>2. thread' \in [Streams -> {"none", "reading", "line", "counted", "done"}]
  BY <1>1 DEF CaptureInv, TypeOK
<1>3. SpawnInv' /\ WaitInv' /\ ThreadInv' /\ WritersInv'
  <2>1. /\ thread'[s] = "reading"
        /\ \A r \in Streams : r # s => thread'[r] = thread[r]
    BY <1>1 DEF CaptureInv, TypeOK
  <2> QED
    BY <1>1, <1>2, <2>1, ThreadStep
<1>4. /\ Cardinality(OnLine("counted")') = Cardinality(OnLine("counted")) - 1
      /\ OnLine("line")' = OnLine("line")
  BY <1>1, OnLineMoves, OnLineStays DEF CaptureInv
<1>5. /\ Cardinality(OnLine("counted")) \in Nat /\ LinesLogged \in Nat
      /\ IsFiniteSet({i \in DOMAIN log : log[i] = <<"line">>})
  BY FiniteCounts DEF CaptureInv
<1>6. /\ stats.captured \in Nat /\ stats.suppressed \in Nat
      /\ stats.unlogged \in Nat /\ lost \in Nat
  BY DEF CaptureInv, TypeOK
<1>7. Total(got)' = Total(got)
  BY <1>1 DEF Total
<1>8. CASE \/ /\ stats' = [stats EXCEPT !.suppressed = @ + 1]
              /\ UNCHANGED <<lost, log>>
           \/ /\ stats' = [stats EXCEPT !.unlogged = @ + 1]
              /\ UNCHANGED <<lost, log>>
           \/ lost' = lost + 1 /\ UNCHANGED <<log, stats>>
  <2>1. /\ stats' \in [captured : Nat, suppressed : Nat, unlogged : Nat]
        /\ lost' \in Nat
        /\ stats'.captured = stats.captured
        /\ stats'.suppressed + stats'.unlogged + lost'
             = stats.suppressed + stats.unlogged + lost + 1
    <3>0. stats \in [captured : Nat, suppressed : Nat, unlogged : Nat]
      BY DEF CaptureInv, TypeOK
    <3>1. CASE /\ stats' = [stats EXCEPT !.suppressed = @ + 1]
               /\ UNCHANGED <<lost, log>>
      <4>1. /\ stats'.captured = stats.captured
            /\ stats'.suppressed = stats.suppressed + 1
            /\ stats'.unlogged = stats.unlogged
        BY <3>0, <3>1
      <4> QED
        BY <1>6, <3>0, <3>1, <4>1, StatsFacts
    <3>2. CASE /\ stats' = [stats EXCEPT !.unlogged = @ + 1]
               /\ UNCHANGED <<lost, log>>
      <4>1. /\ stats'.captured = stats.captured
            /\ stats'.suppressed = stats.suppressed
            /\ stats'.unlogged = stats.unlogged + 1
        BY <3>0, <3>2
      <4> QED
        BY <1>6, <3>0, <3>2, <4>1, StatsFacts
    <3>3. CASE lost' = lost + 1 /\ UNCHANGED <<log, stats>>
      BY <1>6, <3>0, <3>3
    <3> QED
      BY <1>8, <3>1, <3>2, <3>3
  <2>2. TypeOK'
    BY <1>1, <1>2, <1>8, <2>1 DEF CaptureInv, TypeOK, processVars
  <2>3. LogInv'
    BY <1>1, <1>8, LogFrame DEF CaptureInv, processVars
  <2>4. LinesLogged' = LinesLogged
    BY <1>8 DEF LinesLogged
  <2>5. CountInv'
    BY <1>4, <1>5, <1>6, <1>7, <2>1, <2>4 DEF CaptureInv, CountInv
  <2> QED
    BY <1>3, <2>2, <2>3, <2>5 DEF CaptureInv
<1>9. CASE log' = Append(log, <<"line">>) /\ UNCHANGED <<lost, stats>>
  <2>1. <<"line">> \in Records /\ <<"line">> # <<"start">>
    BY DEF Records
  <2>2. pc \notin {"pipes", "fork", "handover", "announce"}
    BY <1>1 DEF CaptureInv, SpawnInv
  <2>3. LogInv' /\ log' \in Seq(Records)
    BY <1>1, <1>9, <2>1, <2>2, LogGrows DEF CaptureInv
  <2>4. TypeOK'
    BY <1>1, <1>2, <1>9, <2>3 DEF CaptureInv, TypeOK, processVars
  <2>5. LinesLogged' = LinesLogged + 1
    <3>1. /\ DOMAIN log' = 1..(Len(log) + 1) /\ DOMAIN log = 1..Len(log)
          /\ Len(log) \in Nat
          /\ \A i \in 1..Len(log) : log'[i] = log[i]
          /\ log'[Len(log) + 1] = <<"line">>
      BY <1>1, <1>9, <2>1
    <3>2. /\ {i \in DOMAIN log' : log'[i] = <<"line">>}
               = {i \in DOMAIN log : log[i] = <<"line">>} \cup {Len(log) + 1}
          /\ Len(log) + 1 \notin {i \in DOMAIN log : log[i] = <<"line">>}
      <4>1. Len(log) + 1 \in DOMAIN log' /\ Len(log) + 1 \notin DOMAIN log
        BY <3>1
      <4>2. \A i \in DOMAIN log' : i \in DOMAIN log \/ i = Len(log) + 1
        BY <3>1
      <4>3. \A i \in DOMAIN log : i \in DOMAIN log' /\ log'[i] = log[i]
        BY <3>1
      <4> QED
        BY <3>1, <4>1, <4>2, <4>3
    <3>3. Cardinality({i \in DOMAIN log : log[i] = <<"line">>}
                        \cup {Len(log) + 1})
            = Cardinality({i \in DOMAIN log : log[i] = <<"line">>}) + 1
      BY <1>5, <3>2, FS_AddElement
    <3> QED
      BY <3>2, <3>3 DEF LinesLogged
  <2>6. CountInv'
    <3>1. /\ stats'.captured = stats.captured
          /\ stats'.suppressed = stats.suppressed
          /\ stats'.unlogged = stats.unlogged /\ lost' = lost
      BY <1>9
    <3> QED
      BY <1>4, <1>5, <1>6, <1>7, <2>5, <3>1 DEF CaptureInv, CountInv
  <2> QED
    BY <1>3, <2>3, <2>4, <2>6 DEF CaptureInv
<1> QED
  BY <1>8, <1>9 DEF Dispose

-----------------------------------------------------------------------------
(* The child and its descendant.                                           *)

(* They change what is written and who can write.                          *)
LEMMA OutsideKeeps == CaptureInv /\ Outside => CaptureInv'
<1> SUFFICES ASSUME CaptureInv, Outside
             PROVE  CaptureInv'
  OBVIOUS
<1>1. ASSUME NEW s \in Streams, NEW p \in {"child", "grandchild"},
             WriteOutput(p, s)
      PROVE  CaptureInv'
  <2>1. /\ p \in writers[s]
        /\ sent' = [sent EXCEPT ![s] = @ + 1]
        /\ UNCHANGED <<pc, turn, readEnd, writers, processVars, failed, got,
                       thread, broken, stats, lost, log>>
    BY <1>1 DEF WriteOutput
  <2>2. TypeOK'
    BY <2>1 DEF CaptureInv, TypeOK, processVars
  <2>3. SpawnInv' /\ WaitInv' /\ WritersInv'
    BY <2>1 DEF CaptureInv, SpawnInv, WaitInv, WritersInv, Rest, processVars
  <2>4. ThreadInv'
    BY <2>1 DEF CaptureInv, TypeOK, ThreadInv
  <2>5. LogInv' /\ CountInv'
    BY <2>1, LogFrame, CountFrame DEF CaptureInv, TypeOK, processVars
  <2> QED
    BY <2>2, <2>3, <2>4, <2>5 DEF CaptureInv
<1>2. ASSUME NEW e \in Causes, ChildEnds(e)
      PROVE  CaptureInv'
  <2>1. /\ child = "running" /\ child' = e /\ e \in Ended
        /\ writers' = [s \in Streams |-> writers[s] \ {"child"}]
        /\ UNCHANGED <<pc, turn, readEnd, windows, logger, grandchild, taker,
                       failed, captureVars, log>>
    BY <1>2 DEF ChildEnds, Causes, Ended
  <2>2. pc # "done" /\ pc \notin {"pipes", "fork", "error"}
    BY <2>1 DEF CaptureInv, SpawnInv, WaitInv, Ended
  <2>3. TypeOK'
    BY <2>1 DEF CaptureInv, TypeOK, captureVars
  <2>4. SpawnInv' /\ WaitInv'
    BY <2>1, <2>2
       DEF CaptureInv, TypeOK, SpawnInv, WaitInv, Rest, captureVars, Ended
  <2>5. ThreadInv' /\ WritersInv'
    BY <2>1 DEF CaptureInv, TypeOK, ThreadInv, WritersInv, captureVars, Ended
  <2>6. LogInv' /\ CountInv'
    BY <2>1, <2>2, LogFrame, CountFrame DEF CaptureInv, TypeOK, captureVars
  <2> QED
    BY <2>3, <2>4, <2>5, <2>6 DEF CaptureInv
<1>3. ASSUME ChildForks \/ GrandchildEnds
      PROVE  CaptureInv'
  <2>1. /\ grandchild' \in {"running", "gone"}
        /\ \/ /\ child = "running"
              /\ writers' = [s \in Streams |-> writers[s] \cup {"grandchild"}]
           \/ writers' = [s \in Streams |-> writers[s] \ {"grandchild"}]
        /\ UNCHANGED <<pc, turn, readEnd, windows, logger, child, taker,
                       failed, captureVars, log>>
    BY <1>3 DEF ChildForks, GrandchildEnds
  <2>2. TypeOK'
    BY <2>1 DEF CaptureInv, TypeOK, captureVars
  <2>3. SpawnInv'
    <3>1. \A s \in Streams :
            /\ "parent" \in writers'[s] <=> "parent" \in writers[s]
            /\ child # "running" /\ writers[s] \in {{}, {"parent"}} =>
                 writers'[s] = writers[s]
      <4> SUFFICES ASSUME NEW s \in Streams
                   PROVE  /\ "parent" \in writers'[s] <=> "parent" \in writers[s]
                          /\ child # "running" /\ writers[s] \in {{}, {"parent"}}
                               => writers'[s] = writers[s]
        OBVIOUS
      <4>1. \/ child = "running" /\ writers'[s] = writers[s] \cup {"grandchild"}
            \/ writers'[s] = writers[s] \ {"grandchild"}
        BY <2>1
      <4>2. {} \ {"grandchild"} = {} /\ {"parent"} \ {"grandchild"} = {"parent"}
        OBVIOUS
      <4>3. "parent" \in writers'[s] <=> "parent" \in writers[s]
        BY <4>1
      <4>4. ASSUME child # "running", writers[s] \in {{}, {"parent"}}
            PROVE  writers'[s] = writers[s]
        BY <4>1, <4>2, <4>4
      <4> QED
        BY <4>3, <4>4
    <3> QED
      BY <2>1, <3>1 DEF CaptureInv, SpawnInv, Rest, captureVars
  <2>4. WaitInv'
    BY <2>1 DEF CaptureInv, WaitInv, Rest, captureVars
  <2>5. ThreadInv' /\ WritersInv'
    BY <2>1 DEF CaptureInv, TypeOK, ThreadInv, WritersInv, captureVars
  <2>6. LogInv' /\ CountInv'
    BY <2>1, LogFrame, CountFrame DEF CaptureInv, TypeOK, captureVars
  <2> QED
    BY <2>2, <2>3, <2>4, <2>5, <2>6 DEF CaptureInv
<1>4. ASSUME HostReaps
      PROVE  CaptureInv'
  <2>1. /\ child \in Ended /\ taker = "none" /\ taker' = "host"
        /\ UNCHANGED <<pc, turn, readEnd, writers, windows, logger, child,
                       grandchild, failed, captureVars, log>>
    BY <1>4 DEF HostReaps
  <2>2. pc # "done"
    BY <2>1 DEF CaptureInv, WaitInv
  <2>3. TypeOK'
    BY <2>1 DEF CaptureInv, TypeOK, captureVars
  <2>4. SpawnInv' /\ WaitInv' /\ ThreadInv' /\ WritersInv'
    BY <2>1, <2>2
       DEF CaptureInv, SpawnInv, WaitInv, ThreadInv, WritersInv, Rest,
           captureVars
  <2>5. LogInv' /\ CountInv'
    BY <2>1, <2>2, LogFrame, CountFrame DEF CaptureInv, TypeOK, captureVars
  <2> QED
    BY <2>3, <2>4, <2>5 DEF CaptureInv
<1> QED
  BY <1>1, <1>2, <1>3, <1>4 DEF Outside

-----------------------------------------------------------------------------
(* The theorems.                                                           *)

LEMMA NextCapture == CaptureInv /\ [Next]_vars => CaptureInv'
<1> SUFFICES ASSUME CaptureInv, [Next]_vars
             PROVE  CaptureInv'
  OBVIOUS
<1>1. CASE UNCHANGED vars
  <2>1. TypeOK'
    BY <1>1 DEF vars, processVars, captureVars, CaptureInv, TypeOK
  <2>2. SpawnInv' /\ WaitInv' /\ ThreadInv' /\ WritersInv'
    BY <1>1
       DEF vars, processVars, captureVars, CaptureInv, SpawnInv, WaitInv,
           ThreadInv, WritersInv, Rest
  <2>3. LogInv' /\ CountInv'
    BY <1>1, LogFrame, CountFrame
       DEF vars, processVars, captureVars, CaptureInv, TypeOK
  <2> QED
    BY <2>1, <2>2, <2>3 DEF CaptureInv
<1>2. CASE Parent
  BY <1>2, MakePipeKeeps, ForkKeeps, CloseWriteEndsKeeps, WriteChildStartKeeps,
     StartThreadKeeps, CatchKeeps, JoinKeeps, ReapKeeps DEF Parent
<1>3. ASSUME NEW s \in Streams, Capture(s) \/ BreakOff(s)
      PROVE  CaptureInv'
  BY <1>3, ReadLineKeeps, EndCaptureKeeps, CountLineKeeps, DisposeKeeps
     DEF Capture
<1> QED
  BY <1>1, <1>2, <1>3, GiveUpKeeps, CallWaitKeeps, OutsideKeeps
     DEF Next, Finished

(* The invariant of spawn(), wait(), the capture threads and the processes *)
(* on the other end of the pipes.                                          *)
THEOREM CaptureInvariance == Spec => []CaptureInv
BY InitCapture, NextCapture, PTL DEF Spec

(* Whatever fails on the way, a ChildProcess that is done with owns no     *)
(* pipe end and leaves no child uncollected (spawn, wait).                 *)
THEOREM NoLeaks == Spec => []NothingLeaks
<1>1. CaptureInv => NothingLeaks
  BY DEF CaptureInv, TypeOK, SpawnInv, WaitInv, ThreadInv, NothingLeaks
<1> QED
  BY <1>1, CaptureInvariance, PTL

(* When wait() returns, every line written to a captured stream has been   *)
(* taken from its pipe (wait: drain before reaping).                       *)
THEOREM TailCaptured == Spec => []TailIsCaptured
<1>1. CaptureInv => TailIsCaptured
  BY DEF CaptureInv, TypeOK, WaitInv, ThreadInv, TailIsCaptured
<1> QED
  BY <1>1, CaptureInvariance, PTL

(* The start record precedes and the exit record follows every line of the *)
(* child (spawn starts the threads last, wait joins them first).           *)
THEOREM RecordOrder == Spec => []RecordsInOrder
<1>1. CaptureInv => RecordsInOrder
  BY DEF CaptureInv, LogInv, RecordsInOrder
<1> QED
  BY <1>1, CaptureInvariance, PTL

(* The exit record is written after the end of the child and tells how it  *)
(* ended, or zero for a status that was not wait()'s to get (wait,         *)
(* writeChildExit).                                                        *)
THEOREM ExitReported == Spec => []ExitIsReported
<1>1. CaptureInv => ExitIsReported
  BY DEF CaptureInv, WaitInv, LogInv, TellsEnd, ExitIsReported
<1> QED
  BY <1>1, CaptureInvariance, PTL


(* The lines written to the captured streams, as the property adds them.   *)
LEMMA TotalIsSum ==
  ASSUME TypeOK
  PROVE  MapThenSumSet(LAMBDA s : sent[s], Streams) = Total(sent)
<1>1. MapThenSumSet(LAMBDA s : sent[s], Streams) = SetSum(sent, Streams)
  BY DEF MapThenSumSet, MapThenFoldSet, SetSum, SumOf, SumTurn, AnyOf
<1>2. SetSum(sent, Streams) = Total(sent)
  <2>0. sent \in [Streams -> Nat]
    BY DEF TypeOK
  <2>1. CASE Streams = {"out"} /\ Captured[1] = "out"
    <3>1. SetSum(sent, {"out"}) = sent["out"]
      BY <2>0, <2>1, SumOfOne
    <3>2. Streams # {"out", "err"}
      BY <2>1
    <3> QED
      BY <2>1, <3>1, <3>2 DEF Total
  <2>2. CASE Streams = {"err"} /\ Captured[1] = "err"
    <3>1. SetSum(sent, {"err"}) = sent["err"]
      BY <2>0, <2>2, SumOfOne
    <3>2. Streams # {"out", "err"}
      BY <2>2
    <3> QED
      BY <2>2, <3>1, <3>2 DEF Total
  <2>3. CASE Streams = {"out", "err"}
    <3>1. SetSum(sent, {"out", "err"}) = sent["out"] + sent["err"]
      BY <2>0, <2>3, SumOfTwo
    <3> QED
      BY <2>3, <3>1 DEF Total
  <2>4. \/ Streams = {"out"} /\ Captured[1] = "out"
        \/ Streams = {"err"} /\ Captured[1] = "err"
        \/ Streams = {"out", "err"}
    BY CapturedCases
  <2> QED
    BY <2>1, <2>2, <2>3, <2>4
<1> QED
  BY <1>1, <1>2

(* A captured line is logged, dropped by the segment, suppressed or        *)
(* unlogged, and counted as what it is; when wait() returns, that is every *)
(* line ever written (writeChildOutputLine, R9.1).                         *)
THEOREM LinesCounted == Spec => []LinesAddUp
<1>1. CaptureInv => LinesAddUp
  <2> SUFFICES ASSUME CaptureInv
               PROVE  LinesAddUp
    OBVIOUS
  <2>1. stats.captured = stats.suppressed + stats.unlogged + lost + LinesLogged
                         + Cardinality({s \in Streams : thread[s] = "counted"})
    BY DEF CaptureInv, CountInv, OnLine
  <2>2. ASSUME pc = "done", ~failed, broken = {}
        PROVE  stats.captured = MapThenSumSet(LAMBDA s : sent[s], Streams)
    <3>1. \A s \in Streams : thread[s] = "done" /\ got[s] = sent[s]
      BY <2>2 DEF CaptureInv, WaitInv, ThreadInv
    <3>2. got = sent
      BY <3>1 DEF CaptureInv, TypeOK
    <3>3. OnLine("line") = {}
      BY <3>1 DEF OnLine
    <3>4. stats.captured = Total(got)
      <4>1. Cardinality(OnLine("line")) = 0 /\ stats.captured \in Nat
        BY <3>3, FS_EmptySet DEF CaptureInv, TypeOK
      <4> QED
        BY <4>1 DEF CaptureInv, CountInv
    <3> QED
      BY <3>2, <3>4, TotalIsSum DEF CaptureInv
  <2> QED
    BY <2>1, <2>2 DEF LinesAddUp
<1> QED
  BY <1>1, CaptureInvariance, PTL

=============================================================================
