---------------------------- MODULE ChildCapture ----------------------------
(***************************************************************************)
(* Running a child process and capturing its output (child.hpp): the       *)
(* parent thread in spawn() and wait(), one capture thread per captured    *)
(* stream, the child, and a grandchild that inherited the pipes.           *)
(*                                                                         *)
(* The pipes carry whole lines (LineSplitter is about cutting them): the   *)
(* n-th line written to a stream is the n-th line read from it.  Writing a *)
(* record is one step that succeeds or is a counted drop (Producer).       *)
(***************************************************************************)
EXTENDS Naturals, Sequences, FiniteSets, FiniteSetsExt

CONSTANTS
  Captured,    \* the captured streams, in the order spawn() sets them up
  Platforms,   \* builds considered: TRUE is the Windows arm
  PipeCap,     \* lines a pipe holds before its writer blocks
  MaxLines     \* bound on the lines written to one stream

Streams == {Captured[i] : i \in DOMAIN Captured}

ASSUME CaptureAssumption ==
  /\ Captured \in {<<"out">>, <<"err">>, <<"out", "err">>}
  /\ Platforms \subseteq BOOLEAN
  /\ PipeCap \in Nat \ {0}
  /\ MaxLines \in Nat

VARIABLES
  windows,     \* the arm of spawn() and wait() that was built
  pc,          \* where the parent is
  logger,      \* logger_: a Logger was bound at spawn
  turn,        \* index in Captured of the stream it is at
  readEnd,     \* who owns each read end
  writers,     \* processes that hold each write end
  child,       \* "none", "running" or how it ended
  grandchild,  \* "none", "running" or "gone"
  taker,       \* who collected the child's status; "lost": nobody got it
  failed,      \* spawn() went through its catch handler
  sent, got,   \* lines written to and taken from each pipe
  thread,      \* each capture thread
  broken,      \* streams whose capture thread gave up
  stats,       \* capturedLines_, suppressedLines_, unloggedLines_
  lost,        \* ChildOutput records dropped by the segment
  log          \* the child's records in the segment, in order

processVars == <<windows, logger, child, grandchild, taker>>
captureVars == <<sent, got, thread, broken, stats, lost>>
vars == <<pc, turn, readEnd, writers, processVars, failed, captureVars, log>>

Ended == {"zero", "code", "signal"}

ParentSteps == {"pipes", "fork", "handover", "announce", "threads", "catch",
                "running", "join", "reap", "done", "error"}

Records == {<<"start">>, <<"line">>} \cup {<<"exit", e>> : e \in Ended}

(* Every variable holds what the code's type of it can (spawn, wait,       *)
(* captureLoop, Stats).                                                    *)
TypeOK ==
  /\ windows \in BOOLEAN /\ logger \in BOOLEAN
  /\ pc \in ParentSteps
  /\ turn \in DOMAIN Captured
  /\ readEnd \in [Streams -> {"none", "spawn", "thread", "closed"}]
  /\ writers \in [Streams -> SUBSET {"parent", "child", "grandchild"}]
  /\ child \in {"none", "running"} \cup Ended
  /\ grandchild \in {"none", "running", "gone"}
  /\ taker \in {"none", "catch", "wait", "host", "lost"}
  /\ failed \in BOOLEAN
  /\ sent \in [Streams -> Nat] /\ got \in [Streams -> Nat]
  /\ thread \in [Streams -> {"none", "reading", "line", "counted", "done"}]
  /\ broken \subseteq Streams
  /\ stats \in [captured : Nat, suppressed : Nat, unlogged : Nat]
  /\ lost \in Nat
  /\ log \in Seq(Records)

Init ==
  /\ pc = "pipes"
  /\ logger \in BOOLEAN
  /\ windows \in Platforms
  /\ turn = 1
  /\ readEnd = [s \in Streams |-> "none"]
  /\ writers = [s \in Streams |-> {}]
  /\ child = "none"
  /\ grandchild = "none"
  /\ taker = "none"
  /\ failed = FALSE
  /\ sent = [s \in Streams |-> 0]
  /\ got = [s \in Streams |-> 0]
  /\ thread = [s \in Streams |-> "none"]
  /\ broken = {}
  /\ stats = [captured |-> 0, suppressed |-> 0, unlogged |-> 0]
  /\ lost = 0
  /\ log = <<>>

-----------------------------------------------------------------------------
(* spawn().                                                                *)

LastTurn == turn = Len(Captured)

(* The next stream of a pass over Captured, or `step' after the last.      *)
NextTurn(step) ==
  \/ LastTurn /\ pc' = step /\ turn' = 1
  \/ ~LastTurn /\ turn' = turn + 1 /\ UNCHANGED pc

(* A record is written, or dropped by the segment; no-op with no Logger.   *)
TryLog(r) == log' \in {log} \cup (IF logger THEN {Append(log, r)} ELSE {})

(* Fault: only the pipe that failed is given up.                           *)
CloseNothing == UNCHANGED <<readEnd, writers>>

(* Every end spawn() still owns is closed.                                 *)
CloseEnds ==
  /\ readEnd' = [s \in Streams |->
                   IF readEnd[s] = "spawn" THEN "closed" ELSE readEnd[s]]
  /\ writers' = [s \in Streams |-> writers[s] \ {"parent"}]

(* An error before there is a child: an invalid ChildProcess.              *)
GiveUp ==
  /\ pc \in {"pipes", "fork"}
  /\ CloseEnds
  /\ pc' = "error"
  /\ UNCHANGED <<turn, processVars, failed, captureVars, log>>

MakePipe ==
  LET s == Captured[turn] IN
  /\ pc = "pipes"
  /\ readEnd' = [readEnd EXCEPT ![s] = "spawn"]
  /\ writers' = [writers EXCEPT ![s] = {"parent"}]
  /\ NextTurn("fork")
  /\ UNCHANGED <<processVars, failed, captureVars, log>>

(* fork and exec, or CreateProcessW: the child holds the write ends.       *)
Fork ==
  /\ pc = "fork"
  /\ child' = "running"
  /\ writers' = [s \in Streams |-> writers[s] \cup {"child"}]
  /\ pc' = "handover"
  /\ UNCHANGED <<turn, readEnd, windows, logger, grandchild, taker, failed,
                 captureVars, log>>

(* Fault: the parent keeps its copies of the write ends.                   *)
KeepWriteEnds ==
  /\ pc = "handover"
  /\ pc' = "announce"
  /\ UNCHANGED <<writers, turn, readEnd, processVars, failed, captureVars, log>>

(* The parent closes its copies of the write ends.                         *)
CloseWriteEnds ==
  /\ pc = "handover"
  /\ writers' = [s \in Streams |-> writers[s] \ {"parent"}]
  /\ pc' = "announce"
  /\ UNCHANGED <<turn, readEnd, processVars, failed, captureVars, log>>

(* writeChildStart.                                                        *)
WriteChildStart ==
  /\ pc = "announce"
  /\ TryLog(<<"start">>)
  /\ pc' = "threads"
  /\ UNCHANGED <<turn, readEnd, writers, processVars, failed, captureVars>>

(* A capture thread takes over its read end; starting one may throw.       *)
StartThread ==
  LET s == Captured[turn] IN
  /\ pc = "threads"
  /\ \/ /\ thread' = [thread EXCEPT ![s] = "reading"]
        /\ readEnd' = [readEnd EXCEPT ![s] = "thread"]
        /\ NextTurn("running")
     \/ /\ pc' = "catch"
        /\ UNCHANGED <<thread, readEnd, turn>>
  /\ UNCHANGED <<writers, processVars, failed, sent, got, broken, stats, lost,
                 log>>

(* POSIX kills the child and collects its status, unless waitpid is        *)
(* interrupted by a signal or the host has the status already.             *)
KillChild ==
  /\ ~windows
  /\ child' = IF child = "running" THEN "signal" ELSE child
  /\ \/ UNCHANGED taker
     \/ taker = "none" /\ taker' = "catch"
  /\ writers' = [s \in Streams |-> writers[s] \ {"child"}]

(* The Windows arm has already handed the process to the result.           *)
LeaveChild == windows /\ UNCHANGED <<child, taker, writers>>

(* The catch handler; the destructor of the half-built result then waits.  *)
Catch ==
  /\ pc = "catch"
  /\ KillChild \/ LeaveChild
  /\ readEnd' = [s \in Streams |->
                   IF readEnd[s] = "spawn" THEN "closed" ELSE readEnd[s]]
  /\ failed' = TRUE
  /\ pc' = "join"
  /\ turn' = 1
  /\ UNCHANGED <<windows, logger, grandchild, captureVars, log>>

-----------------------------------------------------------------------------
(* wait(), called by the owner or by the destructor.                       *)

CallWait ==
  /\ pc = "running"
  /\ pc' = "join"
  /\ UNCHANGED <<turn, readEnd, writers, processVars, failed, captureVars, log>>

(* Fault: the child is collected without waiting for the capture threads.  *)
JoinNothing ==
  /\ pc = "join"
  /\ NextTurn("reap")
  /\ UNCHANGED <<readEnd, writers, processVars, failed, captureVars, log>>

(* A thread that was never started is not joinable.                        *)
Join ==
  /\ pc = "join"
  /\ thread[Captured[turn]] \in {"none", "done"}
  /\ NextTurn("reap")
  /\ UNCHANGED <<readEnd, writers, processVars, failed, captureVars, log>>

(* The status wait() finds goes into the exit record.  A status somebody   *)
(* else collected, or one the system does not give, leaves the record at   *)
(* its default, a normal exit with code zero.                              *)
Collect ==
  \/ taker = "none" /\ taker' = "wait" /\ TryLog(<<"exit", child>>)
  \/ taker # "none" /\ UNCHANGED taker /\ TryLog(<<"exit", "zero">>)
  \/ windows /\ taker' = "lost" /\ TryLog(<<"exit", "zero">>)

(* Fault: a wait for the child that timed out counts as its end.           *)
ReapEarly ==
  /\ pc = "reap"
  /\ Collect
  /\ pc' = "done"
  /\ UNCHANGED <<windows, logger, turn, readEnd, writers, child, grandchild,
                 failed, captureVars>>

(* waitpid, or WaitForSingleObject, returns once the child has ended; then *)
(* writeChildExit.                                                         *)
Reap ==
  /\ pc = "reap"
  /\ child \in Ended
  /\ Collect
  /\ pc' = "done"
  /\ UNCHANGED <<windows, logger, turn, readEnd, writers, child, grandchild,
                 failed, captureVars>>

-----------------------------------------------------------------------------
(* The capture thread of stream s.                                         *)

ThreadGoto(s, step) == thread' = [thread EXCEPT ![s] = step]

(* Fault: one thread serves the streams in turn.                           *)
ReadLineInTurn(s) ==
  /\ thread[s] = "reading"
  /\ got[s] < sent[s]
  /\ \A i, j \in DOMAIN Captured :
       i < j /\ Captured[j] = s => thread[Captured[i]] = "done"
  /\ got' = [got EXCEPT ![s] = @ + 1]
  /\ ThreadGoto(s, "line")
  /\ UNCHANGED <<pc, turn, readEnd, writers, processVars, failed, sent, broken,
                 stats, lost, log>>

ReadLine(s) ==
  /\ thread[s] = "reading"
  /\ got[s] < sent[s]
  /\ got' = [got EXCEPT ![s] = @ + 1]
  /\ ThreadGoto(s, "line")
  /\ UNCHANGED <<pc, turn, readEnd, writers, processVars, failed, sent, broken,
                 stats, lost, log>>

(* Fault: the thread stops when the writers are gone, whatever is left.    *)
DrainedWhenClosed(s) == writers[s] = {}

(* End of file: the pipe is empty and nobody can write to it.              *)
Drained(s) == got[s] = sent[s] /\ writers[s] = {}

EndCapture(s) ==
  /\ thread[s] = "reading"
  /\ ThreadGoto(s, "done")
  /\ readEnd' = [readEnd EXCEPT ![s] = "closed"]
  /\ UNCHANGED <<pc, turn, writers, processVars, failed, sent, got, stats, lost,
                 log>>

EndOfFile(s) == Drained(s) /\ EndCapture(s) /\ UNCHANGED broken

(* A read error or an exception ends the capture of this stream alone.     *)
BreakOff(s) == EndCapture(s) /\ broken' = broken \cup {s}

(* writeChildOutputLine counts the line before anything can swallow it.    *)
CountLine(s) ==
  /\ thread[s] = "line"
  /\ stats' = [stats EXCEPT !.captured = @ + 1]
  /\ ThreadGoto(s, "counted")
  /\ UNCHANGED <<pc, turn, readEnd, writers, processVars, failed, sent, got,
                 broken, lost, log>>

(* Fault: a line nobody logs is not counted.                               *)
DisposeSilently(s) ==
  /\ thread[s] = "counted"
  /\ \/ stats' = [stats EXCEPT !.suppressed = @ + 1] /\ UNCHANGED <<lost, log>>
     \/ ~logger /\ UNCHANGED <<stats, lost, log>>
     \/ logger /\ log' = Append(log, <<"line">>) /\ UNCHANGED <<lost, stats>>
     \/ logger /\ lost' = lost + 1 /\ UNCHANGED <<log, stats>>
  /\ ThreadGoto(s, "reading")
  /\ UNCHANGED <<pc, turn, readEnd, writers, processVars, failed, sent, got,
                 broken>>

(* The interceptor suppresses the line, or it is logged, dropped by the    *)
(* segment, or counted as unlogged.  An exception counts as logging.       *)
Dispose(s) ==
  /\ thread[s] = "counted"
  /\ \/ stats' = [stats EXCEPT !.suppressed = @ + 1] /\ UNCHANGED <<lost, log>>
     \/ /\ ~logger
        /\ stats' = [stats EXCEPT !.unlogged = @ + 1]
        /\ UNCHANGED <<lost, log>>
     \/ logger /\ log' = Append(log, <<"line">>) /\ UNCHANGED <<lost, stats>>
     \/ logger /\ lost' = lost + 1 /\ UNCHANGED <<log, stats>>
  /\ ThreadGoto(s, "reading")
  /\ UNCHANGED <<pc, turn, readEnd, writers, processVars, failed, sent, got,
                 broken>>

-----------------------------------------------------------------------------
(* The child, its descendant and the host (not this library's code).       *)

(* A write blocks while the pipe is full and fails once nobody can read.   *)
WriteOutput(p, s) ==
  /\ p \in writers[s]
  /\ readEnd[s] # "closed"
  /\ sent[s] < MaxLines
  /\ sent[s] - got[s] < PipeCap
  /\ sent' = [sent EXCEPT ![s] = @ + 1]
  /\ UNCHANGED <<pc, turn, readEnd, writers, processVars, failed, got, thread,
                 broken, stats, lost, log>>

ChildEnds(e) ==
  /\ child = "running"
  /\ child' = e
  /\ writers' = [s \in Streams |-> writers[s] \ {"child"}]
  /\ UNCHANGED <<pc, turn, readEnd, windows, logger, grandchild, taker, failed,
                 captureVars, log>>

(* The child starts a background process that inherits its streams.        *)
ChildForks ==
  /\ child = "running"
  /\ grandchild = "none"
  /\ grandchild' = "running"
  /\ writers' = [s \in Streams |-> writers[s] \cup {"grandchild"}]
  /\ UNCHANGED <<pc, turn, readEnd, windows, logger, child, taker, failed,
                 captureVars, log>>

GrandchildEnds ==
  /\ grandchild = "running"
  /\ grandchild' = "gone"
  /\ writers' = [s \in Streams |-> writers[s] \ {"grandchild"}]
  /\ UNCHANGED <<pc, turn, readEnd, windows, logger, child, taker, failed,
                 captureVars, log>>

(* The host collects every child that ends, or ignores SIGCHLD so that the *)
(* system does: waitpid then knows no such child.                          *)
HostReaps ==
  /\ ~windows
  /\ child \in Ended
  /\ taker = "none"
  /\ taker' = "host"
  /\ UNCHANGED <<pc, turn, readEnd, writers, windows, logger, child, grandchild,
                 failed, captureVars, log>>

Causes == IF windows THEN {"zero", "code"} ELSE Ended

Outside ==
  \/ \E s \in Streams, p \in {"child", "grandchild"} : WriteOutput(p, s)
  \/ \E e \in Causes : ChildEnds(e)
  \/ ChildForks
  \/ GrandchildEnds
  \/ HostReaps

-----------------------------------------------------------------------------

Parent ==
  \/ MakePipe
  \/ Fork
  \/ CloseWriteEnds
  \/ WriteChildStart
  \/ StartThread
  \/ Catch
  \/ Join
  \/ Reap

Capture(s) == ReadLine(s) \/ EndOfFile(s) \/ CountLine(s) \/ Dispose(s)

(* What has ended stays so.                                                *)
Finished == pc \in {"done", "error"} /\ UNCHANGED vars

Next ==
  \/ Parent
  \/ GiveUp
  \/ CallWait
  \/ \E s \in Streams : Capture(s) \/ BreakOff(s)
  \/ Outside
  \/ Finished

Spec == Init /\ [][Next]_vars

(* The parent inside spawn() or wait() and the capture threads are         *)
(* scheduled.  That wait() is called, or that the child ever writes or     *)
(* ends, is not assumed.                                                   *)
FairSpec ==
  /\ Spec
  /\ WF_vars(Parent)
  /\ \A s \in Streams : WF_vars(Capture(s))

-----------------------------------------------------------------------------
(* What has to hold.                                                       *)

(* Whatever fails on the way, a ChildProcess that is done with owns no     *)
(* pipe end and leaves no child uncollected (spawn, wait).                 *)
NothingLeaks ==
  pc \in {"done", "error"} =>
    /\ \A s \in Streams : /\ readEnd[s] \in {"none", "closed"}
                          /\ "parent" \notin writers[s]
    /\ child = "none" \/ (child \in Ended /\ taker # "none")

(* When wait() returns, every line anybody wrote to a captured stream has  *)
(* been taken from its pipe, the last lines of a dying child included      *)
(* (wait: drain before reaping).                                           *)
TailIsCaptured ==
  pc \in {"reap", "done"} /\ ~failed =>
    \A s \in Streams : s \in broken \/ (got[s] = sent[s] /\ thread[s] = "done")

LinesLogged == Cardinality({i \in DOMAIN log : log[i] = <<"line">>})

(* A captured line is logged, dropped by the segment, suppressed or        *)
(* unlogged, and counted as what it is; when wait() returns, that is every *)
(* line ever written (writeChildOutputLine, R9.1).                         *)
LinesAddUp ==
  /\ stats.captured = stats.suppressed + stats.unlogged + lost + LinesLogged
                      + Cardinality({s \in Streams : thread[s] = "counted"})
  /\ pc = "done" /\ ~failed /\ broken = {} =>
       stats.captured = MapThenSumSet(LAMBDA s : sent[s], Streams)

(* The start record precedes and the exit record follows every line of the *)
(* child (spawn starts the threads last, wait joins them first).           *)
RecordsInOrder ==
  \A i, j \in DOMAIN log :
    /\ log[j] = <<"start">> => j = 1
    /\ log[i][1] = "exit" => i = Len(log)

(* Once the child and its descendants are gone, wait() and the destructor  *)
(* of a failed spawn return.                                               *)
WaitReturns ==
  (pc # "running" /\ child \in Ended /\ grandchild # "running") ~>
    (pc \in {"done", "running"})

(* A child blocked on a full pipe is not blocked for ever by this library, *)
(* whichever stream it fills first (one capture thread per stream).        *)
PipesDrain ==
  \A s \in Streams :
    (thread[s] = "reading" /\ sent[s] - got[s] = PipeCap) ~>
      (sent[s] - got[s] < PipeCap \/ s \in broken)

(* The exit record is written after the end of the child and tells how it  *)
(* ended.  It says zero instead where the status was not wait()'s to get:  *)
(* the host collected it, the system did not give it, or the catch handler *)
(* of a failed spawn() took it (wait, writeChildExit).                     *)
ExitIsReported ==
  \A i \in DOMAIN log : log[i][1] = "exit" =>
    \/ log[i][2] = child
    \/ /\ log[i][2] = "zero"
       /\ child \in Ended
       /\ taker \in {"host", "lost"} \/ (taker = "catch" /\ failed)

-----------------------------------------------------------------------------
(* What the comments say and the code does not do.                         *)

(* The exit record of a child tells how it ended (ExitStatus).             *)
ExitIsTruthful == \A i \in DOMAIN log : log[i][1] = "exit" => log[i][2] = child

=============================================================================
