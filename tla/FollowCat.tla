----------------------------- MODULE FollowCat -----------------------------
(***************************************************************************)
(* sub0log-cat (tools/sub0log_cat.cpp): the command line, and the loop     *)
(* that scans the given files and directories, merges what it read and     *)
(* prints what the filters want -- once, until the first match             *)
(* (--wait-ms) or for ever (--follow) -- while processes go on writing     *)
(* their segments and files come, go and change their names.               *)
(*                                                                         *)
(* A path is a number, Dir the directory that holds every path.  A file is *)
(* FileBytes long and a line of output LineBytes; an option is a record of *)
(* its name, its value (NoValue where the command line ends, Bad where the *)
(* text does not parse) and, for --arg-uint, the index before the colon.   *)
(***************************************************************************)
EXTENDS Merge

CONSTANTS
  Paths,         \* names of segment files inside the directory
  CommandLines,  \* argument lists the program is started with
  Starts,        \* [content, visible] it is started on
  DefaultLimit,  \* default of every resource limit, beyond what is reached
  Signals,       \* signals the program handles: SIGINT, SIGTERM
  Skew,          \* how far a stamp put on its anchor may be off the instant
  MaxMoves       \* bound on what happens around the program

Dir == 0
NoFile == 0
NoWait == -1
NoFilter == -1
NoValue == -2
Bad == -3
HeaderItem == -1
All(s) == {HeaderItem} \cup Items(s)
FileBytes == 1
LineBytes == 1

ASSUME CatAssumption ==
  /\ IsFiniteSet(Paths) /\ Paths \subseteq Nat \ {Dir}
  /\ NoFile \notin Segments
  /\ Starts \subseteq [content : [Paths -> Segments \cup {NoFile}],
                      visible : [Segments -> SUBSET UNION {All(s) : s \in Segments}]]
  /\ \A start \in Starts, s \in Segments : start.visible[s] \subseteq All(s)
  /\ Signals \subseteq Nat \ {0}
  /\ DefaultLimit \in Nat \ {0}
  /\ Skew \in Nat
  /\ MaxMoves \in Nat

VARIABLES
  argv,       \* arguments not parsed yet
  opt,        \* Options
  pc,         \* where run() is
  exit,       \* exit code
  content,    \* [Paths -> the segment the file holds, or NoFile]
  visible,    \* [Segments -> what is committed: HeaderItem, items]
  files,      \* paths of this scan still to be read
  remaining,  \* remainingBytes
  early,      \* items committed when the file being read was opened
  images,     \* images read in this scan
  scanError,
  opened,     \* anySegmentOpened
  merged,     \* records of this scan
  next,       \* index of the next one
  matched,
  seen,       \* keys of the records met while following
  out,        \* lines printed
  flushed,    \* how many of them have left the process
  broken,     \* the reader of the output is gone
  health,     \* Health
  late,       \* the deadline has passed
  cancelled,  \* gCancelled
  moves       \* what happened around the program

world == <<content, visible, broken, late, cancelled, moves>>
scanVars == <<files, remaining, early, images, scanError, merged, next, matched>>
vars == <<argv, opt, pc, exit, world, scanVars, opened, seen, out, flushed,
          health>>

Options ==
  [inputs |-> <<>>, minimum |-> 0, subsystems |-> {},
   correlation |-> NoFilter, waitMs |-> NoWait,
   argUint |-> [index |-> 0, value |-> NoFilter],
   maxFiles |-> DefaultLimit, maxInputBytes |-> DefaultLimit,
   maxRecords |-> DefaultLimit, maxOutputBytes |-> DefaultLimit,
   follow |-> FALSE, helpOnly |-> FALSE]

Waits == opt.waitMs # NoWait

Init ==
  /\ argv \in CommandLines
  /\ opt = Options
  /\ pc = "parse"
  /\ exit = -1
  /\ \E start \in Starts : /\ content = start.content
                           /\ visible = start.visible
  /\ files = <<>>
  /\ remaining = 0
  /\ early = {}
  /\ images = <<>>
  /\ scanError = FALSE
  /\ opened = FALSE
  /\ merged = <<>>
  /\ next = 1
  /\ matched = FALSE
  /\ seen = {}
  /\ out = <<>>
  /\ flushed = 0
  /\ broken = FALSE
  /\ health = [scans |-> FALSE, records |-> 0, emitted |-> 0,
               inputErrorSeen |-> FALSE, undecodable |-> 0,
               unreadable |-> FALSE]
  /\ late = FALSE
  /\ cancelled = 0
  /\ moves = 0

Exit(code) == pc' = "exit" /\ exit' = code
Goto(place) == pc' = place /\ exit' = exit

-----------------------------------------------------------------------------
(* The command line.                                                       *)

Limits == {"maxFiles", "maxInputBytes", "maxRecords", "maxOutputBytes"}
Numeric == Limits \cup {"minimum", "subsystem", "correlation", "waitMs",
                        "argUint"}

(* A path is always one that exists or could.                              *)
Argument ==
  {a \in [name : Numeric \cup {"input", "follow", "help", "unknown"},
          index : Nat, value : Nat \cup {NoValue, Bad}] :
     a.name = "input" => a.value \in Paths \cup {Dir}}

ASSUME ArgumentsAssumption == CommandLines \subseteq Seq(Argument)

Rejected(a) ==
  \/ a.name = "unknown"
  \/ a.name \in Numeric /\ a.value \in {NoValue, Bad}
  \/ a.name \in Limits /\ a.value = 0

(* One option taken; of a repeated scalar the last one counts.             *)
Taken(o, a) ==
  CASE a.name = "follow" -> [o EXCEPT !.follow = TRUE]
    [] a.name = "waitMs" -> [o EXCEPT !.waitMs = a.value, !.follow = TRUE]
    [] a.name = "input" -> [o EXCEPT !.inputs = Append(@, a.value)]
    [] a.name = "subsystem" -> [o EXCEPT !.subsystems = @ \cup {a.value}]
    [] a.name = "argUint" ->
         [o EXCEPT !.argUint = [index |-> a.index, value |-> a.value]]
    [] OTHER -> [o EXCEPT ![a.name] = a.value]

ParseOption ==
  /\ pc = "parse"
  /\ argv # <<>>
  /\ \/ /\ Head(argv).name = "help"
        /\ Exit(0)
        /\ opt' = [opt EXCEPT !.helpOnly = TRUE]
     \/ Rejected(Head(argv)) /\ Exit(2) /\ UNCHANGED opt
     \/ /\ Head(argv).name # "help" /\ ~Rejected(Head(argv))
        /\ opt' = Taken(opt, Head(argv))
        /\ Goto("parse")
  /\ argv' = Tail(argv)
  /\ UNCHANGED <<world, scanVars, opened, seen, out, flushed, health>>

(* The end of the command line, and the start of run(): a deadline of 0    *)
(* has passed when it is set.                                              *)
ParseEnd ==
  /\ pc = "parse"
  /\ argv = <<>>
  /\ IF opt.inputs = <<>> THEN Exit(2) ELSE Goto("scan")
  /\ late' = (opt.waitMs = 0)
  /\ UNCHANGED <<argv, opt, content, visible, broken, cancelled,
                 moves, scanVars, opened, seen, out, flushed, health>>

-----------------------------------------------------------------------------
(* One scan.                                                               *)

Listed == Ordered({p \in Paths : content[p] # NoFile}, <)

Expanded(inputs) ==
  FlattenSeq([i \in DOMAIN inputs |->
                IF inputs[i] = Dir THEN Listed ELSE <<inputs[i]>>])

collectSegments == StableSorted(Expanded(opt.inputs), <)

(* Fault: keys of files that are gone are evicted.                         *)
RetainedListed ==
  {k \in seen : \E p \in Paths : /\ content[p] # NoFile
                                /\ Headers[content[p]].generation = k[2]}

(* The keys met in earlier scans are kept for the whole invocation.        *)
Retained == seen

BeginScan ==
  /\ pc = "scan"
  /\ cancelled = 0
  /\ IF Len(collectSegments) > opt.maxFiles
     THEN Exit(4) /\ UNCHANGED files
     ELSE Goto("read") /\ files' = collectSegments
  /\ remaining' = opt.maxInputBytes
  /\ early' = {}
  /\ images' = <<>>
  /\ scanError' = FALSE
  /\ merged' = <<>>
  /\ next' = 1
  /\ matched' = FALSE
  /\ seen' = Retained
  /\ UNCHANGED <<argv, opt, world, opened, out, flushed, health>>

(* A directory cannot be listed.                                           *)
ListFails ==
  /\ pc = "scan"
  /\ cancelled = 0
  /\ \E i \in DOMAIN opt.inputs :
       /\ opt.inputs[i] = Dir
       /\ Len(Expanded(SubSeq(opt.inputs, 1, i - 1))) <= opt.maxFiles
  /\ Exit(1)
  /\ UNCHANGED <<argv, opt, world, scanVars, opened, seen, out, flushed,
                 health>>

(* The head of the scan loop and of the record loop.                       *)
Observes == pc = "scan" \/ (pc = "print" /\ next <= Len(merged))

StopCancelled ==
  /\ Observes
  /\ cancelled # 0
  /\ Exit(128 + cancelled)
  /\ UNCHANGED <<argv, opt, world, scanVars, opened, seen, out, flushed,
                 health>>

(* slurp: open and size one file.                                          *)
OpenFile ==
  /\ pc = "read"
  /\ files # <<>>
  /\ LET p == Head(files) IN
       \/ /\ content[p] = NoFile
          /\ scanError' = TRUE
          /\ files' = Tail(files)
          /\ Goto("read")
          /\ UNCHANGED <<remaining, early>>
       \/ /\ content[p] # NoFile
          /\ FileBytes > remaining
          /\ Exit(4)
          /\ UNCHANGED <<scanError, files, remaining, early>>
       \/ /\ content[p] # NoFile
          /\ FileBytes <= remaining
          /\ remaining' = remaining - FileBytes
          /\ early' = visible[content[p]]
          /\ files' = <<content[p]>> \o Tail(files)
          /\ Goto("copy")
          /\ UNCHANGED scanError
  /\ UNCHANGED <<argv, opt, world, images, merged, next, matched, opened, seen,
                 out, flushed, health>>

(* slurp: the bytes are copied while the writer goes on, so what was       *)
(* committed since the file was opened is in the image or not; addSegment  *)
(* on the image, which may find damage.  The file keeps its segment when   *)
(* its name changes.                                                       *)
CopyFile ==
  /\ pc = "copy"
  /\ \E new \in SUBSET (visible[Head(files)] \ early), torn \in BOOLEAN :
       LET s == Head(files)
           got == early \cup new
       IN  \/ /\ HeaderItem \notin got
              /\ scanError' = TRUE
              /\ UNCHANGED <<images, opened>>
           \/ /\ HeaderItem \in got
              /\ images' = Append(images, Image(s, got \ {HeaderItem}, torn))
              /\ opened' = TRUE
              /\ UNCHANGED scanError
  /\ files' = Tail(files)
  /\ early' = {}
  /\ Goto("read")
  /\ UNCHANGED <<argv, opt, world, remaining, merged, next, matched, seen, out,
                 flushed, health>>

(* The file cannot be read to its end; bounded as what the world does.     *)
CopyFails ==
  /\ pc = "copy"
  /\ moves < MaxMoves
  /\ moves' = moves + 1
  /\ scanError' = TRUE
  /\ files' = Tail(files)
  /\ early' = {}
  /\ Goto("read")
  /\ UNCHANGED <<argv, opt, content, visible, broken, late, cancelled,
                 remaining, images, opened, merged, next, matched, seen, out,
                 flushed, health>>

(* A wait refuses a scan that may have missed something.                   *)
Incomplete(totals) ==
  /\ Waits
  /\ scanError \/ totals.unreadable \/ totals.undecodable # 0

MergeScan ==
  /\ pc = "read"
  /\ files = <<>>
  /\ LET totals == Totals(images) IN
     \E all \in {Merged(images)} :
       IF Len(all) > opt.maxRecords
       THEN Exit(4) /\ UNCHANGED <<merged, health>>
       ELSE /\ merged' = all
            /\ health' = [health EXCEPT
                 !.scans = TRUE,
                 !.records = Len(all),
                 !.inputErrorSeen = @ \/ scanError,
                 !.undecodable = totals.undecodable,
                 !.unreadable = totals.unreadable]
            /\ IF Incomplete(totals) THEN Exit(1) ELSE Goto("print")
  /\ UNCHANGED <<argv, opt, world, files, remaining, early, images, scanError,
                 next, matched, opened, seen, out, flushed>>

-----------------------------------------------------------------------------
(* The record loop.                                                        *)

(* Fault: a record is known by its process and its offset alone.           *)
KeyWithoutGeneration(r) == <<r.pid, r.off>>

Key(r) == <<r.pid, r.generation, r.off>>

wanted(r) ==
  LET m == Messages[r.seg][r.off] IN
  /\ m.severity >= opt.minimum
  /\ opt.correlation \in {NoFilter, m.correlation}
  /\ opt.subsystems = {} \/ m.subsystem \in opt.subsystems
  /\ opt.argUint.value # NoFilter =>
       /\ opt.argUint.index < Len(m.args)
       /\ m.args[opt.argUint.index + 1] =
            [unsigned |-> TRUE, value |-> opt.argUint.value]

Overdue == opt.waitMs > 0 /\ late

(* The deadline passes while records are being looked at.                  *)
StopLate ==
  /\ pc = "print"
  /\ next <= Len(merged)
  /\ cancelled = 0
  /\ Overdue
  /\ Exit(3)
  /\ UNCHANGED <<argv, opt, world, scanVars, opened, seen, out, flushed,
                 health>>

Known(r) == opt.follow /\ Key(r) \in seen

Looks ==
  /\ pc = "print"
  /\ next <= Len(merged)
  /\ cancelled = 0
  /\ ~Overdue

SkipKnown ==
  /\ Looks
  /\ Known(merged[next])
  /\ next' = next + 1
  /\ UNCHANGED <<argv, opt, pc, exit, world, files, remaining, early, images,
                 scanError, merged, matched, opened, seen, out, flushed,
                 health>>

CursorIsFull == opt.follow /\ Cardinality(seen) >= opt.maxRecords

CursorFull ==
  /\ Looks
  /\ ~Known(merged[next])
  /\ CursorIsFull
  /\ Exit(4)
  /\ UNCHANGED <<argv, opt, world, scanVars, opened, seen, out, flushed,
                 health>>

(* A record not met before: its key is kept whether it is wanted or not.   *)
Meets ==
  /\ Looks
  /\ ~Known(merged[next])
  /\ ~CursorIsFull
  /\ seen' = IF opt.follow THEN seen \cup {Key(merged[next])} ELSE seen

SkipUnwanted ==
  /\ Meets
  /\ ~wanted(merged[next])
  /\ next' = next + 1
  /\ UNCHANGED <<argv, opt, pc, exit, world, files, remaining, early, images,
                 scanError, merged, matched, opened, out, flushed, health>>

OutputIsFull == LineBytes > opt.maxOutputBytes - LineBytes * Len(out)

OutputFull ==
  /\ Meets
  /\ wanted(merged[next])
  /\ OutputIsFull
  /\ Exit(4)
  /\ UNCHANGED <<argv, opt, world, scanVars, opened, out, flushed, health>>

(* The line goes into the buffer of stdout; a wait ends its scan with it.  *)
PrintRecord ==
  /\ Meets
  /\ wanted(merged[next])
  /\ ~OutputIsFull
  /\ out' = Append(out, <<merged[next].seg, merged[next].off>>)
  /\ health' = [health EXCEPT !.emitted = @ + 1]
  /\ matched' = TRUE
  /\ next' = IF Waits THEN Len(merged) + 1 ELSE next + 1
  /\ UNCHANGED <<argv, opt, pc, exit, world, files, remaining, early, images,
                 scanError, merged, opened, flushed>>

WriteFails ==
  /\ Meets
  /\ wanted(merged[next])
  /\ ~OutputIsFull
  /\ broken
  /\ Exit(1)
  /\ UNCHANGED <<argv, opt, world, scanVars, opened, out, flushed, health>>

(* Fault: nobody looks at what the flush returned.                         *)
FlushUnchecked ==
  flushed' = IF broken THEN flushed ELSE Len(out)

(* What is in the buffer leaves the process.                               *)
Flush ==
  /\ ~broken \/ flushed = Len(out)
  /\ flushed' = Len(out)

FlushFails ==
  /\ pc = "print"
  /\ next > Len(merged)
  /\ broken
  /\ flushed < Len(out)
  /\ Exit(1)
  /\ UNCHANGED <<argv, opt, world, scanVars, opened, seen, out, flushed,
                 health>>

LastScan == ~opt.follow \/ (Waits /\ matched)

(* Fault: the deadline is only looked at between records.                  *)
EndScanForever ==
  /\ pc = "print"
  /\ next > Len(merged)
  /\ Flush
  /\ IF LastScan THEN Exit(IF opened THEN 0 ELSE 1) ELSE Goto("pause")
  /\ UNCHANGED <<argv, opt, world, scanVars, opened, seen, out, health>>

EndScan ==
  /\ pc = "print"
  /\ next > Len(merged)
  /\ Flush
  /\ CASE LastScan -> Exit(IF opened THEN 0 ELSE 1)
       [] ~LastScan /\ Waits /\ late -> Exit(3)
       [] OTHER -> Goto("pause")
  /\ UNCHANGED <<argv, opt, world, scanVars, opened, seen, out, health>>

(* Fault: the records of the last scan are gone through again.             *)
WakeWithoutScan ==
  /\ pc = "pause"
  /\ next' = 1
  /\ Goto("print")
  /\ UNCHANGED <<argv, opt, world, files, remaining, early, images, scanError,
                 merged, matched, opened, seen, out, flushed, health>>

(* The pause is over.                                                      *)
Wake ==
  /\ pc = "pause"
  /\ Goto("scan")
  /\ UNCHANGED <<argv, opt, world, scanVars, opened, seen, out, flushed,
                 health>>

-----------------------------------------------------------------------------
(* What happens around the program.                                        *)

tool == <<argv, opt, pc, exit, scanVars, opened, seen, out, flushed, health>>

Move ==
  /\ pc \notin {"parse", "exit"}
  /\ moves < MaxMoves
  /\ moves' = moves + 1
  /\ UNCHANGED tool

(* A file gets the name p: it is new, renamed, copied or put back.         *)
Appear(s, p) ==
  /\ Move
  /\ content[p] = NoFile
  /\ content' = [content EXCEPT ![p] = s]
  /\ UNCHANGED <<visible, broken, late, cancelled>>

Vanish(p) ==
  /\ Move
  /\ content[p] # NoFile
  /\ content' = [content EXCEPT ![p] = NoFile]
  /\ UNCHANGED <<visible, broken, late, cancelled>>

(* A writer commits: the header before everything, the definitions before  *)
(* the messages.  Of two messages the one behind can be readable first,    *)
(* also of one thread: a signal handler commits into another chunk while   *)
(* the call it interrupted has yet to.                                     *)
Commit(s, i) ==
  /\ Move
  /\ i \notin visible[s]
  /\ i # HeaderItem => HeaderItem \in visible[s]
  /\ i > 0 => 0 \in visible[s]
  /\ visible' = [visible EXCEPT ![s] = @ \cup {i}]
  /\ UNCHANGED <<content, broken, late, cancelled>>

Tick ==
  /\ pc # "exit"
  /\ opt.waitMs > 0
  /\ late' = TRUE
  /\ UNCHANGED <<tool, content, visible, broken, cancelled, moves>>

(* cancel(): the signal handler.                                           *)
Cancel(signal) ==
  /\ Move
  /\ cancelled = 0
  /\ cancelled' = signal
  /\ UNCHANGED <<content, visible, broken, late>>

BreakOutput ==
  /\ Move
  /\ ~broken
  /\ broken' = TRUE
  /\ UNCHANGED <<content, visible, late, cancelled>>

Done == pc = "exit" /\ UNCHANGED vars

-----------------------------------------------------------------------------
Step ==
  \/ ParseOption \/ ParseEnd
  \/ BeginScan \/ StopCancelled \/ OpenFile \/ CopyFile \/ MergeScan
  \/ StopLate \/ SkipKnown \/ CursorFull \/ SkipUnwanted
  \/ OutputFull \/ PrintRecord
  \/ FlushFails \/ EndScan \/ Wake

Fails == ListFails \/ CopyFails \/ WriteFails

World ==
  \/ \E s \in Segments, p \in Paths : Appear(s, p)
  \/ \E p \in Paths : Vanish(p)
  \/ \E s \in Segments : \E i \in All(s) : Commit(s, i)
  \/ Tick
  \/ \E signal \in Signals : Cancel(signal)
  \/ BreakOutput

Next == Step \/ Fails \/ World \/ Done

(* The program goes on, and time does.                                     *)
Spec == Init /\ [][Next]_vars /\ WF_vars(Step) /\ WF_vars(Tick)

-----------------------------------------------------------------------------
Named(p) == \E i \in DOMAIN opt.inputs : opt.inputs[i] \in {Dir, p}

(* The record is in the file of a path the program was given.              *)
Readable(s, o) ==
  /\ {HeaderItem, 0, o} \subseteq visible[s]
  /\ \E p \in Paths : content[p] = s /\ Named(p)

Printed(s, o) == \E i \in DOMAIN out : out[i] = <<s, o>>

(* While following, a record is printed once, however often its file is    *)
(* scanned, renamed, copied or put back, and what is printed was committed *)
(* by its writer and passes every filter (the cursor of run, wanted).      *)
PrintsOnce ==
  /\ opt.follow => IsInjective(out)
  /\ \A i \in DOMAIN out :
       /\ out[i][2] \in visible[out[i][1]]
       /\ wanted([seg |-> out[i][1], off |-> out[i][2]])

(* A scan leaves nothing behind: when the program pauses, or has ended a   *)
(* snapshot, every wanted record of the images it read is printed -- those *)
(* of another segment of the same process at the same offset, and those    *)
(* older than what was printed before, included -- or the health report    *)
(* counts records that could not be decoded.                               *)
NothingMissed ==
  pc = "pause" \/ (pc = "exit" /\ exit = 0 /\ ~opt.helpOnly /\ ~Waits) =>
    \A i \in DOMAIN images : \A o \in images[i].items \ {0} :
      \/ ~wanted([seg |-> images[i].seg, off |-> o])
      \/ Printed(images[i].seg, o)
      \/ health.undecodable > 0

(* The clocks behind the stamps: a stamp put on its segment's anchor is    *)
(* within Skew of the instant, what coarse ticks, the two readings of the  *)
(* anchor and adjustments of the clocks amount to; none is past the width  *)
(* of a stamp.  Stamps may tie, and within a thread run backwards: between *)
(* the reservation of a record and its stamp a handler may emit.           *)
ClocksAgree ==
  \A s \in Segments : \A o \in Offsets(s) :
    LET m == Messages[s][o] h == Headers[s] IN
    /\ m.instant \in Nat
    /\ m.mono >= h.mono =>
         /\ h.wall + (m.mono - h.mono) <= m.instant + Skew
         /\ m.instant <= h.wall + (m.mono - h.mono) + Skew
    /\ h.wall + m.mono < Word

ReadOnce(s) ==
  \A i, j \in DOMAIN images : images[i].seg = s /\ images[j].seg = s => i = j

(* Each scan is in the order in which records were written, as far as the  *)
(* clocks told it: records that were not stamped before their segment's    *)
(* anchor by the instants at which they were written, those of one thread  *)
(* of a segment by their stamps, where these are equal by their offsets    *)
(* unless the file was read under two names.  Records of equal time are    *)
(* ordered by process, thread and stamp, whatever the order of their files *)
(* (Merger::merged).                                                       *)
ScansAreInOrder ==
  \A i, j \in DOMAIN merged :
    LET a == merged[i] b == merged[j] IN i < j =>
      /\ (a.mono >= Headers[a.seg].mono /\ b.mono >= Headers[b.seg].mono) =>
           Messages[a.seg][a.off].instant
             <= Messages[b.seg][b.off].instant + 2 * Skew
      /\ (a.seg = b.seg /\ a.thread = b.thread) =>
           /\ a.mono <= b.mono
           /\ a.mono = b.mono /\ ReadOnce(a.seg) => a.off < b.off
      /\ a.aligned = b.aligned =>
           /\ a.pid <= b.pid
           /\ a.pid = b.pid => /\ a.thread <= b.thread
                               /\ a.thread = b.thread => a.mono <= b.mono

(* The exit code tells what happened: 0 is a scan that opened a segment    *)
(* and whose every line left the process -- with --wait-ms exactly one,    *)
(* from a scan without damage --, 3 a deadline with nothing printed, and   *)
(* the health report counts the lines that were printed (run, main).       *)
ExitTells ==
  pc = "exit" =>
    /\ (exit = 0 /\ ~opt.helpOnly) =>
         /\ opened
         /\ flushed = Len(out)
         /\ Waits => /\ Len(out) = 1
                     /\ ~health.unreadable
                     /\ health.undecodable = 0
                     /\ ~health.inputErrorSeen
    /\ exit = 3 => Waits /\ late /\ out = <<>>
    /\ exit > 128 => cancelled # 0
    /\ health.emitted = Len(out)

(* A wanted record that stays readable while the program follows is        *)
(* printed, whichever scan first decodes it (run: the cursor keeps keys of *)
(* decoded records only).                                                  *)
Received ==
  \A s \in Segments : \A o \in Offsets(s) :
    (/\ pc \notin {"parse", "exit"} /\ opt.follow
     /\ Readable(s, o) /\ wanted([seg |-> s, off |-> o])) ~>
      (Printed(s, o) \/ ~Readable(s, o) \/ pc = "exit")

(* A program that refuses to go on (4) was given a limit, whatever         *)
(* accumulated before it: files, bytes, records, keys, lines.              *)
Ended == pc = "exit" /\ (exit = 4 => \E l \in Limits : opt[l] < DefaultLimit)

(* A snapshot, a wait and a cancelled program end, and no program ends     *)
(* because of a limit it was not given (run).                              *)
FiniteRunsEnd ==
  (pc = "exit" \/ (pc # "parse" /\ (~opt.follow \/ Waits \/ cancelled # 0)))
    ~> Ended

=============================================================================
