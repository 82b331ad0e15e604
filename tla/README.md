# Sub0Log, modelled and checked

Sub0Log is a header-only logging library whose producers write binary records
straight into a memory-mapped *segment* and whose readers decode that segment
afterwards, while it is still being written, or after the producer was killed.
Nothing formats, allocates or locks on the way in. The hard part is therefore
what other loggers leave to a queue and a lock: a record has to exist completely
or not at all, whichever store was the last one before a kill and whichever
thread was between which two stores.

This directory holds TLA+ modules for that protocol, for the readers and the
tool built on them, for the plugin boundary, for what surrounds an emission on
its thread and for the capture of child processes; the TLC configurations that
check them on small instances; and proofs of their main invariants that TLAPS
checks for every instance.

## The system

| Part | State it keeps | Operations | Used by |
|---|---|---|---|
| Emit path (`log.hpp`, `detail/emit.hpp`, `site.hpp`) | announced key of each call site | `emitRecord`, `writeSiteDefinitionCore`, `reserveChain`, `emitChained` | application threads |
| Logger (`instance.hpp`) | active pointer, thread-local writer cache, thresholds, counters | `create`, `currentWriter`, `refillWriter`, `countDrop`, `countTruncation`, `declareSubsystem`, `ScopedBind`, fork handler | emit path, child capture, ABI host |
| Segment (`segment.hpp`) | mapped bytes, geometry, chunk cursor | `create`, `createInMemory`, `claimChunk` | Logger |
| Chunk writer (`chunk.hpp`) | offset into one chunk, owned by one thread | `reserve`, `commit` | emit path |
| Atomics (`detail/atomics.hpp`) | none | head word store/load, cursor claim; two arms (64-bit, split 32-bit) | all of the above, reader |
| Wire format (`wire.hpp`) | none | layouts, padding, size classes, header checksum | all |
| Argument encoding (`encode.hpp`) | none | sizes and bytes of arguments | emit path |
| Segment reader (`reader.hpp`) | damage and unwritten counts | `open`, `visit` | decoder |
| Decoder (`reader.hpp`) | site and name tables, pending chain, counters | `decodeAll`, `format` | merger, tools |
| Merger (`merge.hpp`) | decoded segments, totals | `addSegment`, `merged` | `sub0log-cat` |
| Plugin ABI host (`abi_host.hpp`) | lock-free announce table | `DefineSite`, `HostEmit` | plugins |
| Child capture (`child.hpp`) | pipes, two capture threads, line buffers | `spawn`, `captureLoop`, `wait` | application |
| Correlation (`context.hpp`) | a thread-local id | scopes, environment hand-over | emit path, child capture |
| `sub0log-cat` (`tools/`) | cursor of the records met, health counters | snapshot, `--follow`, `--wait-ms`, filters, limits | people and scripts |

Parts interact by direct calls on the producer side; a producer and a reader
share nothing but the bytes of the segment. The hard behaviours are:
threads racing for chunks; a kill between any two stores; a chain of records
published as one; a site announced by one thread and used by another or by the
next Logger; a segment that runs out; a reader given damaged, truncated or
recycled bytes; a reader of a segment that is changing; plugins racing in a
table of relaxed atomics; a signal handler or a fork in the middle of it all; a
child process that dies, blocks or is half started; a tool that follows files
while they are written, renamed and removed.
`PROJECT.json` lists them as hazards, each at its line and with the properties
that would catch it.

What makes each part correct:

* Emit path, Logger, segment, chunk writer: a chunk has one owner; a record is
  committed after its payload, a chain after all its records, and then never
  changes; nothing committed is unreachable for a reader; a segment holds the
  definition of every site it has a message of; each call is one record or one
  counted drop, and returns.
* Reader and decoder: no byte outside the image is read, every byte is accounted
  for once, every walk ends; the result is the whole messages of the stream, and
  whatever is missing from it is counted.
* ABI host: the same self-description and accounting for plugins; one slot per site.
* Child capture: every line of the child is read and accounted for, wherever a
  read divides it; start and exit records enclose the lines; nothing is left
  behind by a failure; nobody waits for ever.
* Logger and correlation on one thread: a handler and a fork cost no record, a
  forked child stays out of its parent's segment, a record carries the activity
  of its call and a spawned child joins the one it was given.
* Argument encoding: what is written is what was sized, and decodes to what was
  passed or says that it was cut.
* Merger and `sub0log-cat`: the order of writing as far as the clocks tell it,
  every record once and none missed, an exit code that tells what happened.

## Modules

| Module | Models |
|---|---|
| `Producer` | the emit path, chunk writer, claim and Logger cache, one action per step another thread, a reader or a kill can fall between; fault variants used to test the properties stand before the definitions they vary |
| `CallLedger` | the abstract promise: each call is one readable record or one counted drop |
| `ProducerInv` | the inductive invariant of `Producer` |
| `ProducerProofs` | its theorems, whole chains and the refinement of `CallLedger` among them |
| `SegmentVisit` | `SegmentReader::open` and `visit`, to the byte, over untrusted images |
| `SegmentVisitProofs` | its invariant and theorems |
| `Decoder` | both callbacks of `decodeAll`, chain reassembly and the counters, as operators |
| `DecodeStream` | `decodeAll` over any stream of records |
| `SegmentImage` | what a reader finds in `Producer`'s memory |
| `KillRead` | `Producer` composed with `Decoder` at every possible kill |
| `LiveRead` | `Producer` composed with a reader stepping through the live memory |
| `KillReadInv` | the inductive invariant of `KillRead` |
| `LiveReadInv` | the inductive invariants of `LiveRead`, of what is readable and of the reader |
| `DecodeProofs` | theorems about `decodeAll`: over any stream, over the segment of a killed process, over a segment that is being written |
| `AbiHost` | the host side of the plugin ABI: `define_site`, `emit_record` and the announce table, one action per atomic operation |
| `AbiHostInv`, `AbiHostProofs` | its inductive invariants, of the table and of the accounts, and theorems |
| `LineSplitter` | how a capture thread cuts a child's output into lines |
| `ChildCapture` | `spawn()` with every failure, the capture threads, `wait()`, the child and a grandchild |
| `ChildCaptureProofs` | its inductive invariant and theorems |
| `ThreadContext` | one thread's binds and scopes, a handler that emits over an emission, a forked and a spawned child |
| `ThreadContextProofs` | its inductive invariants, of the scopes and of the records, and theorems |
| `Merge` | `Merger`: alignment, order, totals, as operators |
| `FollowCat` | `sub0log-cat` over files that change while it scans them |
| `FollowCatInv`, `FollowCatProofs` | its inductive invariant and theorems |
| `CommandLine` | quoting of a Windows command line, and its splitting by the child |
| `EncodeArgs` | one call's arguments, encoded inline, chained or cut, and decoded |
| `Conversions` | `LineSplitter`, `CommandLine` and `EncodeArgs` side by side, for one run over their inputs |
| `CollectionLemmas` | lemmas about sums over finite sets, sequences joined and sets put in order, and the induction they need |
| `MCProducer`, `MCKillRead`, `MCLiveRead`, `MCAbiHost`, `MCChildCapture`, `MCFollowCat` | values of constants for TLC |

The `...Proofs` modules stand on the modules they extend; `KillRead` and `LiveRead` compose `Producer`, `SegmentImage` and
`Decoder`; `FollowCat` builds on `Merge`; the others stand alone.

### Producer

State. `cursor` is the `next_chunk` word of each segment header; `stamp`, `head`
and `payload` are the segment memory: the owner in each chunk header and the head
word and payload of the i-th record reserved in each chunk. `key` is
`announcedKey_` of each site. Per thread: `cache` (the `WriterCache` with its
`ChunkWriter`), `pc`, `job` (the call), `held` (the reservation) and `stored`
(head words already stored). `attempts` counts calls, `dropped` and `truncated`
are the Logger's counters.

Actions.

| Action | Code |
|---|---|
| `EmitRecord`, `DeclareSubsystem` | entry of `emitRecord` with the relaxed key load; `writeSubsystemDefinition` |
| `CurrentWriter`, `RefillWriter` | the two Logger functions up to the atomic claim |
| `StampHeader` | the rest of `claimChunk` |
| `Reserve` | the first try in the current chunk: whole call or refill |
| `Retry` | the second try in a fresh chunk: whole call, shortened definition, Message alone, or drop |
| `CountDrop` | `countDrop` and return |
| `FillPayload` | all payload stores of the call |
| `Commit` | one head word: Continuations first, in order, the Message last; with the last one the truncation counter |
| `Announce` | the key store, after which the call goes on to its Message |

Abstractions. A size is a number of 8-byte units; a call is a `Shape` (footprint
of its first record, number of Continuations, whether an argument exceeds the
ceiling of `encode.hpp`). All Continuations of an instance have one footprint. A
shortened definition may get any size between its bare fields and the chunk,
which includes the one the code computes. Announce keys and generations are
taken to be unique per Logger: they are 64 random bits, or a counter on the split
arm. `ChunkCount = 0` covers a segment that could not be created. A relaxed key
load returns the last value stored: each key is one location, and a key that is
older than that only causes a second definition, which `Producer` has anyway when
two threads race. The relaxed store of a key (`emit.hpp:600`) takes effect in
program order. For the image a process leaves behind that is what happens to a
reader that starts after its death. For a live reader it is an assumption: on a
weakly ordered machine a thread that finds the key of another thread can commit a
Message that a reader sees before it sees the head word of that other thread's
definition, and the Message is undecodable until it does. A payload remembers the
number of the call it belongs to, for the properties only.

### SegmentVisit

The variables are those of `visit()`, in bytes, plus four that only observe:
`legible` (chunk header bytes), `delivered` (record bytes), `touched` (furthest
byte looked at) and `intact` (everything found so far is what a `Segment` of this
geometry writes). The walk reads each header and head word once, so what it finds
is chosen when it is read; the choices of a behaviour make up the image. The
checksum test, a stale generation and an unknown size class have the same effect
and are one action, `ForeignChunk`.

### Decoder, DecodeStream, SegmentImage, KillRead, LiveRead

A record is its kind, whether its head promises a Continuation, whether its
payload is legible, its site and a name. `DecodeStream` feeds every stream of up
to `MaxLength` records through both passes. `KillRead` decodes the image of every
reachable state of `Producer`: a kill adds no step, it only stops them, and what
`MAP_SHARED` memory holds then is the state. `LiveRead` interleaves the reads of
two visits with the producer's steps. There a chunk header in the middle of its
plain 32-byte store can be seen as absent, torn, or claimed, and a head word is
two loads; on the split arm it is also two stores.

### AbiHost

`slotSite` is the key of each slot of the announce table. The generations are
kept as what a relaxed load may return: `view[<<t, k>>]` is the set of values
thread `t` may still load from slot `k`. Its own store leaves one value; the store
of another thread adds one, since nothing orders it before the thread's next
load. In the same way a thread may load the zero key of a claimed slot until it
has met the claimed one (`saw`). Per thread `pc`, `job` and `probe` are the call
and its position in the walk; `defs` and `messages` say which segments hold
which sites; the counters are those of the Logger and of the module.

| Action | Code |
|---|---|
| `Bind` | `ScopedBind` entered or left, on any thread at any time |
| `DefineSite`, `Emit` | entry of the two functions up to the captured Logger and the threshold |
| `CountUnbound` | the increment in `countUnboundEmit`, after its load |
| `WriteDefinition` | `writeSiteDefinitionCore`, whose inner steps are in `Producer` |
| `Claim`, `StoreGeneration` | one turn of the loop of `record()`; its store |
| `Lookup`, `LoadGeneration` | one turn of the loop of `generationFor()`; its load and the comparison |
| `Refuse`, `WriteMessage` | `countDrop`; the rest of `sub0logAbiHostEmit` |

`Bind` is freer than the documentation allows a host to be ("bind before
spawning"): the safety properties hold without that discipline. The hash is a
constant function of the site, so that collisions are chosen and not computed.

### LineSplitter and ChildCapture

`LineSplitter` has the two variables that survive a `read()`, `carry` and
`discarding`, and takes the output in chunks of any size. Bytes are newline,
carriage return or other.

In `ChildCapture` the parent walks through `spawn()` and `wait()` (`pc`, with
`turn` as the stream it is at). A pipe is who holds its ends (`readEnd`,
`writers`) and the number of lines put in and taken out; who holds a write end
decides about end of file. The child and a grandchild that inherited its streams
write, block and end as they like. Each capture thread reads a line, counts it
and disposes of it. A thread that gives up after a read error or an exception is
noted in `broken`. Records are kept in the order of their commits. The failure
after the fork is the one the code has: starting a capture thread throws; the
catch handler runs, then the destructor of the half-built result. `windows` is
the arm that was built; it decides about the catch handler and about the causes
of a child's end. `taker` is who got the child's status. `wait()` is not alone in
wanting it: on POSIX a host that reaps every child, or that ignores SIGCHLD, takes
it away (`HostReaps`), so does the catch handler, and on Windows
`GetExitCodeProcess` may fail. `waitpid` then knows no such child, and the exit
record keeps its defaults, code 0 and no signal (`Collect`). Assumed is that the
system does not give the process id of a child the host has collected to another
child of the host before `wait()` asks for it.

### ThreadContext

One thread per process, a parent and at most one child. `active`, `detached` and
`binds` are `sActive_`, `sDetachedByFork_` and the `previous_` of the open
`ScopedBind`s; `corr` and `corrs` the same of `CorrelationScope`; `cache` the
`WriterCache`. `frames` is the stack of emissions: a handler puts a second one on
top. Records are one slot long, the segments of the parent's Loggers are shared
with a forked child, and `ledger` keeps what became of each call.

| Action | Code |
|---|---|
| `EnterBind`, `LeaveBind`, `EnterScope`, `LeaveScope` | the two scope classes |
| `Fork` | `fork()` with `detachForFork` as the child's handler |
| `Spawn` | the correlation part of `spawn()`: what goes into the environment |
| `Create` | `finishCreate` in a child: clears the fork flag, reads the environment |
| `Call`, `Interrupt` | an emission begun, by the thread or by a handler over it |
| `Claim`, `Assign` | `claimChunk`, and the assignment of the new writer field by field, in any order |
| `Load`, `Bump` | the two halves of `reserve()` |
| `Commit`, `CountDrop` | the record with its activity; the drop; the return |

`log.hpp` allows a handler to emit on a thread that has emitted before, because the
store sequence is async-signal-safe by construction. There are a few instructions
in which it is not: those in which the cache is neither as it was nor as it will be
(`Updating`). What a handler does there is followed and noted in `torn`, and the
properties speak of the behaviours without it. They have to: a handler that emits
between the load and the store of `offset_` in `reserve()` (`chunk.hpp:117` and `119`)
is given the slot of the call it interrupted, which then writes over the handler's
committed record. `RecordsStay` without `~torn` is violated in this way, with a warm
thread and a handler that returns, which is all `log.hpp` asks. A process that dies is not
an action: its image is the state it dies in. Creating a Logger whose segment
could not be made is left to `Producer` (`ChunkCount = 0`).

### Merge and FollowCat

A segment has a header with process, generation and anchor, and messages at
offsets; offset 0 stands for its definitions. A reading of a file is an *image*:
the offsets found committed, and whether damage was counted. `FollowCat` goes
through `parseArguments`, `collectSegments`, `slurp`, the merge and the record
loop; `argv`, `opt`, `seen`, `health`, `remaining`, `scanError`, `matched` and
`opened` are the code's variables, `out` the lines written and `flushed` how many
have left the process. Around it files appear, vanish and change names, writers
commit, the deadline passes (`late`), a signal arrives and the output breaks.
Opening and copying a file are two steps, and what is committed between them is
in the image or not, record by record. Any image may turn out damaged. A message can
become readable before one in front of it, since each thread writes into a chunk of
its own and a handler may commit into a fresh chunk while the call it interrupted
has yet to. Each message also has the instant it was written at, known to the
properties only.

What the order of a scan can mean depends on the clocks. `Skew` bounds how far a
stamp, put on the anchor of its segment, lies from the instant: the tick of a coarse
clock (`platform.hpp:585`), the time between the two readings that make an anchor,
an adjustment of a clock. Equal stamps and, after a handler that emitted between the
reservation of a record and its stamp (`emit.hpp:449` and `478`), stamps of one
thread that run backwards are part of the model. `ScansAreInOrder` therefore says:
records stamped after their anchor never stand against the order of their instants
by more than twice the skew; those of one thread of a segment stand by their stamps,
and where these are equal by their offsets, unless the file was read under two
names; and records of equal aligned time stand by process, thread and stamp.

### CommandLine, EncodeArgs and Conversions

`CommandLine` quotes every argument vector of a few characters and splits the
result by the rules documented for `CommandLineToArgvW` (which reads the program
name by other rules; the repository's test uses the uniform ones, and so does
this). `EncodeArgs` takes every call of up to two arguments of every kind
through `typeCodeFor`, the sizing, the writing and the decoding, in a chunk with
any of several rooms left. Bytes of numbers are digits to a small base, bytes of
text are all different, so that a swapped or repeated one shows. All lengths
and limits are constants, scaled down. `Conversions` runs one of the three at a
time.

## Runs

| Run | Instance | Shows |
|---|---|---|
| `ProducerRebind` | 2 threads, 2 Loggers, 1 site with a definition longer than a chunk, split atomics, 2 chunks of 3 units, 2 calls per Logger, with fairness | `DefinitionPrecedesMessage`, `EveryCallSettles`, and `KeepsLedger`: the refinement of `CallLedger` |
| `KillRead` | 2 threads, 2 chunks of 4 units, chains of 1, 2 and 4 Continuations, messages and names that fit or never do, 3 calls | `NothingHidden`, `ChainsAreWhole`, `CommittedIsFinal` of the memory; `KilledImageDecodes`, `CutIsFlagged` of its reading |
| `SegmentVisit` | 378 combinations of image size and declared geometry, real byte sizes, with fairness | `ReadsInsideImage`, `BytesAddUp`, `IntactHasNoDamage`, `VisitEnds` |
| `DecodeStream` | every stream of up to 4 records over 2 sites | `DecodesExactly`, `NothingSilent` |
| `LiveRead` | 2 threads and a reader, split atomics, 2 chunks of 3 units, 2 calls | `LiveNeverPartial`, `LiveSeesWhatWasThere` |
| `AbiHost` | 2 threads, 2 Loggers, 3 sites that hash to the last of 3 slots, walks of 2, 3 calls | `MessageIsDecodable`, `OneSlotPerSite`, `OwnDefinitionAccepted`, `CallsAddUp` |
| `ChildCapture` | POSIX and Windows, both streams, pipes of 1 line, 2 lines each, with and without a Logger, with fairness | `NothingLeaks`, `TailIsCaptured`, `LinesAddUp`, `RecordsInOrder`, `ExitIsReported`, `WaitReturns`, `PipesDrain` |
| `FollowCat` | 2 segments of one process id, one written after the clock was reset, with equal stamps of one thread, a stamp before its predecessor's and its anchor, and a tie between the segments; a skew of 1; 2 paths, 19 command lines, 5 starting points, 2 events around the program, with fairness | `PrintsOnce`, `NothingMissed`, `ScansAreInOrder`, `ExitTells`, `Received`, `FiniteRunsEnd` |
| `ThreadContext` | 1 Logger of the parent and 1 of the child, 2 chunks of 2 records, 4 emissions, 2 binds, 1 scope | `RecordsStay`, `ForkStaysOut`, `ActivityIsKept` |
| `Conversions` | every output of up to 6 bytes with every division into reads and a cap of 2; every argument vector of 7 characters; every call of up to 2 arguments in 49 combinations of room | `SplitsExactly`, `ArgvRoundTrips`, `ArgumentsRoundTrip`, `WritesWhatItReserved` |

Two runs state what a comment or a document says of the code and are violated by
it (the `findings` of `PROJECT.json`):

* `SignalDeath`: a handler that emits between the `reserve()` and the `commit()` of
  the emission it interrupted, and then lets the process die, leaves its record
  behind a zero head word, where no reader arrives. `RecordsStay` is what does
  hold: once the interrupted call returns, both records are there.
* `ChildExitStatus`: after a POSIX `spawn()` that failed to start a capture thread,
  the exit record of the killed child says exit code 0 and no signal. The same
  record comes from a host that collects its children itself (`HostReaps`) and from
  a `GetExitCodeProcess` that fails. `ExitIsReported` is what does hold: the record
  is written after the end and tells the end, or zero in exactly these three cases.

In these places too the code differs from its comment; the property that is
checked states what the code does:

* The store sequence is not async-signal-safe between the load and the store of
  `offset_` (`chunk.hpp:119`, against `log.hpp:16-19`): `RecordsStay` asks for `~torn`.
* An intact segment with 1 to 31 bytes left after its last chunk reports them as
  unreadable (`reader.hpp:412`, against the comment at 103): `IntactHasNoDamage`
  makes that exception.
* A live reader that meets the store of a chunk header or of a head word counts
  undamaged bytes as unreadable (`reader.hpp:435`, against
  `tests/system/concurrent_readers.test.cpp:56`): `unreadable` of `LiveRead`
  becomes true, and its properties hold all the same. A `--wait-ms` that meets such
  a moment ends with exit code 1 on a healthy segment.
* On Windows the process handle has moved to the result before the capture threads
  start, so the catch handler does not terminate the child (`child.hpp:1145`,
  against 1171-1173): `LeaveChild` models it, `NothingLeaks` holds because the
  destructor waits for the child to end by itself.
* `accountedBytes()` (`reader.hpp:140`) misses the headers of claimed chunks:
  `BytesAddUp` is the exact account.
* Continuations of an undecodable Message count as skipped (`reader.hpp:268`):
  `NothingSilent` gives the exact counts.
* A live reader can find a Message undecodable because its definition was written
  between the passes (`reader.hpp:693`): `LiveNeverPartial` and
  `LiveSeesWhatWasThere` promise nothing about a record that appeared later.
* The unbound counter does not stop at its cap (`instance.hpp:43`), because the check
  and the increment are two operations: `CallsAddUp` bounds the excess.
* A line of exactly the cap ended by CR LF is flagged truncated, ended by LF it is
  not (`child.hpp:475`): `SplitsExactly` is the rule the code follows.
* A fork inside nested `ScopedBind`s: leaving the inner one in the child puts the
  parent's Logger back, with the parent's cached chunk (`instance.hpp:242`).
  `ForkStaysOut` makes that exception, and `RecordsStay` speaks of children that
  did not do it.
* A reading before the anchor would wrap back to the right value if it were
  not saturated, rather than sort as the newest (`merge.hpp:151`);
  `ScansAreInOrder` says what the saturation leaves of the order.

And these the models follow without a property about them: `spawn()` with
`propagateCorrelation_` false leaves an inherited `SUB0LOG_CORRELATION` in place;
its fallback to the Logger's root id passes on what the environment holds anyway;
`--follow` with an explicit path that does not exist goes on looking for it; a
segment file whose header is not stamped yet is reported as not readable; on exits
with a code of 3 and more the output still buffered is left to the runtime, and
nobody learns whether it got through.

Bounds. Two threads are enough for a race on a claim, on a key and on the last
chunk; two chunks for a refill and for a spent segment; two Loggers for a stale
cache and a stale key. Chunks of 3 and 4 units make every outcome of a
reservation happen: it fits, fits only alone, fits only shortened, or does not
fit. `MaxEmits` bounds the calls and lets the segment run out in each run.
Streams of four records hold a definition, a chain with two Continuations and a
neighbour. Three sites in walks of two slots are the smallest table that is full,
with a walk that wraps around. Six bytes hold two lines at a cap of two, one of
them overlong and ended by CR LF; seven characters an argument with a blank, a
quote and backslashes before and after it, and another argument. Text lengths lie
at, before and past the inline cap and the ceiling; two arguments can both
overflow. Pipes of one line block their writer at the second. Four emissions are a
warm thread, an emission, a handler over it and one more, or the child's; two
chunks of two records are spent by them. In `FollowCat` two events around the
program (`MaxMoves`) are a file that goes and comes back, a commit during the copy
and one after, or a signal after a commit; the five starting points give what
longer histories would: an empty directory, a file without a record, both segments
complete, one segment under two names with a hole in it.

Deadlock is checked except in two runs: a call never blocks. `Quiet`, `Done` and
`Returned` stand for a program that has stopped logging, a tool that has ended and
a reader that has returned; `Finished` in `ChildCapture` for a `ChildProcess` that
is done with. `ThreadContext` may stop, since the calls of a program may, and so
may a conversion that has met its whole input.

Fairness. `FairSpec` of `Producer` asks weak fairness of each thread's steps
inside a call: every one of them is straight-line code, enabled by the program
counter alone, and the compare-exchange of the split arm is retried only when
another thread advanced the bounded cursor. Starting a call is not fair.
`SegmentVisit` asks it of a loop in one thread. `ChildCapture` asks it of the
parent inside `spawn()` or `wait()` and of each capture thread; not of the child,
which may block or run for ever, not of the call of `wait()`, and not of a failure.
`FollowCat` asks it of the program's own loop and of the clock; not of anything else
around it, and not of a failure.

Each property has a fault variant of the code (a dropped bound check, a swapped
commit order, a missing reset) under which TLC finds it violated; `mutants` in
`PROJECT.json` pairs them.

## Proofs

`ProducerProofs` proves, for every number of threads, Loggers, sites, chunks and
every size, from `SizesAssumption` and `NamesAssumption` alone:

* `TypeCorrect`, `Exclusion`, `CommitLast`, `CommittedIsReadable`,
  `SelfDescription`: the invariants `TypeOK`, `ExclusiveChunks`,
  `WrittenBeforeCommitted`, `NothingHidden`, `DefinitionPrecedesMessage`;
* `Finality`: the action property `CommittedIsFinal`.

None of them is inductive alone, because they speak of memory and memory is
written by threads whose local state says what they may write. `IInv` adds that
knowledge: a cached chunk is below its segment's cursor (`CacheInv`), a chunk above
it is untouched (`UnclaimedInv`), the slots of a thread's chunk are zero from its
offset on and committed before it except for its own reservation (`OwnSlotsInv`),
a reservation is stored in order with its first slot last over payloads already
written (`HeldInv`), and a site is known, to `key` or to a call past its
announcement, only if its definition is readable in that segment (`KnownInv`).
The proof has one lemma per action; `Invariance` combines them. With `IInv`, a
head word is only ever stored over a zero word, which is `Finality`.

The same module goes on from `IInv`. `WholeChains` (`ChainsAreWhole`) and
`LedgerIsKept` (`KeepsLedger`, the refinement) both need that a committed word tells
whose call it is: running calls have distinct numbers, and the number of a call is
in no committed Message before the call ends (`LedgerInv`). The refinement proof
sorts the steps of `Producer` into four kinds: a call begins, finishes with its
last head word, drops, or goes on; the first three are the actions of `CallLedger`
under the mapping of `KeepsLedger`, the last stutters. That a record stays readable
once it is, is where `NothingHidden` and the finality of head words come in.

`DecodeProofs` proves, of a segment that is being written, `NeverPartial`
(`LiveNeverPartial`) and `SeesWhatWasThere` (`LiveSeesWhatWasThere`): for any number of threads, sizes and lengths of chains and
any interleaving, what a reader decodes in place is whole messages, each once, and
all that could be read when it began. The reader synchronises with nobody, so its
invariant is written with the places that are readable *now*, and the step of a
producer cannot break it because such places are final. `WriterInv` of `ProducerInv`
adds to `LedgerInv` what a reader relies on: a call writes one Message (`UniqueInv`), only a
Message reserves several slots (`LoneInv`), and a Continuation in memory belongs to a
Message before it or to the thread about to store one (`TailInv`). From that a
promise made by a readable record is kept by the next one (`PromiseKept`), and a run
of readable records that ends without a promise is all of its message
(`RunIsWhole`). `ReaderInv` says that every slot the walk has left behind in its chunk
is readable (`WalkInv`), that the pending chain is the run up to the current slot
(`ChainInv`), that each result is a complete run the second visit is past and no two
start at one place (`ResultInv`), and that of every Message that was there at the
start the definition has been collected once the walk is past it, and the Message is
in the results or pending once the second visit is past it (`BeforeInv`): the two
visits together are why the order of definition and Message in the segment does not
matter. TLC found all its parts to hold on the instance of the run `LiveRead`.

The same module is about `decodeAll` by itself. `StreamDecodes` (`DecodesExactly`) and
`StreamTells` (`NothingSilent`) hold for streams of any length and any records:
the result is the whole messages, in order, and the two counters are exactly the
records that are missing from it. `StreamInv` says where the two passes are. In the
first, the tables hold the legible definitions so far and the counters the illegible
ones (`FirstDone`). In the second, the results are the messages completed so far in
the order of their Messages, the open chain is the one message that is sound and
incomplete, or there is none, and the counters hold every loss so far except
what is still pending (`Reached`). The counters are numbers of a set
of places, so each step has to show which places it adds.

`CutsAreFlagged` (`CutIsFlagged`) and `KilledDecodes` (`KilledImageDecodes`) speak of
the memory a killed process leaves, at any kill and for any sizes. `KillInv` knows
which Shape was asked of a call that runs (`AskedInv`), that what it reserved is that
Shape or was cut (`ReservedInv`), and that a Message in memory without the flag
promises exactly the Continuations of its Shape (`FlaggedInv`). `KilledDecodes` shows
that the image, which is chunk after chunk of flattened records, is a stream with
distinct places; that each Message in it is whole, which is `ChainsAreWhole`; that no
Continuation is an orphan, which is `TailInv`; that each site has its definition,
which is `DefinitionPrecedesMessage`. With these the theorem about streams leaves
nothing else as result than the messages committed. `DecodeAll` is recursive;
the proof reaches it by an induction over the number of records taken in the form
of `SetInduction` (below), for one stream at a time.

`SegmentVisitProofs` proves for every image and every declared geometry that no
subtraction of `visit()` goes below zero (`VisitTypes`), that nothing outside the
image (`StaysInside`) or the chunk (`StaysInChunk`) is read, and that the counts
add up (`Accounting`). The invariant says where the walk is and that damage,
unwritten space, headers and records so far are exactly the bytes passed.
`NoFalseDamage` (`IntactHasNoDamage`) adds that over an intact image the walk stands
at the start, plus a whole number of chunks, plus whole records (`IntactInv`,
`OnGrid`): it comes to the end of the claimable space exactly, so neither the cut
chunk at the end of the image nor the misplaced one is ever met.

`AbiHostProofs` proves, for any number of threads, Loggers, sites, slots and any
hash, from `TableAssumption` and `AbsentAssumption`: `AbiTypes`,
`AbiSelfDescription` (`MessageIsDecodable`), `SlotsAreUnique` (`OneSlotPerSite`)
and `OwnSitesAreAccepted` (`OwnDefinitionAccepted`). The argument of `TableInv` is
that keys are never removed: a slot once passed by a walk stays passed
(`WalksInv`), so a key stands at the end of its own walk (`KeysReachable`), which
is why two racing claims meet in one slot. A generation some thread may load
stands for a definition already in that segment (`GenerationsInv`), however old
the load. `SeenInv` and `ViewsInv` carry what a thread has itself seen, which is
what its own later lookup relies on.

`CallsAreAccounted` (`CallsAddUp`) adds `FiniteAssumption`, since it counts threads and
sums over Loggers, and a cap above zero (the code's is 1024). Its invariant,
`CountsInv`, says that a call without a Logger is not among the running ones
(`FreeInv`), and that the unbound counter together with the threads about to
increment it is exact until it reaches the cap (`UnboundInv`): a thread that passed
the check of the cap found the counter below it, so all that can be added beyond it
is one for each other thread that passed the check too.

`ThreadContextProofs` proves, for any Loggers, chunks and ids and any depth of
binds and scopes, from `ContextAssumption`: `ForkIsolation` (`ForkStaysOut`) and
`ActivityKept` (`ActivityIsKept`). `ContextInv` adds to `TypeOK` what the two need of
the state between steps: an emission under way goes through the bound Logger and
carries the activity of its call, an interrupted one the activity that the
handler's scope will restore (`FramesInv`); the environment and the Loggers hold the
activity they were given (`RootsInv`); the parent's outermost bind found nothing
bound, so that a child can find a Logger of its parent only below a second bind
(`BindsInv`); a child that was not made has done nothing (`UnbornInv`); no call is in
the ledger before it returns, and none twice (`LedgerInv`), without which the calls
of a child could not be added up.

`RecordsAreKept` (`RecordsStay`) needs a second invariant, which holds as long as no
handler interrupted an update of the `WriterCache` and no child intruded
(`KeptInv`). Then every segment has one process that writes to it, and the slots
of a chunk that hold a record or are reserved are its first ones (`FillInv`). The
writer of a thread stands right behind them (`WriterInv`), except while a new one is
being stored field by field, when the claimed chunk is blank and nobody else's
(`AssignInv`). An emission that was interrupted holds a slot or a chunk its handler
does not have (`PairInv`): it was between two steps at which that is so, which is
exactly what `Updating` excludes. A forked child inherits the writer and owns no
segment it points into. What breaks the condition, a torn writer or an intrusion,
lasts, so it held at every earlier state.

`ChildCaptureProofs` proves, for any choice of captured streams, any number of lines
and any size of a pipe, from `CaptureAssumption`: `NoLeaks`, `TailCaptured`,
`LinesCounted`, `RecordOrder` and `ExitReported`, one for each safety property of the
run. `CaptureInv` says for each place in `spawn()` and `wait()` who owns which end of
which pipe (`SpawnInv`, `WaitInv`); that a read end belongs to the thread that reads
it, and that a thread ends at end of file with everything read, or is noted as
broken (`ThreadInv`); that the child holds its write ends exactly while it runs
(`WritersInv`); that the start record is the first and the exit record the last, with
the child's end or with a zero somebody else's collecting explains (`LogInv`); and that each line taken is in one of the counters or in the hands of a
capture thread (`CountInv`).

`FollowCatProofs` proves, for any segments, paths, command lines, limits and numbers
of scans, `PrintedOnce` (`PrintsOnce`), `NothingLeftOut` (`NothingMissed`),
`ScansInOrder` (`ScansAreInOrder`) and `ExitIsTold` (`ExitTells`), while files appear,
vanish and change names, writers commit, signals come and the output breaks. The
assumptions are those of `Merge` and `FollowCat`: generations differ
(`GenerationsAssumption`; they are random 64-bit numbers), offsets are positive, the
directory is finite, an argument is one the parser can meet. `CatInv` has one part for
each thing the code relies on. An image holds nothing its segment did not
(`ImagesInv`), and once a scan is merged each message of a legible image is among its
records (`ShownInv`), no record before one that precedes it,
and those of a segment that tie in the order of their offsets (`SortedInv`). Whatever
wanted record the loop has passed is printed, unless a wait ended it (`PassedInv`).
`CursorInv` is the heart of it: while following, the lines are all different and their
keys are in `seen`; and of the wanted records `seen` holds only printed ones, or else
the program has ended with an error, so that a key taken before a write that fails
costs nothing in the scans that follow, because none do. `WaitInv` says that a wait
has printed nothing, or one line of a scan without damage with nothing left to do.

Only `ScansInOrder` has a hypothesis, `ClocksAgree`: a stamp that is not before its
anchor gives, on that anchor, the instant up to `Skew`, and no sum passes 2^64.
`MCFollowCat` states it as an assumption, so that TLC evaluates it on the instance.
It asks nothing of the stamps of one thread: that these never run backwards in a
scan, and that equal ones keep their offsets, follows from the comparison and from
the stability of the sort, which leaves records it cannot tell apart in the order in
which the segments were read (`Once`, `Behind`, `SortedKept`). A segment that is
given twice would interleave them, which is why that part speaks of a segment that
was read once.

The order is `std::stable_sort`, of which the model says what it returns: the k-th
record is the one with k - 1 others before it, by the order and then by the position
(`Ordered`, `StableSorted`). That this is a rearrangement of what was collected and
sorted is proved in `CollectionLemmas` for any weak order (`StableSorts`), by way of
the rank of an element in a finite strict order: ranks differ, stay below the number
of elements and therefore take each value once (`SortsIs`). `PrecedesIsWeak` is the
one fact it needs of `Merger`'s comparison: that it is a strict weak order, which is
also what the standard asks of a comparison for its sort to be defined.

`CollectionLemmas` is what several proofs rest on: the value of a sum over a finite
set, and what raising one term does to it; what `FlattenSeq` holds (`Flattened`); the
orders above. The induction theorems of the library take a predicate as a parameter,
which the provers cannot instantiate; `SetInduction` states induction over the
naturals for a set of numbers instead, and is proved from their well-ordering
(`Least`).

Only model-checked: everything under fairness (`EveryCallSettles`, `VisitEnds`,
`WaitReturns`, `PipesDrain`, `Received`, `FiniteRunsEnd`), which is out of the
prover's reach (that no program refuses to go on without having been given a limit is
part of `FiniteRunsEnd`: it holds because the default of every limit, `DefaultLimit`,
is more than the instance can reach, and so is about that instance); and the four of `Conversions`, which are about what folds and recursive functions over
sequences compute for inputs of every length.

## Plan

What is left, in this order:

1. Proofs: `SplitsExactly` of `LineSplitter`, by an induction over the chunks in the
   form of `SetInduction`.
2. Extensions: a second concurrent `spawn()` that inherits the first one's pipes;
   plugins that are unloaded and whose site addresses are used again; the
   subsystem thresholds.

## Not modelled

`json.hpp` and `Decoder::format` (rendering), `detail/platform.hpp` (system
calls), `severity.hpp`, `version.hpp`, the Windows environment block and the
command text in `child.hpp`, the text arms of `encodeArgs` (not reached from
`emitRecord`, which sends every call with text to `emitChained`), the text of
`sub0log-cat`'s lines and of its health report, moving of Loggers, Segments and
ChildProcesses, examples, benchmarks and firmware tests. Power loss is outside
the library's promise (it survives a process, not a machine) and outside these
models. Weak memory is modelled where the code relies on it: a release store of a
head word orders the payload before it, and a reader that sees the tag sees the
payload; plain stores that race are nondeterministic reads in `LiveRead`.
