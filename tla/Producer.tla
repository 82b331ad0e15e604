------------------------------ MODULE Producer ------------------------------
(***************************************************************************)
(* The producer path of Sub0Log: threads of one process emit records into  *)
(* the segments of the Loggers bound at the time (detail/emit.hpp,         *)
(* instance.hpp, chunk.hpp, segment.hpp, detail/atomics.hpp).              *)
(*                                                                         *)
(* Shared state is the chunk cursor of every segment, the segment memory   *)
(* and the announced key of every call site; everything else belongs to    *)
(* one thread.  One action is one step another thread, a reader or a kill  *)
(* can fall between: a claim, a header stamp, the payload writes, one head *)
(* word, one key store.  A kill is not an action: whatever holds in every  *)
(* reachable state holds of the image a kill leaves behind.                *)
(*                                                                         *)
(* Sizes are in units of the record alignment (8 bytes, wire.hpp).  The    *)
(* memory of a chunk body is a function from slot numbers: slot i stands   *)
(* for the i-th record reserved in the chunk, at the offset where the      *)
(* records before it end.                                                  *)
(***************************************************************************)
EXTENDS Naturals, FiniteSets

CONSTANTS
  Threads,         \* the emitting threads of the process
  Loggers,         \* Loggers created over the life of the process
  Sites,           \* call sites (SiteDescriptor objects)
  NoThread,        \* ownerThread_ of a chunk nobody stamped
  NoLogger,        \* a WriterCache without owner, a site never announced
  NoSite,          \* a payload that names no site
  ChunkCount,      \* chunks of a segment
  ChunkUnits,      \* units of a chunk body
  MaxRecordUnits,  \* the largest record whose length fits the head word
  SliceUnits,      \* footprint of one Continuation record
  DefUnits,        \* [Sites -> footprint of the whole SiteDefinition]
  DefMinUnits,     \* [Sites -> footprint with both strings cut to nothing]
  Shapes,          \* argument packs an emission may carry
  NameShapes,      \* subsystem names declareSubsystem may be given
  SplitAtomics,    \* the core has no 64-bit atomics
  MaxEmits         \* bound on the calls made on one Logger

(***************************************************************************)
(* What one call asks for: the footprint of its first record, the number   *)
(* of Continuation records its overflowing arguments need, and whether an  *)
(* argument was already cut at the ceiling of encode.hpp.                  *)
(***************************************************************************)
Shape == [msg : Nat \ {0}, conts : Nat, lossy : BOOLEAN]

ASSUME SizesAssumption ==
  /\ ChunkCount \in Nat
  /\ ChunkUnits \in Nat
  /\ MaxRecordUnits \in Nat
  /\ SliceUnits \in Nat \ {0}
  /\ DefUnits \in [Sites -> Nat \ {0}]
  /\ DefMinUnits \in [Sites -> Nat \ {0}]
  /\ Shapes \subseteq Shape
  /\ NameShapes \subseteq {m \in Shape : m.conts = 0}
  /\ SplitAtomics \in BOOLEAN
  /\ MaxEmits \in Nat

ASSUME NamesAssumption ==
  /\ NoThread \notin Threads
  /\ NoLogger \notin Loggers
  /\ NoSite \notin Sites

VARIABLES
  cursor,     \* [Loggers -> Nat]: next_chunk word of the segment header
  stamp,      \* owner thread in each chunk header, NoThread while all zero
  head,       \* head word of each slot of each chunk body
  payload,    \* payload of each slot
  key,        \* announcedKey_ of each site: the Logger it was announced to
  cache,      \* WriterCache of each thread
  pc,         \* where each thread is on the emit path
  job,        \* the call each thread is executing
  held,       \* the reservation each thread holds
  stored,     \* how many of its head words each thread has stored
  attempts,   \* calls started on each Logger
  dropped,    \* Stats::droppedRecords_ of each Logger
  truncated   \* Stats::truncatedRecords_ of each Logger

segmentVars == <<cursor, stamp, head, payload>>
counterVars == <<attempts, dropped, truncated>>
vars == <<cursor, stamp, head, payload, key, cache, pc, job, held, stored,
          attempts, dropped, truncated>>

-----------------------------------------------------------------------------
(* Segment memory.                                                         *)

Chunks == 1..ChunkCount
Slots == 1..ChunkUnits
Places == Loggers \X Chunks \X Slots
Kinds == {"def", "msg", "cont", "sub"}

(* A head word: the zero word, or a committed record's packed RecordHead.  *)
HeadWord == [kind : Kinds \cup {"none"}, more : BOOLEAN, trunc : BOOLEAN,
             units : Nat]
ZeroWord == [kind |-> "none", more |-> FALSE, trunc |-> FALSE, units |-> 0]

(* A payload, once written, names its site and (for the model only) the    *)
(* call it was written by.                                                 *)
Payload == [written : BOOLEAN, site : Sites \cup {NoSite}, call : Nat]
Blank == [written |-> FALSE, site |-> NoSite, call |-> 0]

Committed(l, c, i) == head[<<l, c, i>>].kind # "none"

Stamped(l, c) == stamp[<<l, c>>] # NoThread

(* The record a reader walking the chunk from its start gets to: the header*)
(* is stamped and no head word up to this one is zero.                     *)
Visible(l, c, i) ==
  /\ Stamped(l, c)
  /\ \A j \in 1..i : Committed(l, c, j)

-----------------------------------------------------------------------------
(* The calling thread.                                                     *)

Steps == {"idle", "current", "stamp", "reserve", "refill", "restamp",
          "retry", "fill", "commit", "announce", "drop"}

(* A call: the Logger it captured, the record it is writing now, the site  *)
(* and arguments, and the number of the call on that Logger.               *)
Job == [log : Loggers \cup {NoLogger}, kind : {"def", "msg", "sub"},
        site : Sites \cup {NoSite}, shape : Shape, call : Nat]
NoJob == [log |-> NoLogger, kind |-> "sub", site |-> NoSite,
          shape |-> [msg |-> 1, conts |-> 0, lossy |-> FALSE], call |-> 0]

(* chunk 0 is the invalid ChunkWriter; next is the slot the next reserve() *)
(* hands out and used its offset_.                                         *)
Cache == [owner : Loggers \cup {NoLogger}, chunk : 0..ChunkCount,
          next : Nat \ {0}, used : Nat]
NoCache == [owner |-> NoLogger, chunk |-> 0, next |-> 1, used |-> 0]

(* The slots first .. first + count - 1 of the thread's chunk, with the    *)
(* footprint and the truncation flag of the first.                         *)
Held == [first : Nat \ {0}, count : Nat, units : Nat, trunc : BOOLEAN]
NoHeld == [first |-> 1, count |-> 0, units |-> 0, trunc |-> FALSE]

HoldsSlots(t) == pc[t] \in {"fill", "commit"}

TypeOK ==
  /\ cursor \in [Loggers -> Nat]
  /\ stamp \in [Loggers \X Chunks -> Threads \cup {NoThread}]
  /\ head \in [Places -> HeadWord]
  /\ payload \in [Places -> Payload]
  /\ key \in [Sites -> Loggers \cup {NoLogger}]
  /\ cache \in [Threads -> Cache]
  /\ pc \in [Threads -> Steps]
  /\ job \in [Threads -> Job]
  /\ held \in [Threads -> Held]
  /\ stored \in [Threads -> Nat]
  /\ attempts \in [Loggers -> Nat]
  /\ dropped \in [Loggers -> Nat]
  /\ truncated \in [Loggers -> Nat]

Init ==
  /\ cursor = [l \in Loggers |-> 0]
  /\ stamp = [p \in Loggers \X Chunks |-> NoThread]
  /\ head = [p \in Places |-> ZeroWord]
  /\ payload = [p \in Places |-> Blank]
  /\ key = [s \in Sites |-> NoLogger]
  /\ cache = [t \in Threads |-> NoCache]
  /\ pc = [t \in Threads |-> "idle"]
  /\ job = [t \in Threads |-> NoJob]
  /\ held = [t \in Threads |-> NoHeld]
  /\ stored = [t \in Threads |-> 0]
  /\ attempts = [l \in Loggers |-> 0]
  /\ dropped = [l \in Loggers |-> 0]
  /\ truncated = [l \in Loggers |-> 0]

-----------------------------------------------------------------------------
(* Starting a call.                                                        *)

Goto(t, step) == pc' = [pc EXCEPT ![t] = step]

Start(t, l, kind, s, m) ==
  /\ pc[t] = "idle"
  /\ attempts[l] < MaxEmits
  /\ attempts' = [attempts EXCEPT ![l] = @ + 1]
  /\ job' = [job EXCEPT ![t] = [log |-> l, kind |-> kind, site |-> s,
                                shape |-> m, call |-> attempts[l] + 1]]
  /\ Goto(t, "current")
  /\ UNCHANGED <<segmentVars, key, cache, held, stored, dropped, truncated>>

(* Fault: a site is announced once per process, not once per segment.      *)
EmitAnnouncedOnce(t, l, s, m) ==
  Start(t, l, IF key[s] # NoLogger THEN "msg" ELSE "def", s, m)

(* emitRecord: l is what Logger::active() returned.  The relaxed load of   *)
(* the site's announced key decides whether the definition comes first.    *)
EmitRecord(t, l, s, m) ==
  Start(t, l, IF key[s] = l THEN "msg" ELSE "def", s, m)

(* declareSubsystem and the names given to create().                       *)
DeclareSubsystem(t, l, m) == Start(t, l, "sub", NoSite, m)

-----------------------------------------------------------------------------
(* Claiming a chunk.                                                       *)

(* claimChunkIndex: fetch_add counts refused claims too; the split arm's   *)
(* compare-exchange loop stops at the end.                                 *)
AdvancedCursor(n) == IF SplitAtomics /\ n >= ChunkCount THEN n ELSE n + 1

(* Fault: a spent segment starts over at its first chunk.                  *)
ClaimWrapped(n) == (n % ChunkCount) + 1

(* The chunk a claim that saw index n gets; 0 when the segment is spent.   *)
ClaimedChunk(n) == IF n < ChunkCount THEN n + 1 ELSE 0

(* The cursor step of Segment::claimChunk, whose result replaces the       *)
(* thread's cached writer.                                                 *)
ClaimChunk(t) ==
  LET l == job[t].log IN
  /\ cursor' = [cursor EXCEPT ![l] = AdvancedCursor(@)]
  /\ cache' = [cache EXCEPT ![t] = [owner |-> l,
                                    chunk |-> ClaimedChunk(cursor[l]),
                                    next |-> 1, used |-> 0]]

(* Fault: any cached writer is taken for this Logger's.                    *)
CacheIsAnyones(t) == cache[t].owner # NoLogger

(* The cached writer belongs to the Logger of this call.                   *)
CacheMatches(t) == cache[t].owner = job[t].log

(* Logger::currentWriter up to the claim.                                  *)
CurrentWriter(t) ==
  /\ pc[t] = "current"
  /\ \/ /\ CacheMatches(t)
        /\ Goto(t, "reserve")
        /\ UNCHANGED <<cursor, cache>>
     \/ /\ ~CacheMatches(t)
        /\ ClaimChunk(t)
        /\ Goto(t, IF cache'[t].chunk = 0 THEN "reserve" ELSE "stamp")
  /\ UNCHANGED <<stamp, head, payload, key, job, held, stored, counterVars>>

(* Fault: a thread waits for space instead of dropping.                    *)
RefillOrWait(t) ==
  /\ pc[t] = "refill"
  /\ \/ /\ cursor[job[t].log] < ChunkCount
        /\ ClaimChunk(t)
        /\ Goto(t, "restamp")
     \/ /\ cursor[job[t].log] >= ChunkCount
        /\ UNCHANGED <<cursor, cache, pc>>
  /\ UNCHANGED <<stamp, head, payload, key, job, held, stored, counterVars>>

(* Logger::refillWriter up to the claim; a refused claim is a drop.        *)
RefillWriter(t) ==
  /\ pc[t] = "refill"
  /\ ClaimChunk(t)
  /\ Goto(t, IF cache'[t].chunk = 0 THEN "drop" ELSE "restamp")
  /\ UNCHANGED <<stamp, head, payload, key, job, held, stored, counterVars>>

(* The rest of Segment::claimChunk: the ChunkHeader store.                 *)
StampHeader(t) ==
  /\ pc[t] \in {"stamp", "restamp"}
  /\ stamp' = [stamp EXCEPT ![<<cache[t].owner, cache[t].chunk>>] = t]
  /\ Goto(t, IF pc[t] = "stamp" THEN "reserve" ELSE "retry")
  /\ UNCHANGED <<cursor, head, payload, key, cache, job, held, stored,
                 counterVars>>

-----------------------------------------------------------------------------
(* Reserving.  reserve() moves only the thread's own offset_: the slots    *)
(* stay zero until their head words are stored.                            *)

Room(t) == ChunkUnits - cache[t].used

(* ChunkWriter::reserve accepts a record of this footprint.                *)
Fits(units, room) == units <= room /\ units <= MaxRecordUnits

(* The footprint of the first record of a call, and of all its records.    *)
HeadUnits(j) == IF j.kind = "def" THEN DefUnits[j.site] ELSE j.shape.msg
Conts(j) == IF j.kind = "msg" THEN j.shape.conts ELSE 0
Demand(j) == HeadUnits(j) + Conts(j) * SliceUnits

(* reserveChain decides by arithmetic that every record of the call fits   *)
(* before it reserves the first.                                           *)
ChainFits(j, room) == Demand(j) <= room /\ Fits(HeadUnits(j), room)

(* An argument past the ceiling, or a name past the inline cap, is flagged.*)
Lossy(j) == j.kind # "def" /\ j.shape.lossy

(* Takes n slots of u units in all; the first record is `first' units.     *)
TakeSlots(t, n, u, first, lossy) ==
  /\ held' = [held EXCEPT ![t] = [first |-> cache[t].next, count |-> n,
                                  units |-> first, trunc |-> lossy]]
  /\ cache' = [cache EXCEPT ![t] = [owner |-> @.owner, chunk |-> @.chunk,
                                    next |-> @.next + n, used |-> @.used + u]]
  /\ Goto(t, "fill")

TakeChain(t) ==
  LET j == job[t] IN
  TakeSlots(t, 1 + Conts(j), Demand(j), HeadUnits(j), Lossy(j))

(* The first try, in the thread's current chunk.                           *)
Reserve(t) ==
  /\ pc[t] = "reserve"
  /\ LET fit == cache[t].chunk # 0 /\ ChainFits(job[t], Room(t)) IN
     \/ fit /\ TakeChain(t)
     \/ ~fit /\ Goto(t, "refill") /\ UNCHANGED <<cache, held>>
  /\ UNCHANGED <<segmentVars, key, job, stored, counterVars>>

(* writeSiteDefinitionCore shortens the two strings of a definition too    *)
(* large for an empty chunk; any size down to the bare fields may result.  *)
TakeShortDefinition(t) ==
  /\ job[t].kind = "def"
  /\ \E u \in DefMinUnits[job[t].site]..Room(t) :
       Fits(u, Room(t)) /\ TakeSlots(t, 1, u, u, TRUE)

(* Fault: the chain that did not fit leaves its first slot reserved.       *)
TakeFlatAfterAbandoned(t) ==
  /\ job[t].kind = "msg"
  /\ Fits(job[t].shape.msg * 2, Room(t))
  /\ held' = [held EXCEPT ![t] = [first |-> 2, count |-> 1,
                                  units |-> job[t].shape.msg, trunc |-> TRUE]]
  /\ cache' = [cache EXCEPT ![t].next = 3, ![t].used = 2 * job[t].shape.msg]
  /\ Goto(t, "fill")

(* Fault: the fallback forgets that it cuts.                               *)
TakeFlatSilently(t) ==
  /\ job[t].kind = "msg"
  /\ Fits(job[t].shape.msg, Room(t))
  /\ TakeSlots(t, 1, job[t].shape.msg, job[t].shape.msg, Lossy(job[t]))

(* emitChained falls back to the Message alone, cut at the inline cap.     *)
TakeFlatMessage(t) ==
  /\ job[t].kind = "msg"
  /\ Fits(job[t].shape.msg, Room(t))
  /\ TakeSlots(t, 1, job[t].shape.msg, job[t].shape.msg, TRUE)

(* Neither the whole call nor a shortened form of it fits an empty chunk.  *)
NothingFits(t) ==
  LET j == job[t] IN
  /\ j.kind = "def" => ~Fits(DefMinUnits[j.site], Room(t))
  /\ j.kind = "msg" => ~Fits(j.shape.msg, Room(t))

(* The second try, in the chunk just claimed.                              *)
Retry(t) ==
  /\ pc[t] = "retry"
  /\ \/ ChainFits(job[t], Room(t)) /\ TakeChain(t)
     \/ /\ ~ChainFits(job[t], Room(t))
        /\ \/ TakeShortDefinition(t)
           \/ TakeFlatMessage(t)
           \/ NothingFits(t) /\ Goto(t, "drop") /\ UNCHANGED <<cache, held>>
  /\ UNCHANGED <<segmentVars, key, job, stored, counterVars>>

(* Logger::countDrop: the call is over and its one record is lost.         *)
CountDrop(t) ==
  /\ pc[t] = "drop"
  /\ dropped' = [dropped EXCEPT ![job[t].log] = @ + 1]
  /\ job' = [job EXCEPT ![t] = NoJob]
  /\ Goto(t, "idle")
  /\ UNCHANGED <<segmentVars, key, cache, held, stored, attempts, truncated>>

-----------------------------------------------------------------------------
(* Writing and committing.                                                 *)

HeldSlots(t) == held[t].first..(held[t].first + held[t].count - 1)

InFlight(t, l, c, i) ==
  /\ HoldsSlots(t)
  /\ cache[t].owner = l
  /\ cache[t].chunk = c
  /\ i \in HeldSlots(t)

OwnPayload(t) ==
  [written |-> TRUE, site |-> job[t].site, call |-> job[t].call]

(* Every payload of the call is stored before any of its head words.       *)
FillPayload(t) ==
  /\ pc[t] = "fill"
  /\ payload' = [p \in Places |-> IF InFlight(t, p[1], p[2], p[3])
                                  THEN OwnPayload(t) ELSE payload[p]]
  /\ Goto(t, "commit")
  /\ UNCHANGED <<cursor, stamp, head, key, cache, job, held, stored,
                 counterVars>>

(* Fault: head words are stored in the order they were reserved.           *)
CommitInOrder(t) == held[t].first + stored[t]

(* The slot whose head word is stored next: the Continuations first, in    *)
(* order, and the record that names them last.                             *)
NextCommit(t) ==
  IF stored[t] + 1 < held[t].count THEN held[t].first + stored[t] + 1
                                   ELSE held[t].first

LastCommit(t) == stored[t] + 1 = held[t].count

(* Fault: the last record of a chain promises another.                     *)
CommitHeadPromising(t, i) ==
  LET h == held[t] IN
  [kind |-> IF i = h.first THEN job[t].kind ELSE "cont",
   more |-> h.count > 1,
   trunc |-> i = h.first /\ h.trunc,
   units |-> IF i = h.first THEN h.units ELSE SliceUnits]

(* The head word of slot i of the call: cFlagContinued on every record of  *)
(* a chain but the last.                                                   *)
CommitHead(t, i) ==
  LET h == held[t]
      more == i + 1 < h.first + h.count
  IN  IF i = h.first
      THEN [kind |-> job[t].kind, more |-> more, trunc |-> h.trunc,
            units |-> h.units]
      ELSE [kind |-> "cont", more |-> more, trunc |-> FALSE,
            units |-> SliceUnits]

(* ChunkWriter::commit, and what the caller does once its record is out:   *)
(* countTruncation, then the key store for a definition.                   *)
Commit(t) ==
  /\ pc[t] = "commit"
  /\ head' = [head EXCEPT ![<<cache[t].owner, cache[t].chunk, NextCommit(t)>>]
                = CommitHead(t, NextCommit(t))]
  /\ \/ /\ ~LastCommit(t)
        /\ stored' = [stored EXCEPT ![t] = @ + 1]
        /\ UNCHANGED <<pc, job, held, truncated>>
     \/ /\ LastCommit(t)
        /\ stored' = [stored EXCEPT ![t] = 0]
        /\ held' = [held EXCEPT ![t] = NoHeld]
        /\ truncated' = [truncated EXCEPT ![job[t].log] =
                           IF held[t].trunc THEN @ + 1 ELSE @]
        /\ IF job[t].kind = "def"
           THEN Goto(t, "announce") /\ UNCHANGED job
           ELSE Goto(t, "idle") /\ job' = [job EXCEPT ![t] = NoJob]
  /\ UNCHANGED <<cursor, stamp, payload, key, cache, attempts, dropped>>

(* emitRecord records the segment's key and goes on to the Message.        *)
Announce(t) ==
  /\ pc[t] = "announce"
  /\ key' = [key EXCEPT ![job[t].site] = job[t].log]
  /\ job' = [job EXCEPT ![t] = [log |-> @.log, kind |-> "msg",
                                site |-> @.site, shape |-> @.shape,
                                call |-> @.call]]
  /\ Goto(t, "current")
  /\ UNCHANGED <<segmentVars, cache, held, stored, counterVars>>

-----------------------------------------------------------------------------

Call(t) ==
  \E l \in Loggers :
    \/ \E s \in Sites, m \in Shapes : EmitRecord(t, l, s, m)
    \/ \E m \in NameShapes : DeclareSubsystem(t, l, m)

(* A call never blocks: every step below is enabled from its program point *)
(* alone.                                                                  *)
Advance(t) ==
  \/ CurrentWriter(t)
  \/ RefillWriter(t)
  \/ StampHeader(t)
  \/ Reserve(t)
  \/ Retry(t)
  \/ CountDrop(t)
  \/ FillPayload(t)
  \/ Commit(t)
  \/ Announce(t)

(* The program may stop logging.                                           *)
Quiet == (\A t \in Threads : pc[t] = "idle") /\ UNCHANGED vars

Next == (\E t \in Threads : Call(t) \/ Advance(t)) \/ Quiet

Spec == Init /\ [][Next]_vars

(* A started call is a straight run of wait-free code, so a thread the     *)
(* scheduler keeps running finishes it.                                    *)
FairSpec == Spec /\ \A t \in Threads : WF_vars(Advance(t))

-----------------------------------------------------------------------------
(* What has to hold.                                                       *)

(* Two threads never write into the same chunk of a segment: the claim     *)
(* hands every chunk to one thread (segment.hpp, claimChunk).              *)
ExclusiveChunks ==
  \A t, u \in Threads :
    t # u /\ cache[t].chunk # 0 /\ cache[t].owner = cache[u].owner =>
      cache[t].chunk # cache[u].chunk

(* Commit last: a head word is stored only over a payload that is          *)
(* completely written (chunk.hpp, commit).                                 *)
WrittenBeforeCommitted ==
  \A l \in Loggers, c \in Chunks, i \in Slots :
    Committed(l, c, i) => payload[<<l, c, i>>].written

(* A committed record is found by a reader that walks the chunk and stops  *)
(* at the first zero word, except while it is part of the one chain its    *)
(* thread has not finished committing (emit.hpp, reserveChain).            *)
NothingHidden ==
  \A l \in Loggers, c \in Chunks, i \in Slots :
    Committed(l, c, i) =>
      Visible(l, c, i) \/ \E t \in Threads : InFlight(t, l, c, i)

DefinitionVisible(l, s) ==
  \E c \in Chunks, i \in Slots :
    /\ Visible(l, c, i)
    /\ head[<<l, c, i>>].kind = "def"
    /\ payload[<<l, c, i>>].site = s

(* Strict self-description: a segment that holds a Message holds, readable,*)
(* the definition of its site, whichever threads wrote the two and         *)
(* whichever Loggers the process used before (emit.hpp, emitRecord).       *)
DefinitionPrecedesMessage ==
  \A l \in Loggers, c \in Chunks, i \in Slots :
    head[<<l, c, i>>].kind = "msg" =>
      DefinitionVisible(l, payload[<<l, c, i>>].site)

(* The chain of k Continuations that follows slot i.                       *)
Chain(l, c, i, k) ==
  /\ i + k \in Slots
  /\ \A j \in 1..k :
       /\ head[<<l, c, i + j>>].kind = "cont"
       /\ head[<<l, c, i + j>>].more = (j < k)
       /\ payload[<<l, c, i + j>>].call = payload[<<l, c, i>>].call

(* A chain is published whole or not at all: a committed record that       *)
(* promises Continuations has all of them, of its own call, directly after *)
(* it, and a Continuation a reader gets to follows the record that         *)
(* announced it (emit.hpp, emitChained).                                   *)
ChainsAreWhole ==
  \A l \in Loggers, c \in Chunks, i \in Slots :
    /\ head[<<l, c, i>>].kind # "cont" /\ head[<<l, c, i>>].more =>
         \E k \in 1..ChunkUnits : Chain(l, c, i, k)
    /\ head[<<l, c, i>>].kind = "cont" /\ Visible(l, c, i) =>
         i > 1 /\ head[<<l, c, i - 1>>].more

(* A committed record is never changed again.                              *)
CommittedIsFinal ==
  [][\A l \in Loggers, c \in Chunks, i \in Slots :
       Committed(l, c, i) =>
         /\ head'[<<l, c, i>>] = head[<<l, c, i>>]
         /\ payload'[<<l, c, i>>] = payload[<<l, c, i>>]]_vars

(* The record of call n on Logger l can be read.                           *)
Recorded(l, n) ==
  \E c \in Chunks, i \in Slots :
    /\ Visible(l, c, i)
    /\ head[<<l, c, i>>].kind \in {"msg", "sub"}
    /\ payload[<<l, c, i>>].call = n

Outcome(l, n) ==
  CASE n > attempts[l] -> "none"
    [] n <= attempts[l] /\ Recorded(l, n) -> "recorded"
    [] n <= attempts[l] /\ ~Recorded(l, n) ->
         IF \E t \in Threads : job[t].log = l /\ job[t].call = n
         THEN "pending" ELSE "dropped"

Ledger == INSTANCE CallLedger WITH
  Calls <- 1..MaxEmits,
  outcome <- [l \in Loggers |-> [n \in 1..MaxEmits |-> Outcome(l, n)]],
  lost <- dropped

(* The producer implements the ledger: a call becomes one readable record  *)
(* that stays, or one counted drop, never both and never neither (R9.1).   *)
KeepsLedger == Ledger!Spec

(* Every call returns, with its record or its drop accounted for.          *)
EveryCallSettles == Ledger!Settles

=============================================================================
