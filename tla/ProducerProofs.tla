--------------------------- MODULE ProducerProofs ---------------------------
(***************************************************************************)
(* Theorems about Producer, for every number of threads, Loggers, sites,   *)
(* chunks and every size of chunk and record: what its stores keep true of *)
(* segment memory, that every call ends in the ledger (Producer implements *)
(* CallLedger), and that what a reader can get to is whole messages.       *)
(***************************************************************************)
EXTENDS ProducerInv, SegmentImage, FiniteSetTheorems, SequenceTheorems,
        TLAPS

USE SizesAssumption
USE NamesAssumption

-----------------------------------------------------------------------------
(* Types.                                                                  *)

LEMMA ZeroTypes ==
  /\ ZeroWord \in HeadWord
  /\ Blank \in Payload
  /\ NoJob \in Job
  /\ NoCache \in Cache
  /\ NoHeld \in Held
BY DEF ZeroWord, HeadWord, Blank, Payload, NoJob, Job, NoCache, Cache, NoHeld,
       Held, Shape

LEMMA InitType == Init => TypeOK
BY ZeroTypes DEF Init, TypeOK, Steps

LEMMA StartType ==
  ASSUME TypeOK,
         NEW t \in Threads, NEW l \in Loggers, NEW m \in Shape,
         NEW kind \in {"def", "msg", "sub"}, NEW s \in Sites \cup {NoSite},
         Start(t, l, kind, s, m)
  PROVE  TypeOK'
<1>1. job'[t] \in Job
  BY DEF TypeOK, Start, Job
<1> QED
  BY <1>1 DEF TypeOK, Start, Goto, Steps, segmentVars

LEMMA AdvancedCursorNat ==
  ASSUME NEW n \in Nat
  PROVE  AdvancedCursor(n) \in Nat
<1>1. n + 1 \in Nat
  OBVIOUS
<1> QED
  BY <1>1, Zenon DEF AdvancedCursor

(* A thread past its idle point works for a Logger.                        *)
LEMMA BusyLogger ==
  ASSUME TypeOK, JobInv, NEW t \in Threads, pc[t] # "idle"
  PROVE  job[t].log \in Loggers
BY DEF TypeOK, JobInv, JobOK, Job

LEMMA ClaimType ==
  ASSUME TypeOK, NEW t \in Threads, job[t].log \in Loggers, ClaimChunk(t)
  PROVE  /\ cursor' \in [Loggers -> Nat]
         /\ cache' \in [Threads -> Cache]
         /\ cache'[t] = [owner |-> job[t].log,
                         chunk |-> ClaimedChunk(cursor[job[t].log]),
                         next |-> 1, used |-> 0]
<1>1. cursor' \in [Loggers -> Nat]
  <2>1. AdvancedCursor(cursor[job[t].log]) \in Nat
    BY AdvancedCursorNat DEF TypeOK
  <2> QED
    BY <2>1 DEF TypeOK, ClaimChunk
<1>2. cache' \in [Threads -> Cache]
  <2>1. [owner |-> job[t].log, chunk |-> ClaimedChunk(cursor[job[t].log]),
         next |-> 1, used |-> 0] \in Cache
    BY DEF TypeOK, ClaimedChunk, Cache, Job
  <2> QED
    BY <2>1 DEF TypeOK, ClaimChunk
<1>3. cache'[t] = [owner |-> job[t].log,
                   chunk |-> ClaimedChunk(cursor[job[t].log]),
                   next |-> 1, used |-> 0]
  BY DEF ClaimChunk, TypeOK
<1> QED
  BY <1>1, <1>2, <1>3

(* Sizes of a call are natural numbers.                                    *)
LEMMA DemandNat ==
  ASSUME TypeOK, JobInv, NEW t \in Threads
  PROVE  /\ HeadUnits(job[t]) \in Nat
         /\ Conts(job[t]) \in Nat
         /\ Demand(job[t]) \in Nat
         /\ Demand(job[t]) >= 1 + Conts(job[t])
<1>1. HeadUnits(job[t]) \in Nat \ {0}
  BY DEF TypeOK, JobInv, JobOK, Job, Shape, HeadUnits
<1>2. Conts(job[t]) \in Nat
  BY DEF TypeOK, Job, Shape, Conts
<1>3. ASSUME NEW n \in Nat
      PROVE  n * SliceUnits \in Nat /\ n * SliceUnits >= n
  <2>1. SliceUnits \in Nat /\ SliceUnits >= 1
    OBVIOUS
  <2> QED
    BY <2>1
<1>4. ASSUME NEW h \in Nat \ {0}, NEW n \in Nat
      PROVE  h + n * SliceUnits \in Nat /\ h + n * SliceUnits >= 1 + n
  BY <1>3
<1> QED
  BY <1>1, <1>2, <1>4 DEF Demand

LEMMA TakeSlotsType ==
  ASSUME TypeOK, NEW t \in Threads, NEW n \in Nat, NEW u \in Nat,
         NEW first \in Nat, NEW lossy \in BOOLEAN,
         TakeSlots(t, n, u, first, lossy)
  PROVE  /\ held' \in [Threads -> Held]
         /\ cache' \in [Threads -> Cache]
         /\ pc' \in [Threads -> Steps]
<1>1. [owner |-> cache[t].owner, chunk |-> cache[t].chunk,
       next |-> cache[t].next + n, used |-> cache[t].used + u] \in Cache
  BY DEF TypeOK, Cache
<1>2. [first |-> cache[t].next, count |-> n, units |-> first,
       trunc |-> lossy] \in Held
  BY DEF TypeOK, Cache, Held
<1>3. held' \in [Threads -> Held]
  BY <1>2 DEF TypeOK, TakeSlots
<1>4. cache' \in [Threads -> Cache]
  BY <1>1 DEF TypeOK, TakeSlots
<1>5. pc' \in [Threads -> Steps]
  BY DEF TypeOK, TakeSlots, Goto, Steps
<1> QED
  BY <1>3, <1>4, <1>5

LEMMA TakeChainType ==
  ASSUME TypeOK, JobInv, NEW t \in Threads, TakeChain(t)
  PROVE  /\ held' \in [Threads -> Held]
         /\ cache' \in [Threads -> Cache]
         /\ pc' \in [Threads -> Steps]
<1>1. Lossy(job[t]) \in BOOLEAN
  BY DEF TypeOK, Job, Shape, Lossy
<1>2. 1 + Conts(job[t]) \in Nat
  BY DemandNat
<1> QED
  BY <1>1, <1>2, DemandNat, TakeSlotsType DEF TakeChain

LEMMA FillPayloadType ==
  ASSUME TypeOK, NEW t \in Threads, FillPayload(t)
  PROVE  TypeOK'
<1>1. OwnPayload(t) \in Payload
  BY DEF TypeOK, OwnPayload, Payload, Job
<1>2. payload' \in [Places -> Payload]
  BY <1>1 DEF TypeOK, FillPayload
<1> QED
  BY <1>2 DEF TypeOK, FillPayload, Goto, Steps, counterVars

LEMMA CommitHeadType ==
  ASSUME TypeOK, NEW t \in Threads, NEW i
  PROVE  CommitHead(t, i) \in HeadWord
<1> DEFINE more == i + 1 < held[t].first + held[t].count
<1>1. more \in BOOLEAN
  OBVIOUS
<1>2. /\ held[t].trunc \in BOOLEAN
      /\ held[t].units \in Nat
      /\ job[t].kind \in Kinds
  BY DEF TypeOK, Held, Job, Kinds
<1> HIDE DEF more
<1>3. [kind |-> job[t].kind, more |-> more, trunc |-> held[t].trunc,
       units |-> held[t].units] \in HeadWord
  BY <1>1, <1>2 DEF HeadWord
<1>4. [kind |-> "cont", more |-> more, trunc |-> FALSE,
       units |-> SliceUnits] \in HeadWord
  BY <1>1 DEF HeadWord, Kinds
<1> QED
  BY <1>3, <1>4 DEF CommitHead, more

LEMMA CommitType ==
  ASSUME TypeOK, NEW t \in Threads, Commit(t)
  PROVE  TypeOK'
<1>1. head' \in [Places -> HeadWord]
  BY CommitHeadType DEF TypeOK, Commit
<1>2. held' \in [Threads -> Held]
  BY ZeroTypes DEF TypeOK, Commit
<1>3. stored' \in [Threads -> Nat]
  BY DEF TypeOK, Commit
<1>4. truncated' \in [Loggers -> Nat]
  BY DEF TypeOK, Commit
<1>5. pc' \in [Threads -> Steps]
  BY DEF TypeOK, Commit, Goto, Steps
<1>6. job' \in [Threads -> Job]
  BY ZeroTypes DEF TypeOK, Commit
<1> QED
  BY <1>1, <1>2, <1>3, <1>4, <1>5, <1>6 DEF TypeOK, Commit

LEMMA TypeStep == TypeOK /\ JobInv /\ [Next]_vars => TypeOK'
<1> SUFFICES ASSUME TypeOK, JobInv, [Next]_vars
             PROVE  TypeOK'
  OBVIOUS
<1>1. ASSUME NEW t \in Threads, Call(t)
      PROVE  TypeOK'
  <2>1. ASSUME NEW l \in Loggers, NEW s \in Sites, NEW m \in Shapes,
               EmitRecord(t, l, s, m)
        PROVE  TypeOK'
    BY <2>1, StartType DEF EmitRecord
  <2>2. ASSUME NEW l \in Loggers, NEW m \in NameShapes,
               DeclareSubsystem(t, l, m)
        PROVE  TypeOK'
    BY <2>2, StartType DEF DeclareSubsystem
  <2> QED
    BY <1>1, <2>1, <2>2 DEF Call
<1>2. ASSUME NEW t \in Threads, CurrentWriter(t)
      PROVE  TypeOK'
  <2>1. cursor' \in [Loggers -> Nat] /\ cache' \in [Threads -> Cache]
    BY <1>2, BusyLogger, ClaimType DEF CurrentWriter, TypeOK
  <2> QED
    BY <1>2, <2>1 DEF CurrentWriter, TypeOK, Goto, Steps, counterVars
<1>3. ASSUME NEW t \in Threads, RefillWriter(t)
      PROVE  TypeOK'
  <2>1. cursor' \in [Loggers -> Nat] /\ cache' \in [Threads -> Cache]
    BY <1>3, BusyLogger, ClaimType DEF RefillWriter
  <2> QED
    BY <1>3, <2>1 DEF RefillWriter, TypeOK, Goto, Steps, counterVars
<1>4. ASSUME NEW t \in Threads, StampHeader(t)
      PROVE  TypeOK'
  BY <1>4 DEF StampHeader, TypeOK, Goto, Steps, counterVars
<1>5. ASSUME NEW t \in Threads, Reserve(t)
      PROVE  TypeOK'
  <2>1. CASE TakeChain(t)
    BY <1>5, <2>1, TakeChainType
       DEF Reserve, TypeOK, segmentVars, counterVars
  <2>2. CASE Goto(t, "refill") /\ UNCHANGED <<cache, held>>
    BY <1>5, <2>2 DEF Reserve, TypeOK, Goto, Steps, segmentVars, counterVars
  <2> QED
    BY <1>5, <2>1, <2>2 DEF Reserve
<1>6. ASSUME NEW t \in Threads, Retry(t)
      PROVE  TypeOK'
  <2>1. CASE TakeChain(t)
    BY <1>6, <2>1, TakeChainType DEF Retry, TypeOK, segmentVars, counterVars
  <2>2. CASE TakeShortDefinition(t)
    <3>1. PICK u \in DefMinUnits[job[t].site]..Room(t) :
                 TakeSlots(t, 1, u, u, TRUE)
      BY <2>2 DEF TakeShortDefinition
    <3>2. u \in Nat
      BY <2>2 DEF TakeShortDefinition, TypeOK, JobInv, JobOK, Job
    <3> QED
      BY <1>6, <3>1, <3>2, TakeSlotsType
         DEF Retry, TypeOK, segmentVars, counterVars
  <2>3. CASE TakeFlatMessage(t)
    <3>1. job[t].shape.msg \in Nat
      BY DEF TypeOK, Job, Shape
    <3> QED
      BY <1>6, <2>3, <3>1, TakeSlotsType
         DEF Retry, TakeFlatMessage, TypeOK, segmentVars, counterVars
  <2>4. CASE Goto(t, "drop") /\ UNCHANGED <<cache, held>>
    BY <1>6, <2>4 DEF Retry, TypeOK, Goto, Steps, segmentVars, counterVars
  <2> QED
    BY <1>6, <2>1, <2>2, <2>3, <2>4 DEF Retry
<1>7. ASSUME NEW t \in Threads, CountDrop(t)
      PROVE  TypeOK'
  <2>1. job' \in [Threads -> Job]
    BY <1>7, ZeroTypes DEF CountDrop, TypeOK
  <2>2. dropped' \in [Loggers -> Nat]
    <3>1. job[t].log \in Loggers
      BY <1>7, BusyLogger DEF CountDrop
    <3>2. dropped[job[t].log] + 1 \in Nat
      BY <3>1 DEF TypeOK
    <3> QED
      BY <1>7, <3>2 DEF CountDrop, TypeOK
  <2> QED
    BY <1>7, <2>1, <2>2 DEF CountDrop, TypeOK, Goto, Steps, segmentVars
<1>8. ASSUME NEW t \in Threads, Announce(t)
      PROVE  TypeOK'
  BY <1>8 DEF Announce, TypeOK, Job, Goto, Steps, segmentVars, counterVars
<1>9. CASE UNCHANGED vars
  BY <1>9 DEF TypeOK, vars
<1> QED
  BY <1>1, <1>2, <1>3, <1>4, <1>5, <1>6, <1>7, <1>8, <1>9,
     FillPayloadType, CommitType
  DEF Next, Advance, Quiet

-----------------------------------------------------------------------------
(* What a step that leaves the segments alone leaves alone.                *)

LEMMA MemoryFrame ==
  ASSUME UNCHANGED <<stamp, head, payload>>
  PROVE  /\ \A l, c, i : Committed(l, c, i)' <=> Committed(l, c, i)
         /\ \A l, c : Stamped(l, c)' <=> Stamped(l, c)
         /\ \A l, c, i : Visible(l, c, i)' <=> Visible(l, c, i)
         /\ \A l, s : DefinitionVisible(l, s)' <=> DefinitionVisible(l, s)
         /\ WrittenBeforeCommitted => WrittenBeforeCommitted'
         /\ DefinitionPrecedesMessage => DefinitionPrecedesMessage'
<1>1. \A l, c, i : Committed(l, c, i)' <=> Committed(l, c, i)
  BY DEF Committed
<1>2. \A l, c, i : Visible(l, c, i)' <=> Visible(l, c, i)
  BY DEF Visible, Stamped, Committed
<1>3. \A l, s : DefinitionVisible(l, s)' <=> DefinitionVisible(l, s)
  BY <1>2 DEF DefinitionVisible
<1>4. WrittenBeforeCommitted => WrittenBeforeCommitted'
  BY <1>1 DEF WrittenBeforeCommitted
<1>5. DefinitionPrecedesMessage => DefinitionPrecedesMessage'
  BY <1>3 DEF DefinitionPrecedesMessage
<1>6. \A l, c : Stamped(l, c)' <=> Stamped(l, c)
  BY DEF Stamped
<1> QED
  BY <1>1, <1>2, <1>3, <1>4, <1>5, <1>6

(* What a thread knows of its reservation survives the steps of others     *)
(* that leave its slots alone.                                             *)
LEMMA HeldFrame ==
  ASSUME NEW u \in Threads, HeldOK(u),
         cache'[u] = cache[u], held'[u] = held[u], stored'[u] = stored[u],
         pc'[u] = pc[u], job'[u] = job[u],
         \A i \in HeldSlots(u) :
           /\ head'[<<cache[u].owner, cache[u].chunk, i>>]
                = head[<<cache[u].owner, cache[u].chunk, i>>]
           /\ payload'[<<cache[u].owner, cache[u].chunk, i>>]
                = payload[<<cache[u].owner, cache[u].chunk, i>>]
  PROVE  HeldOK(u)'
<1>1. \A i : CommitHead(u, i)' = CommitHead(u, i)
  BY DEF CommitHead
<1>2. OwnPayload(u)' = OwnPayload(u)
  BY DEF OwnPayload
<1>3. HeldSlots(u)' = HeldSlots(u)
  BY DEF HeldSlots
<1>4. /\ held'[u].first + held'[u].count = cache'[u].next
      /\ stored'[u] < held'[u].count
  BY DEF HeldOK
<1>5. \A i \in HeldSlots(u)' :
        IF held'[u].first < i /\ i <= held'[u].first + stored'[u]
        THEN head'[<<cache'[u].owner, cache'[u].chunk, i>>] = CommitHead(u, i)'
        ELSE head'[<<cache'[u].owner, cache'[u].chunk, i>>].kind = "none"
  BY <1>1, <1>3 DEF HeldOK
<1>6. pc'[u] = "commit" =>
        \A i \in HeldSlots(u)' :
          payload'[<<cache'[u].owner, cache'[u].chunk, i>>] = OwnPayload(u)'
  BY <1>2, <1>3 DEF HeldOK
<1> QED
  BY <1>4, <1>5, <1>6 DEF HeldOK

(* A step that leaves memory, cache and reservations alone and neither     *)
(* enters nor leaves a point where slots are held.                         *)
LEMMA SlotFrame ==
  ASSUME IInv, NEW t \in Threads,
         UNCHANGED <<cursor, stamp, head, payload, cache, held, stored>>,
         \A u \in Threads : u # t => pc'[u] = pc[u] /\ job'[u] = job[u],
         pc[t] \notin {"fill", "commit"}, pc'[t] \notin {"fill", "commit"}
  PROVE  /\ ExclusiveChunks'
         /\ UnclaimedInv'
         /\ OwnSlotsInv'
         /\ HeldInv'
         /\ StoredInv'
         /\ WrittenBeforeCommitted'
         /\ NothingHidden'
         /\ DefinitionPrecedesMessage'
<1>1. \A u \in Threads : HoldsSlots(u)' <=> HoldsSlots(u)
  BY DEF HoldsSlots
<1>2. \A u \in Threads : \A l, c, i :
        InFlight(u, l, c, i)' <=> InFlight(u, l, c, i)
  BY <1>1 DEF InFlight, HeldSlots
<1>3. ExclusiveChunks'
  BY DEF IInv, ExclusiveChunks
<1>4. UnclaimedInv'
  BY MemoryFrame DEF IInv, UnclaimedInv
<1>5. OwnSlotsInv'
  BY <1>2, MemoryFrame DEF IInv, OwnSlotsInv, OwnSlotsOK, HasChunk
<1>6. HeldInv'
  <2> SUFFICES ASSUME NEW u \in Threads, HoldsSlots(u)'
               PROVE  HeldOK(u)'
    BY DEF HeldInv
  <2>1. HeldOK(u) /\ u # t
    BY <1>1 DEF IInv, HeldInv, HoldsSlots
  <2> QED
    BY <2>1, HeldFrame
<1>7. StoredInv'
  BY DEF IInv, StoredInv
<1>8. NothingHidden'
  BY <1>2, MemoryFrame DEF IInv, NothingHidden
<1> QED
  BY <1>3, <1>4, <1>5, <1>6, <1>7, <1>8, MemoryFrame DEF IInv

LEMMA StartStep ==
  ASSUME IInv, NEW t \in Threads, NEW l \in Loggers, NEW m \in Shape,
         NEW kind \in {"def", "msg", "sub"}, NEW s \in Sites \cup {NoSite},
         Start(t, l, kind, s, m),
         s \in Sites <=> kind # "sub",
         kind = "msg" => DefinitionVisible(l, s)
  PROVE  IInv'
<1>1. TypeOK'
  BY StartType DEF IInv
<1>2. /\ UNCHANGED <<cursor, stamp, head, payload, key, cache, held, stored>>
      /\ pc[t] = "idle"
      /\ pc' = [pc EXCEPT ![t] = "current"]
      /\ job' = [job EXCEPT ![t] = [log |-> l, kind |-> kind, site |-> s,
                                    shape |-> m, call |-> attempts[l] + 1]]
  BY DEF Start, Goto, segmentVars
<1>3. JobInv'
  BY <1>2 DEF IInv, JobInv, JobOK, TypeOK
<1>4. CacheInv'
  BY <1>2 DEF IInv, CacheInv, CacheOK, TypeOK, HasChunk
<1>5. KnownInv'
  BY <1>2, MemoryFrame DEF IInv, KnownInv, TypeOK
<1> QED
  BY <1>1, <1>2, <1>3, <1>4, <1>5, SlotFrame DEF IInv, TypeOK

-----------------------------------------------------------------------------
(* Claims.                                                                 *)

(* A claim that succeeds takes the chunk right after the ones claimed.     *)
LEMMA ClaimFacts ==
  ASSUME NEW n \in Nat
  PROVE  /\ AdvancedCursor(n) >= n
         /\ ClaimedChunk(n) # 0 => /\ ClaimedChunk(n) = n + 1
                                   /\ ClaimedChunk(n) \in Chunks
                                   /\ AdvancedCursor(n) = n + 1
<1>1. CASE n >= ChunkCount
  <2>1. ClaimedChunk(n) = 0
    BY <1>1 DEF ClaimedChunk
  <2>2. AdvancedCursor(n) = n \/ AdvancedCursor(n) = n + 1
    BY Zenon DEF AdvancedCursor
  <2> QED
    BY <2>1, <2>2
<1>2. CASE ~(n >= ChunkCount)
  <2>1. AdvancedCursor(n) = n + 1
    BY <1>2, Zenon DEF AdvancedCursor
  <2> QED
    BY <1>2, <2>1 DEF ClaimedChunk, Chunks
<1> QED
  BY <1>1, <1>2

LEMMA ClaimStep ==
  ASSUME IInv, NEW t \in Threads, ClaimChunk(t), NEW p \in Steps,
         UNCHANGED <<stamp, head, payload, key, job, held, stored,
                     attempts, dropped, truncated>>,
         pc[t] \in {"current", "refill"},
         pc' = [pc EXCEPT ![t] = p],
         cache'[t].chunk = 0 => p \in {"reserve", "drop"},
         cache'[t].chunk # 0 => p \in {"stamp", "restamp"}
  PROVE  IInv'
<1> DEFINE l == job[t].log
           n == cursor[l]
<1>1. l \in Loggers
  BY BusyLogger DEF IInv
<1>2. TypeOK'
  BY <1>1, ClaimType DEF IInv, TypeOK
<1>3. /\ n \in Nat
      /\ cursor' = [cursor EXCEPT ![l] = AdvancedCursor(n)]
      /\ cursor[l] <= cursor'[l]
      /\ cache'[t].owner = l
      /\ cache'[t].chunk = ClaimedChunk(n)
      /\ cache'[t].next = 1
      /\ cache'[t].used = 0
      /\ \A u \in Threads : u # t => cache'[u] = cache[u]
  BY <1>1, ClaimType, ClaimFacts DEF IInv, TypeOK, ClaimChunk
<1>4. \A k \in Loggers : cursor[k] \in Nat /\ cursor'[k] \in Nat
                          /\ cursor[k] <= cursor'[k]
  BY <1>1, <1>2, <1>3 DEF IInv, TypeOK
<1>5. cache'[t].chunk # 0 => /\ cache'[t].chunk = cursor[l] + 1
                             /\ cache'[t].chunk \in Chunks
                             /\ cursor'[l] = cursor[l] + 1
  BY <1>1, <1>3, ClaimFacts DEF IInv, TypeOK
<1> HIDE DEF l, n
<1>6. /\ pc'[t] = p
      /\ \A u \in Threads : u # t => pc'[u] = pc[u]
  BY DEF IInv, TypeOK
<1>7. JobInv'
  BY <1>6 DEF IInv, JobInv, JobOK
<1>8. CacheInv'
  <2> SUFFICES ASSUME NEW u \in Threads
               PROVE  CacheOK(u)'
    BY DEF CacheInv
  <2>1. cache[u].chunk \in Nat /\ cache'[u].chunk \in Nat
    BY <1>2 DEF IInv, TypeOK, Cache
  <2>2. CASE u = t
    <3>1. HasChunk(u)' => /\ cache'[u].owner \in Loggers
                          /\ cache'[u].chunk <= cursor'[cache'[u].owner]
      BY <2>1, <2>2, <1>1, <1>3, <1>4, <1>5 DEF HasChunk
    <3>2. cache'[u].owner = job'[u].log
      BY <2>2, <1>3 DEF l
    <3>3. /\ cache'[u].next <= cache'[u].used + 1
          /\ cache'[u].used <= ChunkUnits
          /\ cache'[u].next = 1
      BY <2>2, <1>3
    <3>4. HasChunk(u)' <=> pc'[u] \in {"stamp", "restamp"}
      BY <2>2, <1>6 DEF HasChunk
    <3>5. pc'[u] \in {"stamp", "restamp", "reserve", "drop"}
      BY <2>2, <1>6
    <3> QED
      BY <3>1, <3>2, <3>3, <3>4, <3>5 DEF CacheOK
  <2>3. CASE u # t
    <3>1. CacheOK(u)
      BY DEF IInv, CacheInv
    <3>2. /\ cache'[u] = cache[u] /\ pc'[u] = pc[u]
          /\ HasChunk(u)' <=> HasChunk(u)
      BY <2>3, <1>3, <1>6 DEF HasChunk
    <3>3. HasChunk(u) => cache[u].chunk <= cursor'[cache[u].owner]
      BY <2>1, <3>1, <1>4 DEF CacheOK
    <3> QED
      BY <3>1, <3>2, <3>3 DEF CacheOK
  <2> QED
    BY <2>2, <2>3
<1>9. ExclusiveChunks'
  <2>1. \A u \in Threads : cache[u].chunk \in Nat /\ cache'[u].chunk \in Nat
    BY <1>2 DEF IInv, TypeOK, Cache
  <2>2. ASSUME NEW u \in Threads, u # t, cache'[t].chunk # 0,
               cache'[u].owner = cache'[t].owner
        PROVE  cache'[u].chunk # cache'[t].chunk
    <3>1. cache'[u] = cache[u]
      BY <1>3, <2>2
    <3>2. cache[u].chunk # 0 => cache[u].chunk <= cursor[l]
      BY <1>3, <2>2, <3>1 DEF IInv, CacheInv, CacheOK, HasChunk
    <3> QED
      BY <1>1, <1>4, <1>5, <2>1, <2>2, <3>1, <3>2
  <2> SUFFICES ASSUME NEW u \in Threads, NEW v \in Threads, u # v,
                      cache'[u].chunk # 0, cache'[u].owner = cache'[v].owner
               PROVE  cache'[u].chunk # cache'[v].chunk
    BY DEF ExclusiveChunks
  <2>3. CASE u = t
    BY <2>2, <2>3
  <2>4. CASE v = t
    BY <2>2, <2>4
  <2>5. CASE u # t /\ v # t
    BY <2>5, <1>3 DEF IInv, ExclusiveChunks
  <2> QED
    BY <2>3, <2>4, <2>5
<1>10. UnclaimedInv'
  <2> SUFFICES ASSUME NEW k \in Loggers, NEW c \in Chunks, c > cursor'[k],
                      NEW i \in Slots
               PROVE  ~Committed(k, c, i)'
    BY DEF UnclaimedInv
  <2>1. c > cursor[k]
    BY <1>4 DEF Chunks
  <2> QED
    BY <2>1, MemoryFrame DEF IInv, UnclaimedInv
<1>11. /\ ~HoldsSlots(t) /\ ~HoldsSlots(t)'
       /\ \A u \in Threads : HoldsSlots(u)' <=> HoldsSlots(u)
       /\ \A u \in Threads : \A k, c, i :
            InFlight(u, k, c, i)' <=> InFlight(u, k, c, i)
  BY <1>3, <1>6 DEF HoldsSlots, InFlight, HeldSlots
<1>12. OwnSlotsInv'
  <2> SUFFICES ASSUME NEW u \in Threads, HasChunk(u)'
               PROVE  OwnSlotsOK(u)'
    BY DEF OwnSlotsInv
  <2>1. CASE u = t
    <3>1. /\ cache'[u].owner \in Loggers /\ cache'[u].chunk \in Chunks
          /\ cache'[u].chunk > cursor[cache'[u].owner]
      BY <2>1, <1>1, <1>3, <1>4, <1>5 DEF HasChunk
    <3>2. \A i \in Slots :
            head'[<<cache'[u].owner, cache'[u].chunk, i>>].kind = "none"
      BY <3>1 DEF IInv, UnclaimedInv, Committed
    <3> QED
      BY <2>1, <1>3, <3>2 DEF OwnSlotsOK, Committed, Slots
  <2>2. CASE u # t
    <3>1. cache'[u] = cache[u] /\ OwnSlotsOK(u)
      BY <2>2, <1>3 DEF IInv, OwnSlotsInv, HasChunk
    <3>2. \A i : InFlight(u, cache[u].owner, cache[u].chunk, i)' <=>
                 InFlight(u, cache[u].owner, cache[u].chunk, i)
      BY <2>2, <1>3, <1>6 DEF InFlight, HoldsSlots, HeldSlots
    <3> QED
      BY <3>1, <1>6, <2>2
         DEF OwnSlotsOK, Committed, InFlight, HoldsSlots, HeldSlots
  <2> QED
    BY <2>1, <2>2
<1>13. HeldInv'
  <2> SUFFICES ASSUME NEW u \in Threads, HoldsSlots(u)'
               PROVE  HeldOK(u)'
    BY DEF HeldInv
  <2>1. HeldOK(u) /\ u # t
    BY <1>11 DEF IInv, HeldInv
  <2> QED
    BY <2>1, <1>3, <1>6, HeldFrame
<1>14. StoredInv'
  BY <1>6 DEF IInv, StoredInv
<1>15. NothingHidden'
  BY <1>11, MemoryFrame DEF IInv, NothingHidden
<1>16. KnownInv'
  BY <1>6, MemoryFrame DEF IInv, KnownInv
<1> QED
  BY <1>2, <1>7, <1>8, <1>9, <1>10, <1>12, <1>13, <1>14, <1>15, <1>16,
     MemoryFrame
  DEF IInv

LEMMA CurrentWriterStep ==
  ASSUME IInv, NEW t \in Threads, CurrentWriter(t)
  PROVE  IInv'
<1>1. CASE CacheMatches(t) /\ Goto(t, "reserve") /\ UNCHANGED <<cursor, cache>>
  <2>1. /\ UNCHANGED <<cursor, stamp, head, payload, key, cache, job, held,
                       stored>>
        /\ pc[t] = "current"
        /\ pc' = [pc EXCEPT ![t] = "reserve"]
    BY <1>1 DEF CurrentWriter, Goto
  <2>2. TypeOK'
    BY <1>1, <2>1, TypeStep DEF IInv, Next, Advance
  <2>3. /\ pc'[t] = "reserve"
        /\ \A u \in Threads : u # t => pc'[u] = pc[u]
    BY <2>1 DEF IInv, TypeOK
  <2>4. JobInv'
    BY <2>1, <2>3 DEF IInv, JobInv, JobOK
  <2>5. CacheInv'
    BY <1>1, <2>1, <2>3 DEF IInv, CacheInv, CacheOK, HasChunk, CacheMatches
  <2>6. KnownInv'
    BY <2>1, <2>3, MemoryFrame DEF IInv, KnownInv
  <2> QED
    BY <2>1, <2>2, <2>3, <2>4, <2>5, <2>6, SlotFrame DEF IInv
<1>2. CASE /\ ClaimChunk(t)
           /\ Goto(t, IF cache'[t].chunk = 0 THEN "reserve" ELSE "stamp")
  <2> DEFINE p == IF cache'[t].chunk = 0 THEN "reserve" ELSE "stamp"
  <2>1. p \in Steps
    BY DEF Steps
  <2> QED
    BY <1>2, <2>1, ClaimStep DEF CurrentWriter, Goto, counterVars
<1> QED
  BY <1>1, <1>2 DEF CurrentWriter

LEMMA RefillWriterStep ==
  ASSUME IInv, NEW t \in Threads, RefillWriter(t)
  PROVE  IInv'
BY ClaimStep DEF RefillWriter, Goto, counterVars, Steps

LEMMA CountDropStep ==
  ASSUME IInv, NEW t \in Threads, CountDrop(t)
  PROVE  IInv'
<1>1. TypeOK'
  BY TypeStep DEF IInv, Next, Advance
<1>2. /\ UNCHANGED <<cursor, stamp, head, payload, key, cache, held, stored>>
      /\ pc[t] = "drop"
      /\ pc' = [pc EXCEPT ![t] = "idle"]
      /\ job' = [job EXCEPT ![t] = NoJob]
  BY DEF CountDrop, Goto, segmentVars
<1>3. JobInv'
  BY <1>2 DEF IInv, JobInv, JobOK, TypeOK, NoJob
<1>4. CacheInv'
  BY <1>2 DEF IInv, CacheInv, CacheOK, TypeOK, HasChunk
<1>5. KnownInv'
  BY <1>2, MemoryFrame DEF IInv, KnownInv, TypeOK, NoJob
<1> QED
  BY <1>1, <1>2, <1>3, <1>4, <1>5, SlotFrame DEF IInv, TypeOK

LEMMA AnnounceStep ==
  ASSUME IInv, NEW t \in Threads, Announce(t)
  PROVE  IInv'
<1>1. TypeOK'
  BY TypeStep DEF IInv, Next, Advance
<1>2. /\ UNCHANGED <<cursor, stamp, head, payload, cache, held, stored>>
      /\ pc[t] = "announce"
      /\ pc' = [pc EXCEPT ![t] = "current"]
      /\ key' = [key EXCEPT ![job[t].site] = job[t].log]
      /\ job' = [job EXCEPT ![t] = [log |-> job[t].log, kind |-> "msg",
                                    site |-> job[t].site,
                                    shape |-> job[t].shape,
                                    call |-> job[t].call]]
  BY DEF Announce, Goto, segmentVars
<1>3. job[t].site \in Sites /\ job[t].log \in Loggers
  BY <1>2, BusyLogger DEF IInv, JobInv, JobOK
<1>4. /\ job'[t].log = job[t].log /\ job'[t].site = job[t].site
      /\ job'[t].kind = "msg" /\ pc'[t] = "current"
      /\ \A u \in Threads : u # t => pc'[u] = pc[u] /\ job'[u] = job[u]
  BY <1>2 DEF IInv, TypeOK
<1>5. JobInv'
  BY <1>2, <1>3, <1>4 DEF IInv, JobInv, JobOK
<1>6. CacheInv'
  BY <1>2, <1>4 DEF IInv, CacheInv, CacheOK, HasChunk
<1>7. KnownInv'
  <2>1. DefinitionVisible(job[t].log, job[t].site)
    BY <1>2 DEF IInv, KnownInv
  <2>2. ASSUME NEW s \in Sites, key'[s] \in Loggers
        PROVE  DefinitionVisible(key'[s], s)
    BY <1>2, <1>3, <2>1, <2>2 DEF IInv, KnownInv, TypeOK
  <2>3. ASSUME NEW u \in Threads, pc'[u] = "announce" \/ job'[u].kind = "msg"
        PROVE  DefinitionVisible(job'[u].log, job'[u].site)
    BY <1>4, <2>1, <2>3 DEF IInv, KnownInv
  <2> QED
    BY <1>2, <2>2, <2>3, MemoryFrame DEF KnownInv
<1> QED
  BY <1>1, <1>2, <1>4, <1>5, <1>6, <1>7, SlotFrame DEF IInv, TypeOK

-----------------------------------------------------------------------------
(* What a step that keeps the committed records keeps.                     *)

LEMMA VisibleGrows ==
  ASSUME \A l \in Loggers, c \in Chunks : Stamped(l, c) => Stamped(l, c)',
         \A l \in Loggers, c \in Chunks, i \in Slots :
           Committed(l, c, i) =>
             /\ head'[<<l, c, i>>] = head[<<l, c, i>>]
             /\ payload'[<<l, c, i>>] = payload[<<l, c, i>>]
  PROVE  /\ \A l \in Loggers, c \in Chunks, i \in Slots :
              Visible(l, c, i) => Visible(l, c, i)'
         /\ \A l \in Loggers : \A s :
              DefinitionVisible(l, s) => DefinitionVisible(l, s)'
<1>1. ASSUME NEW l \in Loggers, NEW c \in Chunks, NEW i \in Slots,
             Visible(l, c, i)
      PROVE  Visible(l, c, i)'
  <2>1. \A j \in 1..i : j \in Slots
    BY DEF Slots
  <2>2. \A j \in 1..i : Committed(l, c, j)'
    BY <1>1, <2>1 DEF Visible, Committed
  <2> QED
    BY <1>1, <2>2 DEF Visible
<1>2. ASSUME NEW l \in Loggers, NEW s, DefinitionVisible(l, s)
      PROVE  DefinitionVisible(l, s)'
  <2>1. PICK c \in Chunks, i \in Slots :
               /\ Visible(l, c, i)
               /\ head[<<l, c, i>>].kind = "def"
               /\ payload[<<l, c, i>>].site = s
    BY <1>2 DEF DefinitionVisible
  <2>2. Visible(l, c, i)'
    BY <1>1, <2>1
  <2>3. Committed(l, c, i)
    BY <2>1 DEF Committed
  <2> QED
    BY <2>1, <2>2, <2>3 DEF DefinitionVisible
<1> QED
  BY <1>1, <1>2

LEMMA StampHeaderStep ==
  ASSUME IInv, NEW t \in Threads, StampHeader(t)
  PROVE  IInv'
<1>1. TypeOK'
  BY TypeStep DEF IInv, Next, Advance
<1>2. /\ UNCHANGED <<cursor, head, payload, key, cache, job, held, stored>>
      /\ pc[t] \in {"stamp", "restamp"}
      /\ stamp' = [stamp EXCEPT ![<<cache[t].owner, cache[t].chunk>>] = t]
      /\ pc' = [pc EXCEPT ![t] = IF pc[t] = "stamp" THEN "reserve"
                                                    ELSE "retry"]
  BY DEF StampHeader, Goto
<1>3. /\ pc'[t] \in {"reserve", "retry"}
      /\ \A u \in Threads : u # t => pc'[u] = pc[u]
  BY <1>2 DEF IInv, TypeOK
<1>4. /\ \A l \in Loggers, c \in Chunks :
           stamp[<<l, c>>] # NoThread => stamp'[<<l, c>>] # NoThread
      /\ cache[t].owner \in Loggers /\ cache[t].chunk \in Chunks
      /\ stamp'[<<cache[t].owner, cache[t].chunk>>] # NoThread
  BY <1>2 DEF IInv, TypeOK, CacheInv, CacheOK, HasChunk, Cache, Chunks
<1>5. /\ \A l \in Loggers, c \in Chunks, i \in Slots :
           Visible(l, c, i) => Visible(l, c, i)'
      /\ \A l \in Loggers : \A s :
           DefinitionVisible(l, s) => DefinitionVisible(l, s)'
  BY <1>2, <1>4, VisibleGrows DEF Stamped
<1>6. \A l, c, i : Committed(l, c, i)' <=> Committed(l, c, i)
  BY <1>2 DEF Committed
<1>7. /\ \A u \in Threads : HoldsSlots(u)' <=> HoldsSlots(u)
      /\ \A u \in Threads : \A l, c, i :
           InFlight(u, l, c, i)' <=> InFlight(u, l, c, i)
  BY <1>2, <1>3 DEF HoldsSlots, InFlight, HeldSlots
<1>8. JobInv'
  BY <1>2, <1>3 DEF IInv, JobInv, JobOK
<1>9. CacheInv'
  <2> SUFFICES ASSUME NEW u \in Threads
               PROVE  CacheOK(u)'
    BY DEF CacheInv
  <2>1. CacheOK(u)
    BY DEF IInv, CacheInv
  <2>2. HasChunk(u)' <=> HasChunk(u)
    BY <1>2 DEF HasChunk
  <2>3. HasChunk(u) => cache[u].owner \in Loggers /\ cache[u].chunk \in Chunks
    BY <2>1 DEF CacheOK, HasChunk, IInv, TypeOK, Cache, Chunks
  <2>4. CASE u = t
    BY <1>2, <1>3, <1>4, <2>1, <2>2, <2>4 DEF CacheOK
  <2>5. CASE u # t
    BY <1>2, <1>3, <1>4, <2>1, <2>2, <2>3, <2>5 DEF CacheOK
  <2> QED
    BY <2>4, <2>5
<1>10. ExclusiveChunks' /\ UnclaimedInv' /\ StoredInv'
  BY <1>2, <1>3, <1>6
     DEF IInv, ExclusiveChunks, UnclaimedInv, StoredInv
<1>11. OwnSlotsInv'
  BY <1>2, <1>6, <1>7 DEF IInv, OwnSlotsInv, OwnSlotsOK, HasChunk
<1>12. HeldInv'
  <2> SUFFICES ASSUME NEW u \in Threads, HoldsSlots(u)'
               PROVE  HeldOK(u)'
    BY DEF HeldInv
  <2>1. HeldOK(u) /\ u # t
    BY <1>2, <1>7 DEF IInv, HeldInv, HoldsSlots
  <2> QED
    BY <2>1, <1>2, <1>3, HeldFrame
<1>13. WrittenBeforeCommitted' /\ NothingHidden'
  BY <1>2, <1>5, <1>6, <1>7 DEF IInv, WrittenBeforeCommitted, NothingHidden
<1>14. DefinitionPrecedesMessage'
  BY <1>2, <1>5 DEF IInv, DefinitionPrecedesMessage
<1>15. KnownInv'
  <2>1. \A u \in Threads : job[u].kind = "msg" \/ pc[u] = "announce" =>
                             job[u].log \in Loggers
    BY DEF IInv, JobInv, JobOK, TypeOK, Job, NoJob
  <2> QED
    BY <1>2, <1>3, <1>5, <2>1 DEF IInv, KnownInv
<1> QED
  BY <1>1, <1>8, <1>9, <1>10, <1>11, <1>12, <1>13, <1>14, <1>15 DEF IInv

-----------------------------------------------------------------------------
(* Reserving.                                                              *)

LEMMA ChunkPlace ==
  ASSUME IInv, NEW u \in Threads, HasChunk(u)
  PROVE  cache[u].owner \in Loggers /\ cache[u].chunk \in Chunks
<1>1. CacheOK(u)
  BY DEF IInv, CacheInv
<1>2. cache[u].chunk \in 0..ChunkCount
  BY DEF IInv, TypeOK, Cache
<1> QED
  BY <1>1, <1>2 DEF CacheOK, HasChunk, Chunks

(* Slots of a reservation are places of a segment.                         *)
LEMMA HeldPlaces ==
  ASSUME IInv, NEW u \in Threads, HoldsSlots(u)
  PROVE  /\ HeldOK(u)
         /\ HeldSlots(u) \subseteq Slots
         /\ cache[u].owner \in Loggers
         /\ cache[u].chunk \in Chunks
<1>1. HeldOK(u) /\ CacheOK(u) /\ HasChunk(u)
  BY DEF IInv, HeldInv, CacheInv, CacheOK, HoldsSlots
<1>2. /\ held[u].first \in Nat \ {0} /\ held[u].count \in Nat
      /\ cache[u].next \in Nat /\ cache[u].used \in Nat
      /\ cache[u].chunk \in 0..ChunkCount
  BY DEF IInv, TypeOK, Held, Cache
<1>3. cache[u].owner \in Loggers /\ cache[u].chunk \in Chunks
  BY <1>1, <1>2 DEF CacheOK, HasChunk, Chunks
<1>4. /\ held[u].first + held[u].count = cache[u].next
      /\ cache[u].next <= ChunkUnits + 1
  BY <1>1, <1>2 DEF HeldOK, CacheOK
<1>5. HeldSlots(u) \subseteq Slots
  BY <1>2, <1>4 DEF HeldSlots, Slots
<1> QED
  BY <1>1, <1>3, <1>5

(* Any reservation of n slots that fits the room left in the chunk.        *)
LEMMA TakeStep ==
  ASSUME IInv, NEW t \in Threads, NEW n \in Nat \ {0}, NEW w \in Nat,
         NEW first \in Nat, NEW lossy \in BOOLEAN,
         n <= w, w <= Room(t), HasChunk(t),
         pc[t] \in {"reserve", "retry"},
         TakeSlots(t, n, w, first, lossy),
         UNCHANGED <<cursor, stamp, head, payload, key, job, stored,
                     attempts, dropped, truncated>>
  PROVE  IInv'
<1>1. TypeOK'
  BY TakeSlotsType DEF IInv, TypeOK
<1>2. /\ pc'[t] = "fill"
      /\ cache'[t].owner = cache[t].owner /\ cache'[t].chunk = cache[t].chunk
      /\ cache'[t].next = cache[t].next + n
      /\ cache'[t].used = cache[t].used + w
      /\ held'[t].first = cache[t].next /\ held'[t].count = n
      /\ \A u \in Threads : u # t => /\ pc'[u] = pc[u]
                                     /\ cache'[u] = cache[u]
                                     /\ held'[u] = held[u]
  BY DEF TakeSlots, Goto, IInv, TypeOK
<1>3. /\ cache[t].next \in Nat \ {0} /\ cache[t].used \in Nat
      /\ cache[t].next <= cache[t].used + 1
      /\ cache[t].used + w <= ChunkUnits
      /\ stored[t] = 0
  <2>1. cache[t].next \in Nat \ {0} /\ cache[t].used \in Nat
    BY DEF IInv, TypeOK, Cache
  <2>2. /\ cache[t].next <= cache[t].used + 1
        /\ stored[t] = 0
    BY DEF IInv, CacheInv, CacheOK, StoredInv
  <2>3. cache[t].used + w <= ChunkUnits
    BY <2>1 DEF Room
  <2> QED
    BY <2>1, <2>2, <2>3
<1>4. \A u \in Threads : HasChunk(u)' <=> HasChunk(u)
  BY <1>2 DEF HasChunk
<1>5. /\ ~HoldsSlots(t)
      /\ \A u \in Threads : \A l, c, i :
           InFlight(u, l, c, i) => InFlight(u, l, c, i)'
  BY <1>2 DEF HoldsSlots, InFlight, HeldSlots
<1>6. JobInv'
  BY <1>2 DEF IInv, JobInv, JobOK
<1>7. CacheInv'
  <2> SUFFICES ASSUME NEW u \in Threads
               PROVE  CacheOK(u)'
    BY DEF CacheInv
  <2>1. CacheOK(u)
    BY DEF IInv, CacheInv
  <2>2. CASE u = t
    BY <1>2, <1>3, <1>4, <2>1, <2>2 DEF CacheOK
  <2>3. CASE u # t
    BY <1>2, <1>4, <2>1, <2>3 DEF CacheOK
  <2> QED
    BY <2>2, <2>3
<1>8. ExclusiveChunks'
  <2>1. \A u \in Threads : /\ cache'[u].owner = cache[u].owner
                           /\ cache'[u].chunk = cache[u].chunk
    BY <1>2
  <2> QED
    BY <2>1 DEF IInv, ExclusiveChunks
<1>9. UnclaimedInv' /\ StoredInv'
  BY <1>2, <1>3, MemoryFrame DEF IInv, UnclaimedInv, StoredInv
<1>10. \A i \in HeldSlots(t)' :
         /\ i \in Slots
         /\ i >= cache[t].next
         /\ head[<<cache[t].owner, cache[t].chunk, i>>].kind = "none"
  <2>1. HeldSlots(t)' = cache[t].next..(cache[t].next + n - 1)
    BY <1>2 DEF HeldSlots
  <2>2. \A i \in HeldSlots(t)' : i \in Slots /\ i >= cache[t].next
    BY <1>3, <2>1 DEF Slots
  <2> QED
    BY <2>2 DEF IInv, OwnSlotsInv, OwnSlotsOK, Committed
<1>11. OwnSlotsInv'
  <2> SUFFICES ASSUME NEW u \in Threads, HasChunk(u)'
               PROVE  OwnSlotsOK(u)'
    BY DEF OwnSlotsInv
  <2>1. OwnSlotsOK(u)
    BY <1>4 DEF IInv, OwnSlotsInv
  <2>2. CASE u = t
    <3>1. ASSUME NEW i \in Slots, i >= cache'[t].next
          PROVE  head[<<cache[t].owner, cache[t].chunk, i>>].kind = "none"
      <4>1. i >= cache[t].next
        BY <1>2, <1>3, <3>1 DEF Slots
      <4> QED
        BY <2>1, <2>2, <4>1 DEF OwnSlotsOK, Committed
    <3>2. ASSUME NEW i \in Slots, i < cache'[t].next, i \notin HeldSlots(t)'
          PROVE  head[<<cache[t].owner, cache[t].chunk, i>>].kind # "none"
      <4>1. i < cache[t].next
        BY <1>2, <1>3, <3>2 DEF Slots, HeldSlots
      <4> QED
        BY <1>5, <2>1, <2>2, <4>1 DEF OwnSlotsOK, Committed, InFlight
    <3> QED
      BY <1>2, <2>2, <3>1, <3>2
         DEF OwnSlotsOK, Committed, InFlight, HoldsSlots
  <2>3. CASE u # t
    BY <1>2, <2>1, <2>3
       DEF OwnSlotsOK, Committed, InFlight, HoldsSlots, HeldSlots
  <2> QED
    BY <2>2, <2>3
<1>12. HeldInv'
  <2> SUFFICES ASSUME NEW u \in Threads, HoldsSlots(u)'
               PROVE  HeldOK(u)'
    BY DEF HeldInv
  <2>1. CASE u = t
    <3>1. /\ held'[t].first + held'[t].count = cache'[t].next
          /\ stored'[t] < held'[t].count
      BY <1>2, <1>3
    <3>2. \A i \in HeldSlots(t)' :
            /\ ~(held'[t].first < i /\ i <= held'[t].first + stored'[t])
            /\ head'[<<cache'[t].owner, cache'[t].chunk, i>>].kind = "none"
      BY <1>2, <1>3, <1>10 DEF Slots
    <3> QED
      BY <1>2, <2>1, <3>1, <3>2 DEF HeldOK
  <2>2. CASE u # t
    <3>1. HeldOK(u)
      BY <1>2, <2>2 DEF IInv, HeldInv, HoldsSlots
    <3> QED
      BY <1>2, <2>2, <3>1, HeldFrame
  <2> QED
    BY <2>1, <2>2
<1>13. NothingHidden'
  BY <1>5, MemoryFrame DEF IInv, NothingHidden
<1>14. KnownInv'
  BY <1>2, MemoryFrame DEF IInv, KnownInv
<1> QED
  BY <1>1, <1>6, <1>7, <1>8, <1>9, <1>11, <1>12, <1>13, <1>14, MemoryFrame
  DEF IInv

(* A call that gives up on its chunk touches nothing.                      *)
LEMMA GiveUpStep ==
  ASSUME IInv, NEW t \in Threads, NEW p \in {"refill", "drop"},
         pc[t] \in {"reserve", "retry"}, Goto(t, p),
         UNCHANGED <<cursor, stamp, head, payload, key, cache, job, held,
                     stored, attempts, dropped, truncated>>
  PROVE  IInv'
<1>1. TypeOK'
  BY DEF IInv, TypeOK, Goto, Steps
<1>2. /\ pc'[t] = p
      /\ \A u \in Threads : u # t => pc'[u] = pc[u]
  BY DEF IInv, TypeOK, Goto
<1>3. JobInv' /\ CacheInv'
  BY <1>2 DEF IInv, JobInv, JobOK, CacheInv, CacheOK, HasChunk
<1>4. KnownInv'
  BY <1>2, MemoryFrame DEF IInv, KnownInv
<1> QED
  BY <1>1, <1>2, <1>3, <1>4, SlotFrame DEF IInv

LEMMA TakeChainStep ==
  ASSUME IInv, NEW t \in Threads, HasChunk(t),
         ChainFits(job[t], Room(t)), TakeChain(t),
         pc[t] \in {"reserve", "retry"},
         UNCHANGED <<segmentVars, key, job, stored, counterVars>>
  PROVE  IInv'
<1>1. /\ HeadUnits(job[t]) \in Nat
      /\ Conts(job[t]) \in Nat
      /\ Demand(job[t]) \in Nat
      /\ Demand(job[t]) >= 1 + Conts(job[t])
  BY DemandNat DEF IInv
<1>2. Lossy(job[t]) \in BOOLEAN
  BY DEF IInv, TypeOK, Job, Shape, Lossy
<1>3. Demand(job[t]) <= Room(t)
  BY DEF ChainFits
<1>4. 1 + Conts(job[t]) \in Nat \ {0}
  BY <1>1
<1> QED
  BY <1>1, <1>2, <1>3, <1>4, TakeStep DEF TakeChain, segmentVars, counterVars

LEMMA ReserveStep ==
  ASSUME IInv, NEW t \in Threads, Reserve(t)
  PROVE  IInv'
<1>1. CASE /\ cache[t].chunk # 0
           /\ ChainFits(job[t], Room(t))
           /\ TakeChain(t)
  BY <1>1, TakeChainStep DEF Reserve, HasChunk
<1>2. CASE Goto(t, "refill") /\ UNCHANGED <<cache, held>>
  BY <1>2, GiveUpStep DEF Reserve, segmentVars, counterVars
<1> QED
  BY <1>1, <1>2 DEF Reserve

LEMMA RetryStep ==
  ASSUME IInv, NEW t \in Threads, Retry(t)
  PROVE  IInv'
<1>1. HasChunk(t) /\ pc[t] = "retry"
  BY DEF Retry, IInv, CacheInv, CacheOK
<1>2. /\ UNCHANGED <<segmentVars, key, job, stored, counterVars>>
      /\ UNCHANGED <<cursor, stamp, head, payload, key, job, stored,
                     attempts, dropped, truncated>>
  BY DEF Retry, segmentVars, counterVars
<1>3. CASE ChainFits(job[t], Room(t)) /\ TakeChain(t)
  BY <1>1, <1>2, <1>3, TakeChainStep
<1>4. ASSUME NEW w \in Nat, 1 <= w, w <= Room(t), TakeSlots(t, 1, w, w, TRUE)
      PROVE  IInv'
  <2>1. 1 \in Nat \ {0} /\ TRUE \in BOOLEAN
    OBVIOUS
  <2> QED
    BY <1>1, <1>2, <1>4, <2>1, TakeStep
<1>5. CASE TakeShortDefinition(t)
  <2>1. PICK w \in DefMinUnits[job[t].site]..Room(t) :
               Fits(w, Room(t)) /\ TakeSlots(t, 1, w, w, TRUE)
    BY <1>5 DEF TakeShortDefinition
  <2>2. job[t].site \in Sites
    BY <1>5 DEF TakeShortDefinition, IInv, JobInv, JobOK
  <2>3. w \in Nat /\ 1 <= w /\ w <= Room(t)
    BY <2>1, <2>2 DEF Fits
  <2> QED
    BY <1>4, <2>1, <2>3
<1>6. CASE TakeFlatMessage(t)
  <2>1. job[t].shape.msg \in Nat \ {0}
    BY DEF IInv, TypeOK, Job, Shape
  <2>2. 1 <= job[t].shape.msg /\ job[t].shape.msg <= Room(t)
    BY <1>6, <2>1 DEF TakeFlatMessage, Fits
  <2> QED
    BY <1>6, <1>4, <2>1, <2>2 DEF TakeFlatMessage
<1>7. CASE Goto(t, "drop") /\ UNCHANGED <<cache, held>>
  BY <1>1, <1>2, <1>7, GiveUpStep
<1> QED
  BY <1>3, <1>5, <1>6, <1>7 DEF Retry

-----------------------------------------------------------------------------
(* Writing.                                                                *)

(* Another thread's reservation lies in another chunk.                     *)
LEMMA OtherChunk ==
  ASSUME IInv, NEW t \in Threads, NEW u \in Threads, u # t,
         HoldsSlots(t), HasChunk(u)
  PROVE  <<cache[u].owner, cache[u].chunk>> #
           <<cache[t].owner, cache[t].chunk>>
BY DEF IInv, ExclusiveChunks, HasChunk

LEMMA FillPayloadStep ==
  ASSUME IInv, NEW t \in Threads, FillPayload(t)
  PROVE  IInv'
<1>1. TypeOK'
  BY FillPayloadType DEF IInv
<1>2. /\ UNCHANGED <<cursor, stamp, head, key, cache, job, held, stored>>
      /\ pc[t] = "fill"
      /\ pc'[t] = "commit"
      /\ \A u \in Threads : u # t => pc'[u] = pc[u]
  BY DEF FillPayload, Goto, IInv, TypeOK
<1>3. /\ HoldsSlots(t) /\ HeldOK(t) /\ HeldSlots(t) \subseteq Slots
      /\ cache[t].owner \in Loggers /\ cache[t].chunk \in Chunks
  BY <1>2, HeldPlaces DEF HoldsSlots
<1>4. \A l \in Loggers, c \in Chunks, i \in Slots :
        payload'[<<l, c, i>>] = IF InFlight(t, l, c, i) THEN OwnPayload(t)
                                ELSE payload[<<l, c, i>>]
  BY DEF FillPayload, Places
<1>5. \A l \in Loggers, c \in Chunks, i \in Slots :
        InFlight(t, l, c, i) => ~Committed(l, c, i)
  <2>1. stored[t] = 0 /\ held[t].first \in Nat
    BY <1>2 DEF IInv, StoredInv, TypeOK, Held
  <2>2. \A i \in HeldSlots(t) :
          head[<<cache[t].owner, cache[t].chunk, i>>].kind = "none"
    <3> TAKE i \in HeldSlots(t)
    <3>1. ~(held[t].first < i /\ i <= held[t].first + stored[t])
      BY <2>1, <1>3 DEF Slots
    <3> QED
      BY <1>3, <3>1 DEF HeldOK
  <2> QED
    BY <2>2 DEF InFlight, Committed
<1>6. /\ \A l \in Loggers, c \in Chunks, i \in Slots :
           Visible(l, c, i) => Visible(l, c, i)'
      /\ \A l \in Loggers : \A s :
           DefinitionVisible(l, s) => DefinitionVisible(l, s)'
  BY <1>2, <1>4, <1>5, VisibleGrows DEF Stamped
<1>7. \A l, c, i : Committed(l, c, i)' <=> Committed(l, c, i)
  BY <1>2 DEF Committed
<1>8. /\ \A u \in Threads : HoldsSlots(u)' <=> HoldsSlots(u)
      /\ \A u \in Threads : \A l, c, i :
           InFlight(u, l, c, i)' <=> InFlight(u, l, c, i)
  BY <1>2 DEF HoldsSlots, InFlight, HeldSlots
<1>9. JobInv' /\ CacheInv'
  BY <1>2 DEF IInv, JobInv, JobOK, CacheInv, CacheOK, HasChunk
<1>10. ExclusiveChunks' /\ UnclaimedInv' /\ StoredInv'
  BY <1>2, <1>7 DEF IInv, ExclusiveChunks, UnclaimedInv, StoredInv
<1>11. OwnSlotsInv'
  BY <1>2, <1>7, <1>8 DEF IInv, OwnSlotsInv, OwnSlotsOK, HasChunk
<1>12. HeldInv'
  <2> SUFFICES ASSUME NEW u \in Threads, HoldsSlots(u)'
               PROVE  HeldOK(u)'
    BY DEF HeldInv
  <2>1. CASE u = t
    <3>1. \A i : CommitHead(t, i)' = CommitHead(t, i)
      BY <1>2 DEF CommitHead
    <3>2. OwnPayload(t)' = OwnPayload(t) /\ HeldSlots(t)' = HeldSlots(t)
      BY <1>2 DEF OwnPayload, HeldSlots
    <3>3. \A i \in HeldSlots(t) :
            payload'[<<cache[t].owner, cache[t].chunk, i>>] = OwnPayload(t)
      BY <1>3, <1>4 DEF InFlight
    <3>4. /\ held'[t].first + held'[t].count = cache'[t].next
          /\ stored'[t] < held'[t].count
      BY <1>2, <1>3 DEF HeldOK
    <3>5. \A i \in HeldSlots(t)' :
            IF held'[t].first < i /\ i <= held'[t].first + stored'[t]
            THEN head'[<<cache'[t].owner, cache'[t].chunk, i>>]
                   = CommitHead(t, i)'
            ELSE head'[<<cache'[t].owner, cache'[t].chunk, i>>].kind = "none"
      BY <1>2, <1>3, <3>1, <3>2 DEF HeldOK
    <3>6. \A i \in HeldSlots(t)' :
            payload'[<<cache'[t].owner, cache'[t].chunk, i>>] = OwnPayload(t)'
      BY <1>2, <3>2, <3>3
    <3> QED
      BY <2>1, <3>4, <3>5, <3>6 DEF HeldOK
  <2>2. CASE u # t
    <3>1. /\ HeldOK(u) /\ HeldSlots(u) \subseteq Slots
          /\ cache[u].owner \in Loggers /\ cache[u].chunk \in Chunks
          /\ HasChunk(u)
      BY <1>8, HeldPlaces DEF HasChunk, Chunks
    <3>2. \A i \in HeldSlots(u) :
            ~InFlight(t, cache[u].owner, cache[u].chunk, i)
      BY <1>3, <2>2, <3>1, OtherChunk DEF InFlight
    <3>3. \A i \in HeldSlots(u) :
            payload'[<<cache[u].owner, cache[u].chunk, i>>]
              = payload[<<cache[u].owner, cache[u].chunk, i>>]
      BY <1>4, <3>1, <3>2
    <3> QED
      BY <1>2, <2>2, <3>1, <3>3, HeldFrame
  <2> QED
    BY <2>1, <2>2
<1>13. WrittenBeforeCommitted' /\ NothingHidden'
  BY <1>2, <1>4, <1>5, <1>6, <1>7, <1>8
     DEF IInv, WrittenBeforeCommitted, NothingHidden
<1>14. DefinitionPrecedesMessage'
  <2> SUFFICES ASSUME NEW l \in Loggers, NEW c \in Chunks, NEW i \in Slots,
                      head'[<<l, c, i>>].kind = "msg"
               PROVE  DefinitionVisible(l, payload[<<l, c, i>>].site)'
    BY DEF DefinitionPrecedesMessage
  <2>1. Committed(l, c, i) /\ head[<<l, c, i>>].kind = "msg"
    BY <1>2 DEF Committed
  <2>2. payload'[<<l, c, i>>] = payload[<<l, c, i>>]
    BY <1>4, <1>5, <2>1
  <2>3. PICK s : s = payload[<<l, c, i>>].site /\ DefinitionVisible(l, s)
    BY <2>1 DEF IInv, DefinitionPrecedesMessage
  <2>4. DefinitionVisible(l, s)'
    BY <1>6, <2>3
  <2> QED
    BY <2>2, <2>3, <2>4
<1>15. KnownInv'
  <2>1. \A u \in Threads : job[u].kind = "msg" \/ pc[u] = "announce" =>
                             job[u].log \in Loggers
    BY DEF IInv, JobInv, JobOK, TypeOK, Job, NoJob
  <2> QED
    BY <1>2, <1>6, <2>1 DEF IInv, KnownInv
<1> QED
  BY <1>1, <1>9, <1>10, <1>11, <1>12, <1>13, <1>14, <1>15 DEF IInv

-----------------------------------------------------------------------------
(* Committing.                                                             *)

(* The head word a commit stores: in the thread's own reservation, zero    *)
(* before, not zero after; it changes no other word.                       *)
Stores(t, o, d, n) ==
  /\ o = cache[t].owner /\ d = cache[t].chunk /\ n = NextCommit(t)
  /\ n \in HeldSlots(t)
  /\ head[<<o, d, n>>].kind = "none"
  /\ head'[<<o, d, n>>] = CommitHead(t, n)
  /\ CommitHead(t, n).kind = IF n = held[t].first THEN job[t].kind ELSE "cont"
  /\ head'[<<o, d, n>>].kind # "none"
  /\ \A l \in Loggers, c \in Chunks, i \in Slots :
       <<l, c, i>> # <<o, d, n>> => head'[<<l, c, i>>] = head[<<l, c, i>>]

LEMMA CommitFacts ==
  ASSUME IInv, NEW t \in Threads, Commit(t)
  PROVE  \E o \in Loggers, d \in Chunks, n \in Slots : Stores(t, o, d, n)
<1>1. PICK o, d, n : /\ o = cache[t].owner /\ d = cache[t].chunk
                     /\ n = NextCommit(t)
  OBVIOUS
<1>2. /\ HeldOK(t) /\ HeldSlots(t) \subseteq Slots
      /\ o \in Loggers /\ d \in Chunks
  BY <1>1, HeldPlaces DEF Commit, HoldsSlots
<1>3. /\ held[t].first \in Nat \ {0} /\ held[t].count \in Nat
      /\ stored[t] \in Nat /\ stored[t] < held[t].count
  BY <1>2 DEF IInv, TypeOK, Held, HeldOK
<1>4. n \in HeldSlots(t) /\ n \in Slots
  BY <1>1, <1>2, <1>3 DEF NextCommit, HeldSlots
<1>5. ~(held[t].first < n /\ n <= held[t].first + stored[t])
  BY <1>1, <1>3 DEF NextCommit
<1>6. head[<<o, d, n>>].kind = "none"
  BY <1>1, <1>2, <1>4, <1>5 DEF HeldOK
<1>7. CommitHead(t, n).kind = IF n = held[t].first THEN job[t].kind ELSE "cont"
  BY DEF CommitHead
<1>8. <<o, d, n>> \in Places
  BY <1>2, <1>4 DEF Places
<1>9. head' = [head EXCEPT ![<<o, d, n>>] = CommitHead(t, n)]
  BY <1>1 DEF Commit
<1>10. head'[<<o, d, n>>] = CommitHead(t, n)
  BY <1>8, <1>9 DEF IInv, TypeOK
<1>11. \A l \in Loggers, c \in Chunks, i \in Slots :
         <<l, c, i>> # <<o, d, n>> =>
           head'[<<l, c, i>>] = head[<<l, c, i>>]
  BY <1>9 DEF IInv, TypeOK, Places
<1>12. head'[<<o, d, n>>].kind # "none"
  BY <1>7, <1>10 DEF IInv, TypeOK, Job
<1>13. Stores(t, o, d, n)
  BY <1>1, <1>4, <1>6, <1>7, <1>10, <1>11, <1>12 DEF Stores
<1> QED
  BY <1>2, <1>4, <1>13

(* Every word that was committed keeps its value, every other one but the  *)
(* one stored stays zero.                                                  *)
LEMMA CommitKeeps ==
  ASSUME IInv, NEW t \in Threads, Commit(t)
  PROVE  /\ \A l \in Loggers, c \in Chunks, i \in Slots :
              Committed(l, c, i) =>
                /\ head'[<<l, c, i>>] = head[<<l, c, i>>]
                /\ payload'[<<l, c, i>>] = payload[<<l, c, i>>]
                /\ Committed(l, c, i)'
         /\ \A l \in Loggers, c \in Chunks, i \in Slots :
              Visible(l, c, i) => Visible(l, c, i)'
         /\ \A l \in Loggers : \A s :
              DefinitionVisible(l, s) => DefinitionVisible(l, s)'
         /\ UNCHANGED <<cursor, stamp, payload, key, cache>>
         /\ pc[t] = "commit"
<1>1. UNCHANGED <<cursor, stamp, payload, key, cache>> /\ pc[t] = "commit"
  BY DEF Commit
<1>2. \A l \in Loggers, c \in Chunks, i \in Slots :
        Committed(l, c, i) =>
          /\ head'[<<l, c, i>>] = head[<<l, c, i>>]
          /\ payload'[<<l, c, i>>] = payload[<<l, c, i>>]
          /\ Committed(l, c, i)'
  <2>1. PICK o \in Loggers, d \in Chunks, n \in Slots : Stores(t, o, d, n)
    BY CommitFacts
  <2> QED
    BY <1>1, <2>1 DEF Stores, Committed
<1>3. \A l \in Loggers, c \in Chunks : Stamped(l, c) => Stamped(l, c)'
  BY <1>1 DEF Stamped
<1> QED
  BY <1>1, <1>2, <1>3, VisibleGrows

(* What both kinds of commit, of a Continuation and of the last word of a  *)
(* call, have in common.                                                   *)
LEMMA CommitCommon ==
  ASSUME IInv, NEW t \in Threads, Commit(t),
         \A u \in Threads : u # t => /\ pc'[u] = pc[u] /\ job'[u] = job[u]
                                     /\ held'[u] = held[u]
                                     /\ stored'[u] = stored[u]
  PROVE  /\ ExclusiveChunks'
         /\ UnclaimedInv'
         /\ WrittenBeforeCommitted'
         /\ \A u \in Threads : u # t /\ HasChunk(u)' => OwnSlotsOK(u)'
         /\ \A u \in Threads : u # t /\ HoldsSlots(u)' => HeldOK(u)'
         /\ \A u \in Threads : u # t => CacheOK(u)' /\ JobOK(u)'
<1>1. PICK o \in Loggers, d \in Chunks, n \in Slots : Stores(t, o, d, n)
  BY CommitFacts
<1>2. /\ o = cache[t].owner /\ d = cache[t].chunk
      /\ n \in HeldSlots(t)
      /\ \A l \in Loggers, c \in Chunks, i \in Slots :
           <<l, c, i>> # <<o, d, n>> => head'[<<l, c, i>>] = head[<<l, c, i>>]
  BY <1>1 DEF Stores
<1>3. UNCHANGED <<cursor, stamp, payload, key, cache>> /\ pc[t] = "commit"
  BY DEF Commit
<1>4. HoldsSlots(t) /\ HeldOK(t) /\ CacheOK(t) /\ HasChunk(t)
  BY <1>3 DEF HoldsSlots, IInv, HeldInv, CacheInv, CacheOK
<1>5. ExclusiveChunks'
  BY <1>3 DEF IInv, ExclusiveChunks
<1>6. UnclaimedInv'
  <2> SUFFICES ASSUME NEW l \in Loggers, NEW c \in Chunks, c > cursor[l],
                      NEW i \in Slots
               PROVE  head'[<<l, c, i>>].kind = "none"
    BY <1>3 DEF UnclaimedInv, Committed
  <2>1. <<l, c, i>> # <<o, d, n>>
    <3>1. d <= cursor[o] /\ cursor[o] \in Nat /\ d \in Nat
      BY <1>2, <1>4 DEF CacheOK, IInv, TypeOK, Chunks
    <3> QED
      BY <3>1
  <2> QED
    BY <1>2, <2>1 DEF IInv, UnclaimedInv, Committed
<1>7. WrittenBeforeCommitted'
  <2> SUFFICES ASSUME NEW l \in Loggers, NEW c \in Chunks, NEW i \in Slots,
                      head'[<<l, c, i>>].kind # "none"
               PROVE  payload[<<l, c, i>>].written
    BY <1>3 DEF WrittenBeforeCommitted, Committed
  <2>1. CASE <<l, c, i>> = <<o, d, n>>
    BY <1>2, <1>3, <1>4, <2>1 DEF HeldOK, OwnPayload
  <2>2. CASE <<l, c, i>> # <<o, d, n>>
    BY <1>2, <2>2 DEF IInv, WrittenBeforeCommitted, Committed
  <2> QED
    BY <2>1, <2>2
<1>8. ASSUME NEW u \in Threads, u # t, HasChunk(u)
      PROVE  /\ cache[u].owner \in Loggers /\ cache[u].chunk \in Chunks
             /\ \A i \in Slots :
                  head'[<<cache[u].owner, cache[u].chunk, i>>]
                    = head[<<cache[u].owner, cache[u].chunk, i>>]
  <2>1. cache[u].owner \in Loggers /\ cache[u].chunk \in Chunks
    BY <1>8, ChunkPlace
  <2>2. <<cache[u].owner, cache[u].chunk>> # <<o, d>>
    BY <1>2, <1>4, <1>8, OtherChunk
  <2> QED
    BY <1>2, <2>1, <2>2
<1>9. ASSUME NEW u \in Threads, u # t, HasChunk(u)'
      PROVE  OwnSlotsOK(u)'
  <2>1. HasChunk(u)
    BY <1>3, <1>9 DEF HasChunk
  <2>2. OwnSlotsOK(u)
    BY <2>1 DEF IInv, OwnSlotsInv
  <2>3. cache'[u] = cache[u] /\ pc'[u] = pc[u] /\ held'[u] = held[u]
    BY <1>3, <1>9
  <2>4. \A i \in Slots :
          head'[<<cache[u].owner, cache[u].chunk, i>>]
            = head[<<cache[u].owner, cache[u].chunk, i>>]
    BY <1>8, <1>9, <2>1
  <2> QED
    BY <2>2, <2>3, <2>4
       DEF OwnSlotsOK, Committed, InFlight, HoldsSlots, HeldSlots
<1>10. ASSUME NEW u \in Threads, u # t, HoldsSlots(u)'
       PROVE  HeldOK(u)'
  <2>1. HoldsSlots(u)
    BY <1>10 DEF HoldsSlots
  <2>2. HeldOK(u) /\ HeldSlots(u) \subseteq Slots /\ HasChunk(u)
    BY <2>1, HeldPlaces DEF HasChunk, Chunks
  <2> QED
    BY <1>3, <1>8, <1>10, <2>2, HeldFrame
<1>11. ASSUME NEW u \in Threads, u # t
       PROVE  CacheOK(u)' /\ JobOK(u)'
  <2>1. CacheOK(u) /\ JobOK(u)
    BY DEF IInv, CacheInv, JobInv
  <2> QED
    BY <1>3, <1>11, <2>1 DEF CacheOK, JobOK, HasChunk
<1> QED
  BY <1>5, <1>6, <1>7, <1>9, <1>10, <1>11

LEMMA CommitMoreStep ==
  ASSUME IInv, NEW t \in Threads, Commit(t), ~LastCommit(t)
  PROVE  IInv'
<1>1. TypeOK'
  BY CommitType DEF IInv
<1>2. /\ UNCHANGED <<cursor, stamp, payload, key, cache, pc, job, held>>
      /\ stored' = [stored EXCEPT ![t] = @ + 1]
      /\ pc[t] = "commit"
  BY DEF Commit
<1>3. /\ stored'[t] = stored[t] + 1
      /\ \A u \in Threads : u # t => stored'[u] = stored[u]
  BY <1>2 DEF IInv, TypeOK
<1>4. PICK o \in Loggers, d \in Chunks, n \in Slots : Stores(t, o, d, n)
  BY CommitFacts
<1>5. /\ HeldOK(t) /\ HeldSlots(t) \subseteq Slots /\ HoldsSlots(t)
      /\ held[t].first \in Nat \ {0} /\ held[t].count \in Nat
      /\ stored[t] \in Nat /\ stored[t] < held[t].count
      /\ held[t].first + held[t].count = cache[t].next
  BY <1>2, HeldPlaces DEF HoldsSlots, HeldOK, IInv, TypeOK, Held
<1>6. /\ stored[t] + 1 < held[t].count
      /\ n = held[t].first + stored[t] + 1
      /\ n # held[t].first
  BY <1>4, <1>5 DEF LastCommit, NextCommit, Stores
<1>7. /\ o = cache[t].owner /\ d = cache[t].chunk
      /\ n \in HeldSlots(t)
      /\ head'[<<o, d, n>>] = CommitHead(t, n)
      /\ CommitHead(t, n).kind = "cont"
      /\ \A l \in Loggers, c \in Chunks, i \in Slots :
           <<l, c, i>> # <<o, d, n>> => head'[<<l, c, i>>] = head[<<l, c, i>>]
  BY <1>4, <1>6 DEF Stores
<1>8. /\ \A u \in Threads : HoldsSlots(u)' <=> HoldsSlots(u)
      /\ \A u \in Threads : \A l, c, i :
           InFlight(u, l, c, i)' <=> InFlight(u, l, c, i)
  BY <1>2 DEF HoldsSlots, InFlight, HeldSlots
<1>9. JobInv' /\ CacheInv' /\ StoredInv'
  BY <1>2, <1>3 DEF IInv, JobInv, JobOK, CacheInv, CacheOK, StoredInv, HasChunk
<1>10. OwnSlotsInv'
  <2>1. ASSUME HasChunk(t)
        PROVE  OwnSlotsOK(t)'
    <3>1. OwnSlotsOK(t)
      BY <2>1 DEF IInv, OwnSlotsInv
    <3>2. n < cache[t].next /\ n \in Nat /\ cache[t].next \in Nat
      BY <1>5, <1>6
    <3>3. ASSUME NEW i \in Slots
          PROVE  /\ i >= cache[t].next => head'[<<o, d, i>>].kind = "none"
                 /\ i < cache[t].next /\ ~InFlight(t, o, d, i) =>
                      head'[<<o, d, i>>].kind # "none"
      <4>1. CASE i = n
        BY <1>7, <1>5, <3>2, <4>1 DEF InFlight
      <4>2. CASE i # n
        <5>1. head'[<<o, d, i>>] = head[<<o, d, i>>]
          BY <1>7, <4>2
        <5> QED
          BY <1>7, <3>1, <5>1 DEF OwnSlotsOK, Committed
      <4> QED
        BY <4>1, <4>2
    <3> QED
      BY <1>2, <1>7, <1>8, <3>3
         DEF OwnSlotsOK, Committed, InFlight, HoldsSlots, HeldSlots
  <2> QED
    BY <1>2, <1>3, <2>1, CommitCommon DEF OwnSlotsInv, HasChunk
<1>11. HeldInv'
  <2>1. HeldOK(t)'
    <3>1. \A i : CommitHead(t, i)' = CommitHead(t, i)
      BY <1>2 DEF CommitHead
    <3>2. OwnPayload(t)' = OwnPayload(t) /\ HeldSlots(t)' = HeldSlots(t)
      BY <1>2 DEF OwnPayload, HeldSlots
    <3>3. ASSUME NEW i \in HeldSlots(t)
          PROVE  IF held[t].first < i /\ i <= held[t].first + stored[t] + 1
                 THEN head'[<<o, d, i>>] = CommitHead(t, i)
                 ELSE head'[<<o, d, i>>].kind = "none"
      <4>1. i \in Slots /\ i \in Nat
        BY <1>5 DEF Slots
      <4>2. CASE i = n
        BY <1>5, <1>6, <1>7, <4>2
      <4>3. CASE i # n
        <5>1. head'[<<o, d, i>>] = head[<<o, d, i>>]
          BY <1>7, <4>1, <4>3
        <5>2. i <= held[t].first + stored[t] + 1 <=>
                i <= held[t].first + stored[t]
          BY <1>5, <1>6, <4>1, <4>3
        <5> QED
          BY <1>7, <1>5, <5>1, <5>2 DEF HeldOK
      <4> QED
        BY <4>2, <4>3
    <3>4. /\ held'[t].first + held'[t].count = cache'[t].next
          /\ stored'[t] < held'[t].count
      BY <1>2, <1>3, <1>5, <1>6
    <3>5. \A i \in HeldSlots(t)' :
            IF held'[t].first < i /\ i <= held'[t].first + stored'[t]
            THEN head'[<<cache'[t].owner, cache'[t].chunk, i>>]
                   = CommitHead(t, i)'
            ELSE head'[<<cache'[t].owner, cache'[t].chunk, i>>].kind = "none"
      <4>1. held'[t].first + stored'[t] = held[t].first + stored[t] + 1
        BY <1>2, <1>3, <1>5
      <4> QED
        BY <1>2, <1>7, <3>1, <3>2, <3>3, <4>1
    <3>6. \A i \in HeldSlots(t)' :
            payload'[<<cache'[t].owner, cache'[t].chunk, i>>] = OwnPayload(t)'
      BY <1>2, <1>5, <3>2 DEF HeldOK
    <3> QED
      BY <3>4, <3>5, <3>6 DEF HeldOK
  <2> QED
    BY <1>2, <1>3, <2>1, CommitCommon DEF HeldInv
<1>12. NothingHidden'
  <2> SUFFICES ASSUME NEW l \in Loggers, NEW c \in Chunks, NEW i \in Slots,
                      Committed(l, c, i)'
               PROVE  Visible(l, c, i)' \/ \E u \in Threads :
                                             InFlight(u, l, c, i)'
    BY DEF NothingHidden
  <2>1. CASE <<l, c, i>> = <<o, d, n>>
    <3>1. InFlight(t, o, d, n)
      BY <1>7, <1>5 DEF InFlight
    <3>2. InFlight(t, l, c, i)'
      BY <1>8, <2>1, <3>1
    <3> QED
      BY <3>2
  <2>2. CASE <<l, c, i>> # <<o, d, n>>
    <3>1. Committed(l, c, i)
      BY <1>7, <2>2 DEF Committed
    <3> QED
      BY <1>8, <3>1, CommitKeeps DEF IInv, NothingHidden
  <2> QED
    BY <2>1, <2>2
<1>13. DefinitionPrecedesMessage'
  <2> SUFFICES ASSUME NEW l \in Loggers, NEW c \in Chunks, NEW i \in Slots,
                      head'[<<l, c, i>>].kind = "msg"
               PROVE  DefinitionVisible(l, payload[<<l, c, i>>].site)'
    BY DEF DefinitionPrecedesMessage
  <2>1. head'[<<l, c, i>>] = head[<<l, c, i>>]
    BY <1>7
  <2>2. PICK s : s = payload[<<l, c, i>>].site /\ DefinitionVisible(l, s)
    BY <2>1 DEF IInv, DefinitionPrecedesMessage
  <2>3. DefinitionVisible(l, s)'
    BY <2>2, CommitKeeps
  <2> QED
    BY <1>2, <2>2, <2>3
<1>14. KnownInv'
  <2>1. \A u \in Threads : job[u].kind = "msg" \/ pc[u] = "announce" =>
                             job[u].log \in Loggers
    BY DEF IInv, JobInv, JobOK, TypeOK, Job, NoJob
  <2> QED
    BY <1>2, <2>1, CommitKeeps DEF IInv, KnownInv
<1>15. ExclusiveChunks' /\ UnclaimedInv' /\ WrittenBeforeCommitted'
  BY <1>2, <1>3, CommitCommon
<1> QED
  BY <1>1, <1>9, <1>10, <1>11, <1>12, <1>13, <1>14, <1>15 DEF IInv

(* The last word of a call: every slot of the thread's chunk below next is *)
(* now committed, so that the whole call has become visible.               *)
LEMMA CommitLastStep ==
  ASSUME IInv, NEW t \in Threads, Commit(t), LastCommit(t)
  PROVE  IInv'
<1>1. TypeOK'
  BY CommitType DEF IInv
<1>2. /\ UNCHANGED <<cursor, stamp, payload, key, cache>>
      /\ pc[t] = "commit"
      /\ stored' = [stored EXCEPT ![t] = 0]
      /\ held' = [held EXCEPT ![t] = NoHeld]
      /\ IF job[t].kind = "def"
         THEN pc' = [pc EXCEPT ![t] = "announce"] /\ job' = job
         ELSE /\ pc' = [pc EXCEPT ![t] = "idle"]
              /\ job' = [job EXCEPT ![t] = NoJob]
  BY DEF Commit, Goto
<1>3. /\ stored'[t] = 0
      /\ IF job[t].kind = "def"
         THEN pc'[t] = "announce" /\ job'[t] = job[t]
         ELSE pc'[t] = "idle" /\ job'[t] = NoJob
      /\ \A u \in Threads : u # t => /\ pc'[u] = pc[u] /\ job'[u] = job[u]
                                     /\ held'[u] = held[u]
                                     /\ stored'[u] = stored[u]
  BY <1>2 DEF IInv, TypeOK
<1>4. PICK o \in Loggers, d \in Chunks, n \in Slots : Stores(t, o, d, n)
  BY CommitFacts
<1>5. /\ HeldOK(t) /\ HeldSlots(t) \subseteq Slots /\ HoldsSlots(t)
      /\ held[t].first \in Nat \ {0} /\ held[t].count \in Nat
      /\ stored[t] \in Nat
      /\ held[t].first + held[t].count = cache[t].next
      /\ CacheOK(t) /\ HasChunk(t) /\ OwnSlotsOK(t) /\ JobOK(t)
  BY <1>2, HeldPlaces
     DEF HoldsSlots, HeldOK, IInv, TypeOK, Held, CacheInv, CacheOK,
         OwnSlotsInv, JobInv
<1>6. stored[t] + 1 = held[t].count /\ n = held[t].first
  BY <1>4, <1>5 DEF LastCommit, NextCommit, Stores
<1>7. /\ o = cache[t].owner /\ d = cache[t].chunk /\ n \in HeldSlots(t)
      /\ head'[<<o, d, n>>].kind = job[t].kind
      /\ head'[<<o, d, n>>].kind # "none"
      /\ \A l \in Loggers, c \in Chunks, i \in Slots :
           <<l, c, i>> # <<o, d, n>> => head'[<<l, c, i>>] = head[<<l, c, i>>]
  BY <1>4, <1>6 DEF Stores
<1>8. \A i \in Slots : i < cache[t].next => head'[<<o, d, i>>].kind # "none"
  <2> SUFFICES ASSUME NEW i \in Slots, i < cache[t].next, i # n
               PROVE  head[<<o, d, i>>].kind # "none"
    BY <1>7
  <2>1. CASE i \in HeldSlots(t)
    <3>1. held[t].first < i /\ i <= held[t].first + stored[t]
      BY <1>5, <1>6, <2>1 DEF HeldSlots
    <3>2. head[<<o, d, i>>] = CommitHead(t, i)
      BY <1>5, <1>7, <2>1, <3>1 DEF HeldOK
    <3>3. CommitHead(t, i).kind = "cont"
      BY <1>6 DEF CommitHead
    <3> QED
      BY <3>2, <3>3
  <2>2. CASE i \notin HeldSlots(t)
    BY <1>5, <1>7, <2>2 DEF OwnSlotsOK, InFlight, Committed
  <2> QED
    BY <2>1, <2>2
<1>9. \A i \in HeldSlots(t) : Visible(o, d, i)'
  <2> TAKE i \in HeldSlots(t)
  <2>1. Stamped(o, d)'
    BY <1>2, <1>5, <1>7 DEF CacheOK, Stamped
  <2>2. i \in Slots /\ i < cache[t].next
    BY <1>5 DEF HeldSlots
  <2>3. \A j \in 1..i : j \in Slots /\ j < cache[t].next
    BY <1>5, <2>2 DEF Slots
  <2>4. \A j \in 1..i : Committed(o, d, j)'
    BY <1>8, <2>3 DEF Committed
  <2> QED
    BY <2>1, <2>4 DEF Visible
<1>10. \A u \in Threads : \A l, c, i :
         u # t => (InFlight(u, l, c, i)' <=> InFlight(u, l, c, i))
  BY <1>2, <1>3 DEF HoldsSlots, InFlight, HeldSlots
<1>11. JobInv'
  <2>1. JobOK(t)'
    BY <1>2, <1>3, <1>5 DEF JobOK, NoJob
  <2> QED
    BY <1>3, <2>1, CommitCommon DEF JobInv
<1>12. CacheInv'
  <2>1. CacheOK(t)'
    BY <1>2, <1>3, <1>5 DEF CacheOK, HasChunk
  <2> QED
    BY <1>3, <2>1, CommitCommon DEF CacheInv
<1>13. StoredInv'
  BY <1>3 DEF IInv, StoredInv
<1>14. OwnSlotsInv'
  <2>1. OwnSlotsOK(t)'
    <3>1. ASSUME NEW i \in Slots, i >= cache[t].next
          PROVE  head'[<<o, d, i>>].kind = "none"
      <4>1. i # n
        BY <1>5, <1>6, <3>1
      <4> QED
        BY <1>5, <1>7, <3>1, <4>1 DEF OwnSlotsOK, Committed
    <3> QED
      BY <1>2, <1>7, <1>8, <3>1 DEF OwnSlotsOK, Committed
  <2> QED
    BY <1>3, <2>1, CommitCommon DEF OwnSlotsInv
<1>15. HeldInv'
  <2>1. ~HoldsSlots(t)'
    BY <1>3 DEF HoldsSlots
  <2> QED
    BY <1>3, <2>1, CommitCommon DEF HeldInv
<1>16. NothingHidden'
  <2> SUFFICES ASSUME NEW l \in Loggers, NEW c \in Chunks, NEW i \in Slots,
                      Committed(l, c, i)'
               PROVE  Visible(l, c, i)' \/ \E u \in Threads :
                                             InFlight(u, l, c, i)'
    BY DEF NothingHidden
  <2>1. CASE <<l, c, i>> = <<o, d, n>>
    BY <1>7, <1>9, <2>1
  <2>2. CASE <<l, c, i>> # <<o, d, n>>
    <3>1. Committed(l, c, i)
      BY <1>7, <2>2 DEF Committed
    <3>2. CASE Visible(l, c, i)
      BY <3>2, CommitKeeps
    <3>3. CASE InFlight(t, l, c, i)
      BY <1>7, <1>9, <3>3 DEF InFlight
    <3>4. CASE \E u \in Threads : u # t /\ InFlight(u, l, c, i)
      BY <1>10, <3>4
    <3> QED
      BY <3>1, <3>2, <3>3, <3>4 DEF IInv, NothingHidden
  <2> QED
    BY <2>1, <2>2
<1>17. /\ payload[<<o, d, n>>].site = job[t].site
       /\ o = job[t].log
  BY <1>2, <1>5, <1>7 DEF HeldOK, OwnPayload, CacheOK
<1>18. DefinitionPrecedesMessage'
  <2> SUFFICES ASSUME NEW l \in Loggers, NEW c \in Chunks, NEW i \in Slots,
                      head'[<<l, c, i>>].kind = "msg"
               PROVE  DefinitionVisible(l, payload[<<l, c, i>>].site)'
    BY DEF DefinitionPrecedesMessage
  <2>1. PICK s : s = payload[<<l, c, i>>].site
    OBVIOUS
  <2>2. DefinitionVisible(l, s)
    <3>1. CASE <<l, c, i>> = <<o, d, n>>
      BY <1>7, <1>17, <2>1, <3>1 DEF IInv, KnownInv
    <3>2. CASE <<l, c, i>> # <<o, d, n>>
      BY <1>7, <2>1, <3>2 DEF IInv, DefinitionPrecedesMessage
    <3> QED
      BY <3>1, <3>2
  <2>3. DefinitionVisible(l, s)'
    BY <2>2, CommitKeeps
  <2> QED
    BY <1>2, <2>1, <2>3
<1>19. KnownInv'
  <2>1. \A u \in Threads : job[u].kind = "msg" \/ pc[u] = "announce" =>
                             job[u].log \in Loggers
    BY DEF IInv, JobInv, JobOK, TypeOK, Job, NoJob
  <2>2. ASSUME NEW u \in Threads, u # t,
               pc'[u] = "announce" \/ job'[u].kind = "msg"
        PROVE  DefinitionVisible(job[u].log, job[u].site)'
    <3>0. PICK l \in Loggers : l = job[u].log
      BY <1>3, <2>1, <2>2
    <3>1. PICK s : s = job[u].site /\ DefinitionVisible(l, s)
      BY <1>3, <2>2, <3>0 DEF IInv, KnownInv
    <3>2. DefinitionVisible(l, s)'
      BY <3>1, CommitKeeps
    <3> QED
      BY <1>3, <2>2, <3>0, <3>1, <3>2
  <2>3. ASSUME pc'[t] = "announce" \/ job'[t].kind = "msg"
        PROVE  DefinitionVisible(job[t].log, job[t].site)'
    <3>1. job[t].kind = "def" /\ job'[t] = job[t]
      BY <1>3, <2>3 DEF NoJob
    <3>2. PICK s : s = job[t].site
      OBVIOUS
    <3>3. /\ Visible(o, d, n)'
          /\ head'[<<o, d, n>>].kind = "def"
          /\ payload'[<<o, d, n>>].site = s
      BY <1>2, <1>7, <1>9, <1>17, <3>1, <3>2
    <3>4. DefinitionVisible(o, s)'
      BY <3>3 DEF DefinitionVisible
    <3> QED
      BY <1>17, <3>1, <3>2, <3>4
  <2>4. ASSUME NEW s \in Sites, key'[s] \in Loggers
        PROVE  DefinitionVisible(key[s], s)'
    <3>1. PICK l \in Loggers : l = key[s] /\ DefinitionVisible(l, s)
      BY <1>2, <2>4 DEF IInv, KnownInv
    <3>2. DefinitionVisible(l, s)'
      BY <3>1, CommitKeeps
    <3> QED
      BY <1>2, <3>1, <3>2
  <2> QED
    BY <2>2, <2>3, <2>4 DEF KnownInv
<1>20. ExclusiveChunks' /\ UnclaimedInv' /\ WrittenBeforeCommitted'
  BY <1>3, CommitCommon
<1> QED
  BY <1>1, <1>11, <1>12, <1>13, <1>14, <1>15, <1>16, <1>18, <1>19, <1>20
  DEF IInv

-----------------------------------------------------------------------------
(* The invariant.                                                          *)

LEMMA InitInv == Init => IInv
<1> SUFFICES ASSUME Init
             PROVE  IInv
  OBVIOUS
<1>1. TypeOK
  BY InitType
<1>2. /\ \A t \in Threads : /\ pc[t] = "idle" /\ job[t] = NoJob
                            /\ cache[t] = NoCache /\ stored[t] = 0
      /\ \A l \in Loggers, c \in Chunks, i \in Slots :
           head[<<l, c, i>>] = ZeroWord
      /\ \A s \in Sites : key[s] = NoLogger
  BY DEF Init, Places
<1>3. JobInv /\ CacheInv /\ StoredInv
  <2>1. JobInv /\ StoredInv
    <3>1. \A t \in Threads : /\ job[t].log = NoLogger /\ job[t].kind = "sub"
                              /\ job[t].site = NoSite
      BY <1>2 DEF NoJob
    <3> QED
      BY <1>2, <3>1 DEF JobInv, JobOK, StoredInv
  <2>2. ASSUME NEW t \in Threads
        PROVE  CacheOK(t)
    <3>1. /\ cache[t].chunk = 0 /\ cache[t].next = 1 /\ cache[t].used = 0
          /\ pc[t] = "idle"
      BY <1>2 DEF NoCache
    <3> QED
      BY <3>1 DEF CacheOK, HasChunk
  <2> QED
    BY <2>1, <2>2 DEF CacheInv
<1>4. ExclusiveChunks /\ OwnSlotsInv /\ HeldInv
  BY <1>2 DEF ExclusiveChunks, OwnSlotsInv, HasChunk, NoCache, HeldInv,
              HoldsSlots
<1>5. UnclaimedInv /\ WrittenBeforeCommitted /\ NothingHidden
  BY <1>2 DEF UnclaimedInv, WrittenBeforeCommitted, NothingHidden, Committed,
              ZeroWord
<1>6. DefinitionPrecedesMessage
  BY <1>2 DEF DefinitionPrecedesMessage, ZeroWord
<1>7. KnownInv
  BY <1>2 DEF KnownInv, NoJob
<1> QED
  BY <1>1, <1>3, <1>4, <1>5, <1>6, <1>7 DEF IInv

LEMMA CallStep ==
  ASSUME IInv, NEW t \in Threads, Call(t)
  PROVE  IInv'
<1>1. ASSUME NEW l \in Loggers, NEW s \in Sites, NEW m \in Shapes,
             EmitRecord(t, l, s, m)
      PROVE  IInv'
  <2>1. CASE key[s] = l
    <3>1. DefinitionVisible(l, s)
      BY <2>1 DEF IInv, KnownInv
    <3> QED
      BY <1>1, <2>1, <3>1, StartStep DEF EmitRecord
  <2>2. CASE key[s] # l
    BY <1>1, <2>2, StartStep DEF EmitRecord
  <2> QED
    BY <2>1, <2>2
<1>2. ASSUME NEW l \in Loggers, NEW m \in NameShapes,
             DeclareSubsystem(t, l, m)
      PROVE  IInv'
  BY <1>2, StartStep DEF DeclareSubsystem
<1> QED
  BY <1>1, <1>2 DEF Call

LEMMA StutterStep ==
  ASSUME IInv, UNCHANGED vars
  PROVE  IInv'
<1>1. TypeOK' /\ JobInv' /\ CacheInv' /\ StoredInv'
  BY DEF IInv, vars, TypeOK, JobInv, JobOK, CacheInv, CacheOK, HasChunk,
         StoredInv
<1>2. ExclusiveChunks'
  BY DEF IInv, vars, ExclusiveChunks
<1>3. UnclaimedInv'
  BY MemoryFrame DEF IInv, vars, UnclaimedInv
<1>4. OwnSlotsInv'
  BY MemoryFrame DEF IInv, vars, OwnSlotsInv, OwnSlotsOK, HasChunk, InFlight,
                     HoldsSlots, HeldSlots
<1>5. HeldInv'
  BY DEF IInv, vars, HeldInv, HeldOK, HoldsSlots, HeldSlots, CommitHead,
         OwnPayload
<1>6. WrittenBeforeCommitted' /\ DefinitionPrecedesMessage'
  BY MemoryFrame DEF IInv, vars
<1>7. NothingHidden'
  BY MemoryFrame DEF IInv, vars, NothingHidden, InFlight, HoldsSlots, HeldSlots
<1>8. KnownInv'
  BY MemoryFrame DEF IInv, vars, KnownInv
<1> QED
  BY <1>1, <1>2, <1>3, <1>4, <1>5, <1>6, <1>7, <1>8 DEF IInv

LEMMA NextInv == IInv /\ [Next]_vars => IInv'
<1> SUFFICES ASSUME IInv, [Next]_vars
             PROVE  IInv'
  OBVIOUS
<1>1. CASE UNCHANGED vars
  BY <1>1, StutterStep
<1>2. ASSUME NEW t \in Threads, Call(t)
      PROVE  IInv'
  BY <1>2, CallStep
<1>3. ASSUME NEW t \in Threads, Advance(t)
      PROVE  IInv'
  <2>1. CASE Commit(t)
    BY <2>1, CommitMoreStep, CommitLastStep
  <2> QED
    BY <1>3, <2>1, CurrentWriterStep, RefillWriterStep, StampHeaderStep,
       ReserveStep, RetryStep, CountDropStep, FillPayloadStep, AnnounceStep
    DEF Advance
<1> QED
  BY <1>1, <1>2, <1>3 DEF Next, Quiet

(* What the producer maintains, whatever the interleaving of its threads.  *)
THEOREM Invariance == Spec => []IInv
BY InitInv, NextInv, PTL DEF Spec

(* The state of the producer is well typed: no claim, reservation or       *)
(* counter leaves its range (segment.hpp, chunk.hpp).                      *)
THEOREM TypeCorrect == Spec => []TypeOK
<1>1. IInv => TypeOK
  BY DEF IInv
<1> QED
  BY <1>1, Invariance, PTL

(* No two threads ever hold the same chunk of a segment (Segment::         *)
(* claimChunk), for any number of threads, chunks and Loggers and with     *)
(* either kind of atomics.                                                 *)
THEOREM Exclusion == Spec => []ExclusiveChunks
<1>1. IInv => ExclusiveChunks
  BY DEF IInv
<1> QED
  BY <1>1, Invariance, PTL

(* A committed head word always stands over a written payload              *)
(* (ChunkWriter::commit).                                                  *)
THEOREM CommitLast == Spec => []WrittenBeforeCommitted
<1>1. IInv => WrittenBeforeCommitted
  BY DEF IInv
<1> QED
  BY <1>1, Invariance, PTL

(* Whatever a thread has committed can be read, but for the chain it is in *)
(* the middle of committing (detail/emit.hpp, reserveChain).               *)
THEOREM CommittedIsReadable == Spec => []NothingHidden
<1>1. IInv => NothingHidden
  BY DEF IInv
<1> QED
  BY <1>1, Invariance, PTL

(* Every segment that holds a Message holds its definition, readable       *)
(* (detail/emit.hpp, emitRecord).                                          *)
THEOREM SelfDescription == Spec => []DefinitionPrecedesMessage
<1>1. IInv => DefinitionPrecedesMessage
  BY DEF IInv
<1> QED
  BY <1>1, Invariance, PTL

LEMMA FinalStep ==
  ASSUME IInv, [Next]_vars,
         NEW l \in Loggers, NEW c \in Chunks, NEW i \in Slots,
         Committed(l, c, i)
  PROVE  /\ head'[<<l, c, i>>] = head[<<l, c, i>>]
         /\ payload'[<<l, c, i>>] = payload[<<l, c, i>>]
<1>1. ASSUME NEW t \in Threads, FillPayload(t)
      PROVE  head' = head /\ payload'[<<l, c, i>>] = payload[<<l, c, i>>]
  <2>1. /\ HoldsSlots(t) /\ stored[t] = 0 /\ held[t].first \in Nat
        /\ held[t].count \in Nat
    BY <1>1 DEF FillPayload, HoldsSlots, IInv, StoredInv, TypeOK, Held
  <2>2. HeldOK(t)
    BY <2>1 DEF IInv, HeldInv
  <2>3. ~InFlight(t, l, c, i)
    <3> SUFFICES ASSUME InFlight(t, l, c, i)
                 PROVE  FALSE
      OBVIOUS
    <3>1. ~(held[t].first < i /\ i <= held[t].first + stored[t])
      BY <2>1 DEF Slots
    <3> QED
      BY <2>2, <3>1 DEF HeldOK, InFlight, Committed
  <2> QED
    BY <1>1, <2>3 DEF FillPayload, Places
<1>2. ASSUME NEW t \in Threads, Call(t)
      PROVE  UNCHANGED <<head, payload>>
  BY <1>2 DEF Call, EmitRecord, DeclareSubsystem, Start, segmentVars
<1>3. ASSUME NEW t \in Threads, Advance(t), ~FillPayload(t), ~Commit(t)
      PROVE  UNCHANGED <<head, payload>>
  BY <1>3 DEF Advance, CurrentWriter, RefillWriter, StampHeader, Reserve,
              Retry, CountDrop, Announce, segmentVars
<1> QED
  BY <1>1, <1>2, <1>3, CommitKeeps DEF Next, Advance, Quiet, vars

(* A record once committed is never written again, by any thread: not its  *)
(* head word and not its payload (chunk.hpp, segment.hpp).                 *)
THEOREM Finality == Spec => CommittedIsFinal
<1>1. IInv /\ [Next]_vars =>
        [\A l \in Loggers, c \in Chunks, i \in Slots :
           Committed(l, c, i) =>
             /\ head'[<<l, c, i>>] = head[<<l, c, i>>]
             /\ payload'[<<l, c, i>>] = payload[<<l, c, i>>]]_vars
  BY FinalStep
<1> QED
  BY <1>1, Invariance, PTL DEF Spec, CommittedIsFinal

HIDE SizesAssumption
HIDE NamesAssumption

-----------------------------------------------------------------------------
(* What a step is for the calls.                                           *)

(* A call begins on Logger l.                                              *)
Begins(t, l) ==
  /\ pc[t] = "idle" /\ pc'[t] = "current"
  /\ attempts[l] < MaxEmits
  /\ attempts' = [attempts EXCEPT ![l] = @ + 1]
  /\ job'[t].log = l /\ job'[t].call = attempts[l] + 1
  /\ \A u \in Threads : u # t => pc'[u] = pc[u] /\ job'[u] = job[u]
  /\ UNCHANGED <<stamp, head, payload, dropped>>

(* A call ends: it leaves the emit path.                                   *)
Ends(t) ==
  /\ pc[t] # "idle" /\ pc'[t] = "idle" /\ job'[t] = NoJob
  /\ \A u \in Threads : u # t => pc'[u] = pc[u] /\ job'[u] = job[u]
  /\ attempts' = attempts

Drops(t) ==
  /\ Ends(t)
  /\ dropped' = [dropped EXCEPT ![job[t].log] = @ + 1]
  /\ UNCHANGED <<stamp, head, payload>>

Finishes(t) ==
  /\ Ends(t)
  /\ Commit(t) /\ LastCommit(t) /\ job[t].kind # "def"
  /\ dropped' = dropped

(* The calls go on.                                                        *)
GoesOn ==
  /\ UNCHANGED <<attempts, dropped>>
  /\ \A u \in Threads : /\ job'[u].log = job[u].log
                        /\ job'[u].call = job[u].call
                        /\ pc'[u] = "idle" <=> pc[u] = "idle"
  /\ \A u \in Threads : Commit(u) /\ LastCommit(u) => job[u].kind = "def"

(* A thread on the emit path has a Logger, an idle one has not.            *)
LEMMA BusyOrIdle ==
  ASSUME IInv, NEW t \in Threads
  PROVE  /\ pc[t] # "idle" => job[t].log \in Loggers
         /\ pc[t] = "idle" => job[t].log \notin Loggers
         /\ job[t].call \in Nat
<1>1. JobOK(t) /\ job[t] \in Job
  BY DEF IInv, JobInv, TypeOK
<1> QED
  BY <1>1, NamesAssumption DEF JobOK, Job, NoJob

LEMMA StartBegins ==
  ASSUME IInv, NEW t \in Threads, NEW l \in Loggers, NEW kind, NEW s, NEW m,
         Start(t, l, kind, s, m)
  PROVE  Begins(t, l)
<1>1. /\ job' = [job EXCEPT ![t] = [log |-> l, kind |-> kind, site |-> s,
                                    shape |-> m, call |-> attempts[l] + 1]]
      /\ pc' = [pc EXCEPT ![t] = "current"]
      /\ UNCHANGED <<stamp, head, payload, dropped>>
      /\ pc[t] = "idle" /\ attempts[l] < MaxEmits
      /\ attempts' = [attempts EXCEPT ![l] = @ + 1]
  BY DEF Start, Goto, segmentVars
<1>2. DOMAIN job = Threads /\ DOMAIN pc = Threads
  BY DEF IInv, TypeOK
<1>3. job'[t] = [log |-> l, kind |-> kind, site |-> s,
                 shape |-> m, call |-> attempts[l] + 1]
  BY <1>1, <1>2
<1> QED
  BY <1>1, <1>2, <1>3 DEF Begins

LEMMA DropDrops ==
  ASSUME IInv, NEW t \in Threads, CountDrop(t)
  PROVE  Drops(t)
BY DEF CountDrop, Goto, segmentVars, IInv, TypeOK, Drops, Ends

(* A step of a call in progress that is not its end.                       *)
LEMMA AdvanceGoesOn ==
  ASSUME IInv, NEW t \in Threads, Advance(t), ~CountDrop(t),
         ~(Commit(t) /\ LastCommit(t) /\ job[t].kind # "def")
  PROVE  GoesOn
<1>1. /\ \A u \in Threads : u # t => pc'[u] = pc[u] /\ job'[u] = job[u]
      /\ UNCHANGED <<attempts, dropped>>
      /\ pc[t] # "idle" /\ pc'[t] # "idle"
      /\ job'[t].log = job[t].log /\ job'[t].call = job[t].call
  <2>1. CASE CurrentWriter(t) \/ RefillWriter(t)
    BY <2>1 DEF CurrentWriter, RefillWriter, ClaimChunk, Goto, counterVars,
                IInv, TypeOK
  <2>2. CASE StampHeader(t) \/ FillPayload(t)
    BY <2>2 DEF StampHeader, FillPayload, Goto, counterVars, IInv, TypeOK
  <2>3. CASE Reserve(t)
    BY <2>3 DEF Reserve, TakeChain, TakeSlots, Goto, counterVars, IInv, TypeOK
  <2>4. CASE Retry(t)
    BY <2>4 DEF Retry, TakeChain, TakeShortDefinition, TakeFlatMessage,
                TakeSlots, Goto, counterVars, IInv, TypeOK
  <2>5. CASE Commit(t)
    BY <2>5 DEF Commit, Goto, IInv, TypeOK
  <2>6. CASE Announce(t)
    <3>1. /\ pc' = [pc EXCEPT ![t] = "current"]
          /\ job' = [job EXCEPT ![t] = [log |-> job[t].log, kind |-> "msg",
                         site |-> job[t].site, shape |-> job[t].shape,
                         call |-> job[t].call]]
          /\ UNCHANGED <<attempts, dropped>> /\ pc[t] = "announce"
      BY <2>6 DEF Announce, Goto, counterVars
    <3> QED
      BY <3>1 DEF IInv, TypeOK
  <2> QED
    BY <2>1, <2>2, <2>3, <2>4, <2>5, <2>6 DEF Advance
<1>2. ASSUME NEW u \in Threads, Commit(u), LastCommit(u)
      PROVE  job[u].kind = "def"
  <2>1. CASE u = t
    BY <1>2, <2>1
  <2>2. CASE u # t
    <3>1. pc'[u] = pc[u]
      BY <1>1, <2>2
    <3>2. pc[u] = "commit" /\ pc'[u] \in {"announce", "idle"}
      BY <1>2 DEF Commit, Goto, IInv, TypeOK
    <3> QED
      BY <3>1, <3>2
  <2> QED
    BY <2>1, <2>2
<1> QED
  BY <1>1, <1>2 DEF GoesOn

LEMMA StepKinds ==
  ASSUME IInv, [Next]_vars
  PROVE  \/ \E t \in Threads, l \in Loggers : Begins(t, l)
         \/ \E t \in Threads : Drops(t) \/ Finishes(t)
         \/ GoesOn
<1>1. CASE UNCHANGED vars
  <2>1. \A u \in Threads : ~(Commit(u) /\ LastCommit(u))
    BY <1>1 DEF vars, Commit, Goto, IInv, TypeOK
  <2> QED
    BY <1>1, <2>1 DEF vars, GoesOn
<1>2. ASSUME NEW t \in Threads, Call(t)
      PROVE  \E l \in Loggers : Begins(t, l)
  BY <1>2, StartBegins DEF Call, EmitRecord, DeclareSubsystem
<1>3. ASSUME NEW t \in Threads, Commit(t), LastCommit(t), job[t].kind # "def"
      PROVE  Finishes(t)
  BY <1>3 DEF Finishes, Ends, Commit, Goto, IInv, TypeOK
<1>4. ASSUME NEW t \in Threads, Advance(t)
      PROVE  Drops(t) \/ Finishes(t) \/ GoesOn
  BY <1>3, <1>4, DropDrops, AdvanceGoesOn
<1> QED
  BY <1>1, <1>2, <1>4 DEF Next, Quiet

-----------------------------------------------------------------------------
(* What a step is for the segments.                                        *)

(* Only a commit changes a head word, and only the one it stores.          *)
LEMMA NewWord ==
  ASSUME IInv, [Next]_vars,
         NEW l \in Loggers, NEW c \in Chunks, NEW i \in Slots
  PROVE  \/ head'[<<l, c, i>>] = head[<<l, c, i>>]
         \/ \E t \in Threads : Commit(t) /\ Stores(t, l, c, i)
<1>1. CASE head' = head
  BY <1>1
<1>2. ASSUME NEW t \in Threads, Commit(t)
      PROVE  \/ head'[<<l, c, i>>] = head[<<l, c, i>>]
             \/ Stores(t, l, c, i)
  <2>1. PICK o \in Loggers, d \in Chunks, n \in Slots : Stores(t, o, d, n)
    BY <1>2, CommitFacts
  <2>2. CASE <<l, c, i>> = <<o, d, n>>
    BY <2>1, <2>2
  <2>3. CASE <<l, c, i>> # <<o, d, n>>
    BY <2>1, <2>3 DEF Stores
  <2> QED
    BY <2>2, <2>3
<1>3. ASSUME NEW t \in Threads, Call(t) \/ (Advance(t) /\ ~Commit(t))
      PROVE  head' = head
  BY <1>3 DEF Call, EmitRecord, DeclareSubsystem, Start, segmentVars,
              Advance, CurrentWriter, RefillWriter, StampHeader, Reserve,
              Retry, CountDrop, FillPayload, Announce
<1> QED
  BY <1>1, <1>2, <1>3 DEF Next, Quiet, vars

LEMMA StampStays ==
  ASSUME IInv, [Next]_vars, NEW l \in Loggers, NEW c \in Chunks, Stamped(l, c)
  PROVE  Stamped(l, c)'
<1>1. CASE stamp' = stamp
  BY <1>1 DEF Stamped
<1>2. ASSUME NEW t \in Threads, StampHeader(t)
      PROVE  Stamped(l, c)'
  <2>1. stamp' = [stamp EXCEPT ![<<cache[t].owner, cache[t].chunk>>] = t]
    BY <1>2 DEF StampHeader
  <2> QED
    BY <2>1, NamesAssumption DEF IInv, TypeOK, Stamped
<1>3. ASSUME NEW t \in Threads, Call(t) \/ (Advance(t) /\ ~StampHeader(t))
      PROVE  stamp' = stamp
  BY <1>3 DEF Call, EmitRecord, DeclareSubsystem, Start, segmentVars,
              Advance, CurrentWriter, RefillWriter, Reserve,
              Retry, CountDrop, FillPayload, Announce, Commit
<1> QED
  BY <1>1, <1>2, <1>3 DEF Next, Quiet, vars

(* What can be read stays.                                                 *)
LEMMA VisibleStays ==
  ASSUME IInv, [Next]_vars,
         NEW l \in Loggers, NEW c \in Chunks, NEW i \in Slots, Visible(l, c, i)
  PROVE  Visible(l, c, i)'
<1>0. \A j \in 1..i : j \in Slots
  BY SizesAssumption DEF Slots
<1>1. \A j \in 1..i : j \in Slots /\ Committed(l, c, j)
  BY <1>0 DEF Visible
<1>2. \A j \in 1..i : Committed(l, c, j)'
  BY <1>1, FinalStep DEF Committed
<1>3. Stamped(l, c)'
  BY StampStays DEF Visible
<1> QED
  BY <1>2, <1>3 DEF Visible

(* A record is readable as soon as the last head word of its call is       *)
(* stored, and only then: the whole reservation at once.                   *)
LEMMA NewVisible ==
  ASSUME IInv, [Next]_vars,
         NEW l \in Loggers, NEW c \in Chunks, NEW i \in Slots,
         Visible(l, c, i)', ~Visible(l, c, i)
  PROVE  \E t \in Threads : /\ Commit(t) /\ LastCommit(t)
                            /\ InFlight(t, l, c, i)
<1>0. \A j \in 1..i : j \in Slots /\ Committed(l, c, j)'
  <2>1. \A j \in 1..i : j \in Slots
    BY SizesAssumption DEF Slots
  <2> QED
    BY <2>1 DEF Visible
<1>1. CASE UNCHANGED <<stamp, head>>
  BY <1>1 DEF Visible, Stamped, Committed
<1>2. ASSUME NEW t \in Threads, StampHeader(t)
      PROVE  FALSE
  <2>1. /\ stamp' = [stamp EXCEPT ![<<cache[t].owner, cache[t].chunk>>] = t]
        /\ head' = head /\ pc[t] \in {"stamp", "restamp"}
    BY <1>2 DEF StampHeader
  <2>2. CASE l = cache[t].owner /\ c = cache[t].chunk
    <3>1. HasChunk(t) /\ cache[t].next = 1
      BY <2>1 DEF IInv, CacheInv, CacheOK
    <3>2. 1 \in Slots /\ 1 \in 1..i
      BY SizesAssumption DEF Slots
    <3>3. ~Committed(l, c, 1)
      BY <2>2, <3>1, <3>2 DEF IInv, OwnSlotsInv, OwnSlotsOK
    <3> QED
      BY <1>0, <2>1, <3>2, <3>3 DEF Committed
  <2>3. CASE ~(l = cache[t].owner /\ c = cache[t].chunk)
    <3>1. stamp'[<<l, c>>] = stamp[<<l, c>>]
      BY <2>1, <2>3 DEF IInv, TypeOK
    <3> QED
      BY <2>1, <3>1 DEF Visible, Stamped, Committed
  <2> QED
    BY <2>2, <2>3
<1>3. ASSUME NEW t \in Threads, Commit(t)
      PROVE  LastCommit(t) /\ InFlight(t, l, c, i)
  <2>1. PICK o \in Loggers, d \in Chunks, n \in Slots : Stores(t, o, d, n)
    BY <1>3, CommitFacts
  <2>2. /\ stamp' = stamp /\ pc[t] = "commit" /\ HoldsSlots(t)
        /\ HeldOK(t) /\ HeldSlots(t) \subseteq Slots
    BY <1>3, HeldPlaces DEF Commit, HoldsSlots
  <2>3. /\ held[t].first \in Nat \ {0} /\ held[t].count \in Nat
        /\ stored[t] \in Nat /\ stored[t] < held[t].count
        /\ held[t].first + held[t].count = cache[t].next
    BY <2>2 DEF IInv, TypeOK, Held, HeldOK
  <2>4. /\ o = cache[t].owner /\ d = cache[t].chunk /\ n = NextCommit(t)
        /\ n \in HeldSlots(t) /\ n \in Nat /\ i \in Nat \ {0}
        /\ held[t].first <= n /\ n < cache[t].next
    BY <2>1, <2>3 DEF Stores, HeldSlots, Slots
  <2>5. \A j \in 1..i : <<l, c, j>> # <<o, d, n>> => Committed(l, c, j)
    BY <1>0, <2>1 DEF Stores, Committed
  <2>6. l = o /\ c = d /\ n <= i
    <3> SUFFICES ASSUME ~(l = o /\ c = d /\ n <= i)
                 PROVE  FALSE
      OBVIOUS
    <3>1. \A j \in 1..i : Committed(l, c, j)
      BY <2>4, <2>5
    <3> QED
      BY <2>2, <3>1 DEF Visible, Stamped
  <2>7. LastCommit(t)
    <3> SUFFICES ASSUME ~LastCommit(t)
                 PROVE  FALSE
      OBVIOUS
    <3>1. n # held[t].first
      BY <2>3, <2>4 DEF LastCommit, NextCommit
    <3>2. held[t].first \in HeldSlots(t) /\ held[t].first \in 1..i
      BY <2>3, <2>4, <2>6 DEF HeldSlots
    <3>3. ~Committed(o, d, held[t].first)
      BY <2>2, <2>3, <2>4, <3>2 DEF HeldOK, Committed
    <3> QED
      BY <2>5, <2>6, <3>1, <3>2, <3>3
  <2>8. i < cache[t].next
    <3> SUFFICES ASSUME i >= cache[t].next
                 PROVE  FALSE
      BY <2>3, <2>4
    <3>1. HasChunk(t)
      BY <2>2 DEF IInv, CacheInv, CacheOK
    <3>2. ~Committed(o, d, i)
      BY <2>4, <3>1 DEF IInv, OwnSlotsInv, OwnSlotsOK
    <3>3. i # n /\ i \in 1..i
      BY <2>3, <2>4
    <3> QED
      BY <2>5, <2>6, <3>2, <3>3
  <2>9. i \in HeldSlots(t)
    BY <2>3, <2>4, <2>6, <2>8 DEF HeldSlots
  <2> QED
    BY <2>2, <2>4, <2>6, <2>7, <2>9 DEF InFlight
<1>4. ASSUME NEW t \in Threads,
             Call(t) \/ (Advance(t) /\ ~Commit(t) /\ ~StampHeader(t))
      PROVE  UNCHANGED <<stamp, head>>
  BY <1>4 DEF Call, EmitRecord, DeclareSubsystem, Start, segmentVars,
              Advance, CurrentWriter, RefillWriter, Reserve,
              Retry, CountDrop, FillPayload, Announce
<1> QED
  BY <1>1, <1>2, <1>3, <1>4 DEF Next, Quiet, vars

(* The last head word of a call makes its whole reservation readable.      *)
LEMMA LastFacts ==
  ASSUME IInv, NEW t \in Threads, Commit(t), LastCommit(t),
         NEW i \in HeldSlots(t),
         NEW o, o = cache[t].owner, NEW d, d = cache[t].chunk
  PROVE  /\ o \in Loggers /\ o = job[t].log /\ d \in Chunks /\ i \in Slots
         /\ head'[<<o, d, i>>] = CommitHead(t, i)
         /\ payload'[<<o, d, i>>] = OwnPayload(t)
         /\ Visible(o, d, i)'
         /\ held[t].first \in HeldSlots(t)
<1>0. PICK a \in Loggers, b \in Chunks, n \in Slots : Stores(t, a, b, n)
  BY CommitFacts
<1>1. Stores(t, o, d, n) /\ o \in Loggers /\ d \in Chunks
  BY <1>0 DEF Stores
<1>2. /\ stamp' = stamp /\ payload' = payload
      /\ pc[t] = "commit" /\ HoldsSlots(t)
      /\ HeldOK(t) /\ HeldSlots(t) \subseteq Slots
  BY HeldPlaces DEF Commit, HoldsSlots
<1>3. /\ held[t].first \in Nat \ {0} /\ held[t].count \in Nat
      /\ stored[t] \in Nat /\ stored[t] + 1 = held[t].count
      /\ held[t].first + held[t].count = cache[t].next
  BY <1>2 DEF IInv, TypeOK, Held, HeldOK, LastCommit
<1>4. /\ o = cache[t].owner /\ d = cache[t].chunk /\ n = held[t].first
      /\ o = job[t].log /\ HasChunk(t) /\ stamp[<<o, d>>] # NoThread
  BY <1>1, <1>2, <1>3 DEF Stores, NextCommit, IInv, CacheInv, CacheOK
<1>5. n \in HeldSlots(t) /\ payload[<<o, d, i>>] = OwnPayload(t)
  BY <1>2, <1>3, <1>4 DEF HeldSlots, HeldOK
<1>6. \A j \in HeldSlots(t) : head'[<<o, d, j>>] = CommitHead(t, j)
  <2> SUFFICES ASSUME NEW j \in HeldSlots(t)
               PROVE  head'[<<o, d, j>>] = CommitHead(t, j)
    OBVIOUS
  <2>1. CASE j = n
    BY <1>1, <2>1 DEF Stores
  <2>2. CASE j # n
    <3>1. held[t].first < j /\ j <= held[t].first + stored[t]
      BY <1>3, <1>4, <2>2 DEF HeldSlots
    <3>2. head[<<o, d, j>>] = CommitHead(t, j)
      BY <1>2, <1>4, <3>1 DEF HeldOK
    <3> QED
      BY <1>1, <1>2, <2>2, <3>2 DEF Stores
  <2> QED
    BY <2>1, <2>2
<1>7. \A j \in HeldSlots(t) : Committed(o, d, j)'
  <2>1. \A j : CommitHead(t, j).kind \in {job[t].kind, "cont"}
    BY DEF CommitHead
  <2>2. job[t].kind # "none"
    BY DEF IInv, TypeOK, Job
  <2> QED
    BY <1>6, <2>1, <2>2 DEF Committed
<1>8. \A j \in 1..i : Committed(o, d, j)'
  <2> SUFFICES ASSUME NEW j \in 1..i
               PROVE  Committed(o, d, j)'
    OBVIOUS
  <2>1. i \in Slots /\ j \in Slots /\ j < cache[t].next
    <3>1. i \in Slots /\ i \in Nat /\ i < cache[t].next
      BY <1>2, <1>3, SizesAssumption DEF HeldSlots, Slots
    <3> QED
      BY <1>3, <3>1, SizesAssumption DEF Slots
  <2>2. CASE j \in HeldSlots(t)
    BY <1>7, <2>2
  <2>3. CASE j \notin HeldSlots(t)
    <3>1. OwnSlotsOK(t) /\ ~InFlight(t, o, d, j)
      BY <1>4, <2>3 DEF IInv, OwnSlotsInv, InFlight
    <3>2. Committed(o, d, j)
      BY <1>4, <2>1, <3>1 DEF OwnSlotsOK
    <3> QED
      BY <1>1, <2>1, <3>2, CommitKeeps
  <2> QED
    BY <2>2, <2>3
<1>9. Visible(o, d, i)'
  BY <1>2, <1>4, <1>8 DEF Visible, Stamped
<1>10. /\ head'[<<o, d, i>>] = CommitHead(t, i)
       /\ payload'[<<o, d, i>>] = OwnPayload(t)
       /\ i \in Slots
  BY <1>2, <1>5, <1>6
<1> QED
  BY <1>1, <1>4, <1>5, <1>9, <1>10

-----------------------------------------------------------------------------
(* The invariant of calls, words and chains.                               *)

LEMMA AttemptsGrow ==
  ASSUME IInv, [Next]_vars, NEW l \in Loggers
  PROVE  attempts[l] \in Nat /\ attempts'[l] \in Nat /\ attempts[l] <= attempts'[l]
<1>0. attempts \in [Loggers -> Nat]
  BY DEF IInv, TypeOK
<1>1. CASE attempts' = attempts
  BY <1>0, <1>1
<1>2. ASSUME NEW t \in Threads, NEW k \in Loggers, Begins(t, k)
      PROVE  attempts'[l] \in Nat /\ attempts[l] <= attempts'[l]
  BY <1>0, <1>2 DEF Begins
<1> QED
  BY <1>0, <1>1, <1>2, StepKinds DEF Drops, Finishes, Ends, GoesOn

LEMMA CallsStep ==
  ASSUME LedgerInv, [Next]_vars
  PROVE  CallsInv'
<1>0. /\ IInv /\ CallsInv /\ attempts \in [Loggers -> Nat]
      /\ \A t \in Threads : job[t].call \in Nat
      /\ \A t \in Threads : pc[t] # "idle" => job[t].log \in Loggers
  BY BusyOrIdle DEF LedgerInv, IInv, TypeOK
<1>1. ASSUME NEW t \in Threads, NEW l \in Loggers, Begins(t, l)
      PROVE  CallsInv'
  <2>1. /\ attempts'[l] = attempts[l] + 1
        /\ \A k \in Loggers : k # l => attempts'[k] = attempts[k]
        /\ \A k \in Loggers : attempts[k] \in Nat /\ attempts[k] <= attempts'[k]
        /\ job'[t].log = l /\ job'[t].call = attempts[l] + 1
        /\ \A u \in Threads : u # t => pc'[u] = pc[u] /\ job'[u] = job[u]
        /\ attempts[l] < MaxEmits /\ MaxEmits \in Nat
    BY <1>0, <1>1, SizesAssumption DEF Begins
  <2>2. \A k \in Loggers : attempts'[k] <= MaxEmits
    BY <1>0, <2>1 DEF CallsInv
  <2>3. \A u \in Threads : pc'[u] # "idle" =>
          job'[u].call \in 1..attempts'[job'[u].log]
    <3> SUFFICES ASSUME NEW u \in Threads, pc'[u] # "idle"
                 PROVE  job'[u].call \in 1..attempts'[job'[u].log]
      OBVIOUS
    <3>1. CASE u = t
      BY <2>1, <3>1
    <3>2. CASE u # t
      <4>1. /\ job'[u].log = job[u].log /\ job'[u].call = job[u].call
            /\ job[u].log \in Loggers /\ job[u].call \in 1..attempts[job[u].log]
        BY <1>0, <2>1, <3>2 DEF CallsInv
      <4>2. PICK k \in Loggers : k = job[u].log
        BY <4>1
      <4> QED
        BY <2>1, <4>1, <4>2
    <3> QED
      BY <3>1, <3>2
  <2>4. \A u, v \in Threads :
          u # v /\ pc'[u] # "idle" /\ pc'[v] # "idle"
            /\ job'[u].log = job'[v].log => job'[u].call # job'[v].call
    <3>1. \A u \in Threads : u # t /\ pc'[u] # "idle" /\ job'[u].log = l =>
            job'[u].call # attempts[l] + 1
      BY <1>0, <2>1 DEF CallsInv
    <3> QED
      BY <1>0, <2>1, <3>1 DEF CallsInv
  <2> QED
    BY <2>2, <2>3, <2>4 DEF CallsInv
<1>2. ASSUME NEW t \in Threads, Ends(t)
      PROVE  CallsInv'
  BY <1>0, <1>2 DEF Ends, CallsInv
<1>3. CASE GoesOn
  BY <1>0, <1>3 DEF GoesOn, CallsInv
<1> QED
  BY <1>0, <1>1, <1>2, <1>3, StepKinds DEF Drops, Finishes

LEMMA WordsStep ==
  ASSUME LedgerInv, [Next]_vars
  PROVE  WordsInv'
<1> SUFFICES ASSUME NEW l \in Loggers, NEW c \in Chunks, NEW i \in Slots
             PROVE  /\ ~Committed(l, c, i)' => ~head'[<<l, c, i>>].more
                    /\ Committed(l, c, i)' =>
                         payload'[<<l, c, i>>].call \in 1..attempts'[l]
  BY DEF WordsInv
<1>0. IInv /\ WordsInv /\ CallsInv
  BY DEF LedgerInv
<1>1. attempts[l] \in Nat /\ attempts'[l] \in Nat /\ attempts[l] <= attempts'[l]
  BY <1>0, AttemptsGrow
<1>2. CASE Committed(l, c, i)
  <2>1. /\ head'[<<l, c, i>>] = head[<<l, c, i>>]
        /\ payload'[<<l, c, i>>] = payload[<<l, c, i>>]
    BY <1>0, <1>2, FinalStep
  <2>2. payload[<<l, c, i>>].call \in Nat
    BY <1>0 DEF IInv, TypeOK, Payload, Places
  <2> QED
    BY <1>0, <1>1, <1>2, <2>1, <2>2 DEF WordsInv, Committed
<1>3. CASE ~Committed(l, c, i)
  <2>1. CASE head'[<<l, c, i>>] = head[<<l, c, i>>]
    BY <1>0, <1>3, <2>1 DEF WordsInv, Committed
  <2>2. ASSUME NEW t \in Threads, Commit(t), Stores(t, l, c, i)
        PROVE  /\ Committed(l, c, i)'
               /\ payload'[<<l, c, i>>].call \in 1..attempts'[l]
    <3>1. /\ pc[t] = "commit" /\ payload' = payload /\ HoldsSlots(t)
          /\ HeldOK(t) /\ CacheOK(t)
      BY <1>0, <2>2 DEF Commit, HoldsSlots, IInv, HeldInv, CacheInv
    <3>2. /\ payload[<<l, c, i>>] = OwnPayload(t) /\ l = job[t].log
          /\ Committed(l, c, i)'
      BY <2>2, <3>1 DEF Stores, HeldOK, CacheOK, Committed
    <3>3. job[t].call \in 1..attempts[l]
      BY <1>0, <3>1, <3>2 DEF CallsInv
    <3> QED
      BY <1>1, <3>1, <3>2, <3>3 DEF OwnPayload
  <2> QED
    BY <1>0, <2>1, <2>2, NewWord
<1> QED
  BY <1>2, <1>3

LEMMA PendingStep ==
  ASSUME LedgerInv, [Next]_vars
  PROVE  PendingInv'
<1> SUFFICES ASSUME NEW t \in Threads, NEW l \in Loggers, NEW c \in Chunks,
                    NEW i \in Slots,
                    pc'[t] # "idle", job'[t].log = l,
                    head'[<<l, c, i>>].kind \in {"msg", "sub"}
             PROVE  payload'[<<l, c, i>>].call # job'[t].call
  BY DEF PendingInv
<1>0. IInv /\ WordsInv /\ CallsInv /\ PendingInv
  BY DEF LedgerInv
<1>1. CASE Committed(l, c, i)
  <2>1. /\ head'[<<l, c, i>>] = head[<<l, c, i>>]
        /\ payload'[<<l, c, i>>] = payload[<<l, c, i>>]
    BY <1>0, <1>1, FinalStep
  <2>2. CASE pc[t] # "idle" /\ job'[t].log = job[t].log
               /\ job'[t].call = job[t].call
    BY <1>0, <2>1, <2>2 DEF PendingInv
  <2>3. CASE Begins(t, l)
    <3>1. /\ payload[<<l, c, i>>].call <= attempts[l]
          /\ payload[<<l, c, i>>].call \in Nat /\ attempts[l] \in Nat
      BY <1>0, <1>1 DEF WordsInv, IInv, TypeOK, Payload, Places
    <3>2. job'[t].call = attempts[l] + 1
      BY <2>3 DEF Begins
    <3> QED
      BY <2>1, <3>1, <3>2
  <2> QED
    BY <1>0, <2>2, <2>3, StepKinds DEF Begins, Drops, Finishes, Ends, GoesOn
<1>2. CASE ~Committed(l, c, i)
  <2>1. head'[<<l, c, i>>] # head[<<l, c, i>>]
    BY <1>2 DEF Committed
  <2>2. PICK u \in Threads : Commit(u) /\ Stores(u, l, c, i)
    BY <1>0, <2>1, NewWord
  <2>3. /\ pc[u] = "commit" /\ payload' = payload /\ HoldsSlots(u)
        /\ HeldOK(u) /\ CacheOK(u)
    BY <1>0, <2>2 DEF Commit, HoldsSlots, IInv, HeldInv, CacheInv
  <2>4. /\ i = held[u].first /\ job[u].kind # "def" /\ i = NextCommit(u)
        /\ l = job[u].log /\ payload[<<l, c, i>>] = OwnPayload(u)
    BY <2>2, <2>3 DEF Stores, HeldOK, CacheOK
  <2>5. LastCommit(u)
    <3>1. held[u].first \in Nat /\ stored[u] \in Nat /\ held[u].count \in Nat
          /\ stored[u] < held[u].count
      BY <1>0, <2>3 DEF IInv, TypeOK, Held, HeldOK
    <3> QED
      BY <2>4, <3>1 DEF NextCommit, LastCommit
  <2>6. /\ pc'[u] = "idle" /\ u # t /\ pc'[t] = pc[t] /\ job'[t] = job[t]
    BY <1>0, <2>2, <2>4, <2>5 DEF Commit, Goto, IInv, TypeOK
  <2>7. job[u].call # job[t].call
    BY <1>0, <2>3, <2>4, <2>6 DEF CallsInv
  <2> QED
    BY <2>3, <2>4, <2>6, <2>7 DEF OwnPayload
<1> QED
  BY <1>1, <1>2

LEMMA FirstIsLast ==
  ASSUME IInv, NEW t \in Threads, Commit(t), NEW l, NEW c, NEW i,
         Stores(t, l, c, i), CommitHead(t, i).kind # "cont"
  PROVE  LastCommit(t) /\ i = held[t].first
<1>1. pc[t] = "commit" /\ HoldsSlots(t) /\ HeldOK(t)
  BY DEF Commit, HoldsSlots, IInv, HeldInv
<1>2. held[t].first \in Nat /\ stored[t] \in Nat /\ held[t].count \in Nat
      /\ stored[t] < held[t].count
  BY <1>1 DEF IInv, TypeOK, Held, HeldOK
<1>3. i = held[t].first /\ i = NextCommit(t)
  BY DEF Stores
<1> QED
  BY <1>2, <1>3 DEF NextCommit, LastCommit

LEMMA MoreWord ==
  ASSUME NEW t, NEW i
  PROVE  CommitHead(t, i).more <=> i + 1 < held[t].first + held[t].count
BY DEF CommitHead

LEMMA ChainStays ==
  ASSUME IInv, [Next]_vars,
         NEW l \in Loggers, NEW c \in Chunks, NEW i \in Slots,
         NEW k \in 1..ChunkUnits, Committed(l, c, i), Chain(l, c, i, k)
  PROVE  Chain(l, c, i, k)'
<1>0. ChunkUnits \in Nat /\ i \in Nat /\ k \in Nat
  BY SizesAssumption DEF Slots
<1>1. payload'[<<l, c, i>>] = payload[<<l, c, i>>]
  BY FinalStep
<1>2. ASSUME NEW j \in 1..k
      PROVE  /\ head'[<<l, c, i + j>>] = head[<<l, c, i + j>>]
             /\ payload'[<<l, c, i + j>>] = payload[<<l, c, i + j>>]
  <2>1. i + k \in Slots
    BY DEF Chain
  <2>2. i + j \in Slots
    BY <1>0, <2>1 DEF Slots
  <2>3. Committed(l, c, i + j)
    BY DEF Chain, Committed
  <2> QED
    BY <2>2, <2>3, FinalStep
<1> QED
  BY <1>1, <1>2 DEF Chain

(* The last head word of a call completes the chain of its Continuations.  *)
LEMMA LastChain ==
  ASSUME IInv, NEW t \in Threads, Commit(t), LastCommit(t),
         held[t].count > 1,
         NEW l, l = cache[t].owner, NEW c, c = cache[t].chunk,
         NEW i, i = held[t].first, NEW k, k = held[t].count - 1
  PROVE  /\ k \in 1..ChunkUnits
         /\ Chain(l, c, i, k)'
         /\ head'[<<l, c, i>>].kind = job[t].kind
         /\ head'[<<l, c, i>>].more
<1>0. ChunkUnits \in Nat
  BY SizesAssumption
<1>1. HoldsSlots(t) /\ HeldOK(t) /\ HeldSlots(t) \subseteq Slots
  BY HeldPlaces DEF Commit, HoldsSlots
<1>2. held[t].first \in Nat \ {0} /\ held[t].count \in Nat
  BY DEF IInv, TypeOK, Held
<1>3. k = held[t].count - 1
  OBVIOUS
<1>4. k \in Nat \ {0} /\ i + k \in HeldSlots(t) /\ i \in HeldSlots(t)
  BY <1>2, <1>3 DEF HeldSlots
<1>5. i + k \in Slots /\ k \in 1..ChunkUnits
  BY <1>0, <1>1, <1>2, <1>4 DEF Slots
<1>6. /\ payload'[<<l, c, i>>] = OwnPayload(t)
      /\ head'[<<l, c, i>>] = CommitHead(t, i)
  BY <1>4, LastFacts
<1>7. ASSUME NEW j \in 1..k
      PROVE  /\ head'[<<l, c, i + j>>].kind = "cont"
             /\ head'[<<l, c, i + j>>].more = (j < k)
             /\ payload'[<<l, c, i + j>>] = OwnPayload(t)
  <2>1. i + j \in HeldSlots(t) /\ i + j # held[t].first
        /\ (i + j + 1 < held[t].first + held[t].count <=> j < k)
    BY <1>2, <1>3, <1>4 DEF HeldSlots
  <2>2. /\ head'[<<l, c, i + j>>] = CommitHead(t, i + j)
        /\ payload'[<<l, c, i + j>>] = OwnPayload(t)
    BY <2>1, LastFacts
  <2>3. CommitHead(t, i + j) =
          [kind |-> "cont", trunc |-> FALSE, units |-> SliceUnits,
           more |-> i + j + 1 < held[t].first + held[t].count]
    BY <2>1 DEF CommitHead
  <2>4. CommitHead(t, i + j).kind = "cont"
        /\ CommitHead(t, i + j).more
             = (i + j + 1 < held[t].first + held[t].count)
    BY <2>3
  <2> QED
    BY <2>1, <2>2, <2>4 DEF OwnPayload
<1>8. Chain(l, c, i, k)'
  BY <1>5, <1>6, <1>7 DEF Chain
<1>9. CommitHead(t, i).kind = job[t].kind /\ CommitHead(t, i).more
  <2>1. i + 1 < held[t].first + held[t].count
    BY <1>2
  <2> QED
    BY <2>1 DEF CommitHead
<1> QED
  BY <1>3, <1>5, <1>6, <1>8, <1>9

LEMMA ChainsStep ==
  ASSUME LedgerInv, [Next]_vars
  PROVE  ChainsAreWhole'
<1>0. IInv /\ WordsInv /\ ChainsAreWhole /\ ChunkUnits \in Nat
  BY SizesAssumption DEF LedgerInv
<1>1. ASSUME NEW l \in Loggers, NEW c \in Chunks, NEW i \in Slots,
             head'[<<l, c, i>>].kind # "cont", head'[<<l, c, i>>].more
      PROVE  \E k \in 1..ChunkUnits : Chain(l, c, i, k)'
  <2>1. CASE head'[<<l, c, i>>] = head[<<l, c, i>>]
    <3>1. Committed(l, c, i)
      BY <1>0, <1>1, <2>1 DEF WordsInv
    <3>2. PICK k \in 1..ChunkUnits : Chain(l, c, i, k)
      BY <1>0, <1>1, <2>1 DEF ChainsAreWhole
    <3> QED
      BY <1>0, <3>1, <3>2, ChainStays
  <2>2. ASSUME NEW t \in Threads, Commit(t), Stores(t, l, c, i)
        PROVE  \E k \in 1..ChunkUnits : Chain(l, c, i, k)'
    <3>1. /\ head'[<<l, c, i>>] = CommitHead(t, i)
          /\ l = cache[t].owner /\ c = cache[t].chunk
      BY <2>2 DEF Stores
    <3>2. LastCommit(t) /\ i = held[t].first
      BY <1>0, <1>1, <2>2, <3>1, FirstIsLast
    <3>3. i + 1 < held[t].first + held[t].count
      BY <1>1, <3>1, MoreWord
    <3>4. held[t].first \in Nat /\ held[t].count \in Nat
      BY <1>0 DEF IInv, TypeOK, Held
    <3>5. held[t].count > 1
      BY <3>2, <3>3, <3>4
    <3>6. PICK k : k = held[t].count - 1
      OBVIOUS
    <3>7. k \in 1..ChunkUnits /\ Chain(l, c, i, k)'
      BY <1>0, <2>2, <3>1, <3>2, <3>5, <3>6, LastChain
    <3> QED
      BY <3>7
  <2> QED
    BY <1>0, <2>1, <2>2, NewWord
<1>2. ASSUME NEW l \in Loggers, NEW c \in Chunks, NEW i \in Slots,
             head'[<<l, c, i>>].kind = "cont", Visible(l, c, i)'
      PROVE  i > 1 /\ head'[<<l, c, i - 1>>].more
  <2>0. i \in Nat \ {0}
    BY DEF Slots
  <2>1. CASE Visible(l, c, i)
    <3>1. \A j \in 1..i : j \in Slots /\ Committed(l, c, j)
      BY <1>0, <2>0, <2>1 DEF Visible, Slots
    <3>2. head'[<<l, c, i>>] = head[<<l, c, i>>]
      BY <1>0, <2>0, <3>1, FinalStep
    <3>3. i > 1 /\ head[<<l, c, i - 1>>].more
      BY <1>0, <1>2, <2>1, <3>2 DEF ChainsAreWhole
    <3>4. i - 1 \in Slots /\ Committed(l, c, i - 1)
      BY <2>0, <3>1, <3>3
    <3> QED
      BY <1>0, <3>3, <3>4, FinalStep
  <2>2. CASE ~Visible(l, c, i)
    <3>1. PICK t \in Threads : /\ Commit(t) /\ LastCommit(t)
                               /\ InFlight(t, l, c, i)
      BY <1>0, <1>2, <2>2, NewVisible
    <3>2. /\ i \in HeldSlots(t) /\ l = cache[t].owner /\ c = cache[t].chunk
          /\ held[t].first \in Nat \ {0} /\ held[t].count \in Nat
      BY <1>0, <3>1 DEF InFlight, IInv, TypeOK, Held
    <3>3. head'[<<l, c, i>>] = CommitHead(t, i)
      BY <1>0, <3>1, <3>2, LastFacts
    <3>4. i # held[t].first
      BY <1>0, <1>2, <3>3 DEF CommitHead, IInv, TypeOK, Job
    <3>5. i - 1 \in HeldSlots(t) /\ i > 1 /\ i < held[t].first + held[t].count
      BY <2>0, <3>2, <3>4 DEF HeldSlots
    <3>6. head'[<<l, c, i - 1>>] = CommitHead(t, i - 1)
      BY <1>0, <3>1, <3>2, <3>5, LastFacts
    <3>7. (i - 1) + 1 < held[t].first + held[t].count
      BY <2>0, <3>2, <3>5
    <3>8. CommitHead(t, i - 1).more
      BY <3>7, MoreWord
    <3> QED
      BY <3>5, <3>6, <3>8
  <2> QED
    BY <2>1, <2>2
<1> QED
  BY <1>1, <1>2 DEF ChainsAreWhole

LEMMA LedgerStep == LedgerInv /\ [Next]_vars => LedgerInv'
BY NextInv, CallsStep, WordsStep, PendingStep, ChainsStep DEF LedgerInv

LEMMA InitLedger == Init => LedgerInv
<1> SUFFICES ASSUME Init
             PROVE  LedgerInv
  OBVIOUS
<1>1. IInv
  BY InitInv
<1>2. CallsInv
  BY SizesAssumption DEF Init, CallsInv
<1>3. \A l \in Loggers, c \in Chunks, i \in Slots :
        head[<<l, c, i>>] = ZeroWord
  BY DEF Init, Places
<1>4. WordsInv /\ PendingInv /\ ChainsAreWhole
  BY <1>3 DEF WordsInv, PendingInv, ChainsAreWhole, Committed, ZeroWord
<1> QED
  BY <1>1, <1>2, <1>4 DEF LedgerInv

(* The invariant of calls, words and chains, with that of the segments.    *)
THEOREM LedgerInvariance == Spec => []LedgerInv
BY InitLedger, LedgerStep, PTL DEF Spec

(* A chain is published whole or not at all (emit.hpp, emitChained), for   *)
(* any length of chains and size of chunks.                                *)
THEOREM WholeChains == Spec => []ChainsAreWhole
<1>1. LedgerInv => ChainsAreWhole
  BY DEF LedgerInv
<1> QED
  BY <1>1, LedgerInvariance, PTL

-----------------------------------------------------------------------------
(* The ledger.                                                             *)

(* A call is recorded by the step that ends it with a record, and stays    *)
(* recorded.                                                               *)
LEMMA RecordedStep ==
  ASSUME IInv, [Next]_vars, NEW l \in Loggers, NEW n
  PROVE  /\ Recorded(l, n) => Recorded(l, n)'
         /\ Recorded(l, n)' =>
              \/ Recorded(l, n)
              \/ \E t \in Threads : /\ Commit(t) /\ LastCommit(t)
                                    /\ job[t].kind # "def"
                                    /\ job[t].log = l /\ job[t].call = n
<1>0. \A c \in Chunks, i \in Slots : Visible(l, c, i) => Committed(l, c, i)
  BY SizesAssumption DEF Visible, Slots
<1>1. ASSUME NEW c \in Chunks, NEW i \in Slots, Visible(l, c, i)
      PROVE  /\ head'[<<l, c, i>>] = head[<<l, c, i>>]
             /\ payload'[<<l, c, i>>] = payload[<<l, c, i>>]
             /\ Visible(l, c, i)'
  BY <1>0, <1>1, FinalStep, VisibleStays
<1>2. Recorded(l, n) => Recorded(l, n)'
  BY <1>1 DEF Recorded
<1>3. ASSUME NEW c \in Chunks, NEW i \in Slots, Visible(l, c, i)',
             head'[<<l, c, i>>].kind \in {"msg", "sub"},
             payload'[<<l, c, i>>].call = n, ~Visible(l, c, i)
      PROVE  \E t \in Threads : /\ Commit(t) /\ LastCommit(t)
                                /\ job[t].kind # "def"
                                /\ job[t].log = l /\ job[t].call = n
  <2>1. PICK t \in Threads : /\ Commit(t) /\ LastCommit(t)
                             /\ InFlight(t, l, c, i)
    BY <1>3, NewVisible
  <2>2. i \in HeldSlots(t) /\ l = cache[t].owner /\ c = cache[t].chunk
    BY <2>1 DEF InFlight
  <2>3. /\ head'[<<l, c, i>>] = CommitHead(t, i) /\ l = job[t].log
        /\ payload'[<<l, c, i>>] = OwnPayload(t)
    BY <2>1, <2>2, LastFacts
  <2>4. CommitHead(t, i).kind \in {job[t].kind, "cont"}
    BY DEF CommitHead
  <2> QED
    BY <1>3, <2>1, <2>3, <2>4 DEF OwnPayload
<1>4. Recorded(l, n)' =>
        \/ Recorded(l, n)
        \/ \E t \in Threads : /\ Commit(t) /\ LastCommit(t)
                              /\ job[t].kind # "def"
                              /\ job[t].log = l /\ job[t].call = n
  <2> SUFFICES ASSUME Recorded(l, n)', ~Recorded(l, n)
               PROVE  \E t \in Threads : /\ Commit(t) /\ LastCommit(t)
                                         /\ job[t].kind # "def"
                                         /\ job[t].log = l /\ job[t].call = n
    OBVIOUS
  <2>1. PICK c \in Chunks, i \in Slots :
          /\ Visible(l, c, i)'
          /\ head'[<<l, c, i>>].kind \in {"msg", "sub"}
          /\ payload'[<<l, c, i>>].call = n
    BY DEF Recorded
  <2>2. ~Visible(l, c, i)
    <3> SUFFICES ASSUME Visible(l, c, i)
                 PROVE  FALSE
      OBVIOUS
    <3> QED
      BY <1>1, <2>1 DEF Recorded
  <2> QED
    BY <1>3, <2>1, <2>2
<1> QED
  BY <1>2, <1>4

(* The step that ends a call with a record makes it recorded.              *)
LEMMA FinishRecords ==
  ASSUME IInv, [Next]_vars, NEW t \in Threads, Finishes(t),
         NEW l, l = job[t].log, NEW n, n = job[t].call
  PROVE  Recorded(l, n)'
<1>1. Commit(t) /\ LastCommit(t) /\ job[t].kind \in {"msg", "sub"}
  BY DEF Finishes, IInv, TypeOK, Job
<1>2. HoldsSlots(t) /\ HeldOK(t)
  BY <1>1 DEF Commit, HoldsSlots, IInv, HeldInv
<1>3. held[t].first \in HeldSlots(t)
  BY <1>1, <1>2 DEF LastCommit, HeldSlots, HeldOK, IInv, TypeOK, Held
<1>4. PICK c, i : c = cache[t].chunk /\ i = held[t].first
  OBVIOUS
<1>5. PICK o : o = cache[t].owner
  OBVIOUS
<1>6. /\ o = l /\ c \in Chunks /\ i \in Slots
      /\ head'[<<o, c, i>>] = CommitHead(t, i)
      /\ payload'[<<o, c, i>>] = OwnPayload(t)
      /\ Visible(o, c, i)'
  BY <1>1, <1>3, <1>4, <1>5, LastFacts
<1>7. CommitHead(t, i).kind = job[t].kind
  BY <1>4 DEF CommitHead
<1> QED
  BY <1>1, <1>6, <1>7 DEF Recorded, OwnPayload

(* Somebody is executing call n on l.                                      *)
Running(l, n) == \E t \in Threads : job[t].log = l /\ job[t].call = n

(* What an outcome says, before and after a step.                          *)
LEMMA OutcomeIs ==
  ASSUME IInv, NEW l \in Loggers, NEW n \in Nat
  PROVE  Outcome(l, n) = IF n > attempts[l] THEN "none"
                         ELSE IF Recorded(l, n) THEN "recorded"
                         ELSE IF Running(l, n) THEN "pending" ELSE "dropped"
<1>1. attempts[l] \in Nat
  BY DEF IInv, TypeOK
<1>2. CASE n > attempts[l]
  <2>1. ~(n <= attempts[l])
    BY <1>1, <1>2
  <2> QED
    BY <1>2, <2>1 DEF Outcome
<1>3. CASE ~(n > attempts[l])
  <2>1. n <= attempts[l]
    BY <1>1, <1>3
  <2> QED
    BY <1>3, <2>1 DEF Outcome, Running
<1> QED
  BY <1>2, <1>3

LEMMA OutcomeWillBe ==
  ASSUME IInv', NEW l \in Loggers, NEW n \in Nat
  PROVE  Outcome(l, n)' =
           IF n > attempts'[l] THEN "none"
           ELSE IF Recorded(l, n)' THEN "recorded"
           ELSE IF Running(l, n)' THEN "pending" ELSE "dropped"
<1>1. attempts'[l] \in Nat
  BY DEF IInv, TypeOK
<1>2. CASE n > attempts'[l]
  <2>1. ~(n <= attempts'[l])
    BY <1>1, <1>2
  <2> QED
    BY <1>2, <2>1 DEF Outcome
<1>3. CASE ~(n > attempts'[l])
  <2>1. n <= attempts'[l]
    BY <1>1, <1>3
  <2> QED
    BY <1>3, <2>1 DEF Outcome, Running
<1> QED
  BY <1>2, <1>3

(* The variable outcome of the ledger.                                     *)
Book == [l \in Loggers |-> [n \in 1..MaxEmits |-> Outcome(l, n)]]

(* One entry moves.                                                        *)
LEMMA OneMoves ==
  ASSUME NEW l \in Loggers, NEW n \in 1..MaxEmits, NEW from, NEW to,
         Outcome(l, n) = from, Outcome(l, n)' = to,
         \A k \in Loggers, m \in 1..MaxEmits :
           ~(k = l /\ m = n) => Outcome(k, m)' = Outcome(k, m)
  PROVE  /\ Book[l][n] = from
         /\ Book' = [Book EXCEPT ![l][n] = to]
<1>1. Book[l][n] = from
  BY DEF Book
<1>2. \A k \in Loggers : k # l => Book'[k] = Book[k]
  BY DEF Book
<1>3. Book'[l] = [Book[l] EXCEPT ![n] = to]
  BY DEF Book
<1>4. DOMAIN Book' = Loggers /\ DOMAIN Book = Loggers
  BY DEF Book
<1>5. Book' = [k \in Loggers |-> Book'[k]] /\ Book = [k \in Loggers |-> Book[k]]
  BY DEF Book
<1>6. Book' = [Book EXCEPT ![l] = [Book[l] EXCEPT ![n] = to]]
  BY <1>2, <1>3, <1>4, <1>5
<1> QED
  BY <1>1, <1>4, <1>6

LEMMA BeginsBegins ==
  ASSUME LedgerInv, LedgerInv', [Next]_vars, NEW t \in Threads,
         NEW l \in Loggers, Begins(t, l)
  PROVE  Ledger!Next
<1>0. IInv /\ IInv' /\ WordsInv
  BY DEF LedgerInv
<1>1. PICK n : n = attempts[l] + 1
  OBVIOUS
<1>2. /\ attempts \in [Loggers -> Nat] /\ MaxEmits \in Nat
      /\ n \in 1..MaxEmits /\ attempts[l] \in Nat
      /\ attempts'[l] = n /\ \A k \in Loggers : k # l => attempts'[k] = attempts[k]
  BY <1>0, <1>1, SizesAssumption DEF Begins, IInv, TypeOK
<1>3. \A k \in Loggers, m \in Nat : Recorded(k, m)' <=> Recorded(k, m)
  BY MemoryFrame DEF Begins, Recorded
<1>4. ~Recorded(l, n)
  <2> SUFFICES ASSUME NEW c \in Chunks, NEW i \in Slots, Visible(l, c, i),
                      payload[<<l, c, i>>].call = n
               PROVE  FALSE
    BY DEF Recorded
  <2>1. Committed(l, c, i)
    BY SizesAssumption DEF Visible, Slots
  <2>2. n <= attempts[l]
    BY <1>0, <2>1 DEF WordsInv
  <2> QED
    BY <1>1, <1>2, <2>2
<1>5. /\ Running(l, n)'
      /\ \A k \in Loggers, m \in Nat :
           ~(k = l /\ m = n) => (Running(k, m)' <=> Running(k, m))
  <2>1. job[t].log \notin Loggers
    BY <1>0, BusyOrIdle DEF Begins
  <2>2. /\ job'[t].log = l /\ job'[t].call = n
        /\ \A u \in Threads : u # t => job'[u] = job[u]
    BY <1>1 DEF Begins
  <2> QED
    BY <2>1, <2>2 DEF Running
<1>6. Outcome(l, n) = "none"
  BY <1>0, <1>1, <1>2, OutcomeIs
<1>7. Outcome(l, n)' = "pending"
  BY <1>0, <1>2, <1>3, <1>4, <1>5, OutcomeWillBe
<1>8. \A k \in Loggers, m \in 1..MaxEmits :
        ~(k = l /\ m = n) => Outcome(k, m)' = Outcome(k, m)
  <2> SUFFICES ASSUME NEW k \in Loggers, NEW m \in 1..MaxEmits,
                      ~(k = l /\ m = n)
               PROVE  Outcome(k, m)' = Outcome(k, m)
    OBVIOUS
  <2>1. m \in Nat /\ (m > attempts'[k] <=> m > attempts[k])
    BY <1>1, <1>2
  <2>2. (Recorded(k, m)' <=> Recorded(k, m)) /\ (Running(k, m)' <=> Running(k, m))
    BY <1>3, <1>5, <2>1
  <2> QED
    BY <1>0, <2>1, <2>2, OutcomeIs, OutcomeWillBe
<1>9. Book[l][n] = "none" /\ Book' = [Book EXCEPT ![l][n] = "pending"]
  BY <1>2, <1>6, <1>7, <1>8, OneMoves
<1>10. dropped' = dropped
  BY DEF Begins
<1>11. Ledger!Begin(l, n)
  BY <1>9, <1>10 DEF Ledger!Begin, Ledger!Move, Book
<1> QED
  BY <1>2, <1>11 DEF Ledger!Next

(* What happens to the other entries when a call ends.                     *)
LEMMA OthersKept ==
  ASSUME LedgerInv, LedgerInv', [Next]_vars, NEW t \in Threads, Ends(t),
         NEW l \in Loggers, l = job[t].log, NEW n, n = job[t].call,
         \A u \in Threads :
           Commit(u) /\ LastCommit(u) /\ job[u].kind # "def" => u = t,
         NEW k \in Loggers, NEW m \in 1..MaxEmits, ~(k = l /\ m = n)
  PROVE  Outcome(k, m)' = Outcome(k, m)
<1>0. IInv /\ IInv' /\ m \in Nat /\ attempts' = attempts
  BY SizesAssumption DEF LedgerInv, Ends
<1>1. Recorded(k, m)' <=> Recorded(k, m)
  BY <1>0, RecordedStep
<1>2. Running(k, m)' <=> Running(k, m)
  <2>1. job'[t].log \notin Loggers
    BY NamesAssumption DEF Ends, NoJob
  <2>2. \A u \in Threads : u # t => job'[u] = job[u]
    BY DEF Ends
  <2> QED
    BY <2>1, <2>2 DEF Running
<1> QED
  BY <1>0, <1>1, <1>2, OutcomeIs, OutcomeWillBe

(* A call that ends was pending, and nobody else executes it.              *)
LEMMA EndFacts ==
  ASSUME LedgerInv, LedgerInv', NEW t \in Threads, Ends(t),
         NEW l, l = job[t].log, NEW n, n = job[t].call
  PROVE  /\ l \in Loggers /\ n \in 1..MaxEmits
         /\ Outcome(l, n) = "pending"
         /\ n <= attempts'[l] /\ ~Running(l, n)' /\ ~Recorded(l, n)
<1>0. IInv /\ IInv' /\ CallsInv /\ PendingInv
  BY DEF LedgerInv
<1>1. l \in Loggers
  BY <1>0, BusyOrIdle DEF Ends
<1>2. /\ attempts[l] \in Nat /\ attempts'[l] = attempts[l] /\ MaxEmits \in Nat
      /\ n \in 1..attempts[l] /\ n \in 1..MaxEmits
  BY <1>0, <1>1, SizesAssumption DEF Ends, CallsInv, IInv, TypeOK
<1>3. ~Recorded(l, n)
  BY <1>0, <1>1 DEF Ends, PendingInv, Recorded
<1>4. Running(l, n)
  BY DEF Running
<1>5. Outcome(l, n) = "pending"
  <2>1. n \in Nat /\ ~(n > attempts[l])
    BY <1>2
  <2> QED
    BY <1>0, <1>1, <1>3, <1>4, <2>1, OutcomeIs
<1>6. ~Running(l, n)'
  <2> SUFFICES ASSUME NEW u \in Threads, job'[u].log = l, job'[u].call = n
               PROVE  FALSE
    BY DEF Running
  <2>1. u # t
    BY <1>1, NamesAssumption DEF Ends, NoJob
  <2>2. job[u].log = l /\ job[u].call = n /\ pc[u] # "idle"
    BY <1>0, <1>1, <2>1, BusyOrIdle DEF Ends
  <2> QED
    BY <1>0, <2>1, <2>2 DEF CallsInv, Ends
<1> QED
  BY <1>1, <1>2, <1>3, <1>5, <1>6

LEMMA DropsDrop ==
  ASSUME LedgerInv, LedgerInv', [Next]_vars, NEW t \in Threads, Drops(t)
  PROVE  Ledger!Next
<1>1. PICK l, n : l = job[t].log /\ n = job[t].call
  OBVIOUS
<1>2. Ends(t) /\ IInv /\ IInv'
  BY DEF Drops, LedgerInv
<1>3. /\ l \in Loggers /\ n \in 1..MaxEmits /\ n \in Nat
      /\ Outcome(l, n) = "pending"
      /\ n <= attempts'[l] /\ ~Running(l, n)' /\ ~Recorded(l, n)
  BY <1>1, <1>2, EndFacts, SizesAssumption
<1>4. ~\E u \in Threads : Commit(u)
  <2> SUFFICES ASSUME NEW u \in Threads, Commit(u)
               PROVE  FALSE
    OBVIOUS
  <2>1. PICK o \in Loggers, d \in Chunks, i \in Slots : Stores(u, o, d, i)
    BY <1>2, CommitFacts
  <2>2. head'[<<o, d, i>>] # head[<<o, d, i>>]
    BY <2>1 DEF Stores
  <2> QED
    BY <2>2 DEF Drops
<1>5. Outcome(l, n)' = "dropped"
  <2>1. ~Recorded(l, n)'
    BY <1>2, <1>3, <1>4, RecordedStep
  <2>2. ~(n > attempts'[l])
    BY <1>2, <1>3 DEF IInv, TypeOK
  <2> QED
    BY <1>2, <1>3, <2>1, <2>2, OutcomeWillBe
<1>6. \A k \in Loggers, m \in 1..MaxEmits :
        ~(k = l /\ m = n) => Outcome(k, m)' = Outcome(k, m)
  BY <1>1, <1>2, <1>3, <1>4, OthersKept
<1>7. Book[l][n] = "pending" /\ Book' = [Book EXCEPT ![l][n] = "dropped"]
  BY <1>3, <1>5, <1>6, OneMoves
<1>8. dropped' = [dropped EXCEPT ![l] = @ + 1]
  BY <1>1 DEF Drops
<1>9. Ledger!Drop(l, n)
  BY <1>7, <1>8 DEF Ledger!Drop, Ledger!Move, Book
<1> QED
  BY <1>3, <1>9 DEF Ledger!Next

LEMMA FinishesRecord ==
  ASSUME LedgerInv, LedgerInv', [Next]_vars, NEW t \in Threads, Finishes(t)
  PROVE  Ledger!Next
<1>1. PICK l, n : l = job[t].log /\ n = job[t].call
  OBVIOUS
<1>2. Ends(t) /\ IInv /\ IInv'
  BY DEF Finishes, LedgerInv
<1>3. /\ l \in Loggers /\ n \in 1..MaxEmits /\ n \in Nat
      /\ Outcome(l, n) = "pending"
      /\ n <= attempts'[l] /\ ~Running(l, n)' /\ ~Recorded(l, n)
  BY <1>1, <1>2, EndFacts, SizesAssumption
<1>4. \A u \in Threads :
        Commit(u) /\ LastCommit(u) /\ job[u].kind # "def" => u = t
  BY <1>2 DEF Ends, Commit, Goto, IInv, TypeOK
<1>5. Outcome(l, n)' = "recorded"
  <2>1. Recorded(l, n)'
    BY <1>1, <1>2, FinishRecords
  <2>2. ~(n > attempts'[l])
    BY <1>2, <1>3 DEF IInv, TypeOK
  <2> QED
    BY <1>2, <1>3, <2>1, <2>2, OutcomeWillBe
<1>6. \A k \in Loggers, m \in 1..MaxEmits :
        ~(k = l /\ m = n) => Outcome(k, m)' = Outcome(k, m)
  BY <1>1, <1>2, <1>3, <1>4, OthersKept
<1>7. Book[l][n] = "pending" /\ Book' = [Book EXCEPT ![l][n] = "recorded"]
  BY <1>3, <1>5, <1>6, OneMoves
<1>8. dropped' = dropped
  BY DEF Finishes
<1>9. Ledger!Record(l, n)
  BY <1>7, <1>8 DEF Ledger!Record, Ledger!Move, Book
<1> QED
  BY <1>3, <1>9 DEF Ledger!Next

LEMMA GoesOnStutters ==
  ASSUME LedgerInv, LedgerInv', [Next]_vars, GoesOn
  PROVE  Book' = Book /\ dropped' = dropped
<1>0. IInv /\ IInv' /\ attempts' = attempts /\ dropped' = dropped
  BY DEF LedgerInv, GoesOn
<1>1. ASSUME NEW k \in Loggers, NEW m \in 1..MaxEmits
      PROVE  Outcome(k, m)' = Outcome(k, m)
  <2>1. m \in Nat
    BY SizesAssumption
  <2>2. Recorded(k, m)' <=> Recorded(k, m)
    BY <1>0, RecordedStep DEF GoesOn
  <2>3. Running(k, m)' <=> Running(k, m)
    BY DEF GoesOn, Running
  <2> QED
    BY <1>0, <2>1, <2>2, <2>3, OutcomeIs, OutcomeWillBe
<1> QED
  BY <1>0, <1>1 DEF Book

LEMMA LedgerInit == Init => Ledger!Init
<1> SUFFICES ASSUME Init
             PROVE  Ledger!Init
  OBVIOUS
<1>1. IInv
  BY InitInv
<1>2. \A l \in Loggers, n \in 1..MaxEmits : Outcome(l, n) = "none"
  <2> SUFFICES ASSUME NEW l \in Loggers, NEW n \in 1..MaxEmits
               PROVE  Outcome(l, n) = "none"
    OBVIOUS
  <2>1. attempts[l] = 0 /\ n \in Nat /\ n > 0
    BY SizesAssumption DEF Init
  <2> QED
    BY <1>1, <2>1, OutcomeIs
<1> QED
  BY <1>2 DEF Ledger!Init, Init

(* The producer implements the ledger: a call becomes one readable record  *)
(* that stays, or one counted drop, never both and never neither (R9.1),   *)
(* whatever the interleaving of any number of threads.                     *)
THEOREM LedgerIsKept == Spec => KeepsLedger
<1>1. LedgerInv /\ LedgerInv' /\ [Next]_vars
        => [Ledger!Next]_<<Book, dropped>>
  <2> SUFFICES ASSUME LedgerInv, LedgerInv', [Next]_vars
               PROVE  Ledger!Next \/ UNCHANGED <<Book, dropped>>
    OBVIOUS
  <2> QED
    BY StepKinds, BeginsBegins, DropsDrop, FinishesRecord, GoesOnStutters
       DEF LedgerInv
<1> QED
  BY <1>1, LedgerInit, LedgerInvariance, PTL
     DEF Spec, KeepsLedger, Ledger!Spec, Book

-----------------------------------------------------------------------------
(* Reservations.                                                           *)

(* A reservation is kept until the last head word of its call.             *)
LEMMA InFlightStays ==
  ASSUME IInv, [Next]_vars, NEW t \in Threads,
         HoldsSlots(t), ~(Commit(t) /\ LastCommit(t))
  PROVE  HoldsSlots(t)' /\ cache'[t] = cache[t] /\ held'[t] = held[t]
<1>1. CASE UNCHANGED vars
  BY <1>1 DEF vars, HoldsSlots
<1>2. ASSUME NEW u \in Threads, Call(u)
      PROVE  HoldsSlots(t)' /\ cache'[t] = cache[t] /\ held'[t] = held[t]
  BY <1>2 DEF Call, EmitRecord, DeclareSubsystem, Start, Goto, HoldsSlots,
              IInv, TypeOK
<1>3. ASSUME NEW u \in Threads, Advance(u)
      PROVE  HoldsSlots(t)' /\ cache'[t] = cache[t] /\ held'[t] = held[t]
  <2>1. CASE CurrentWriter(u) \/ RefillWriter(u)
    BY <2>1 DEF CurrentWriter, RefillWriter, ClaimChunk, Goto, HoldsSlots,
                IInv, TypeOK
  <2>2. CASE StampHeader(u) \/ CountDrop(u) \/ Announce(u)
    BY <2>2 DEF StampHeader, CountDrop, Announce, Goto, HoldsSlots,
                IInv, TypeOK
  <2>3. CASE Reserve(u) \/ Retry(u)
    BY <2>3 DEF Reserve, Retry, TakeChain, TakeShortDefinition,
                TakeFlatMessage, TakeSlots, Goto, HoldsSlots, IInv, TypeOK
  <2>4. CASE FillPayload(u)
    BY <2>4 DEF FillPayload, Goto, HoldsSlots, IInv, TypeOK
  <2>5. CASE Commit(u)
    <3>1. CASE u = t
      BY <2>5, <3>1 DEF Commit, HoldsSlots
    <3>2. CASE u # t
      BY <2>5, <3>2 DEF Commit, Goto, HoldsSlots, IInv, TypeOK
    <3> QED
      BY <3>1, <3>2
  <2> QED
    BY <1>3, <2>1, <2>2, <2>3, <2>4, <2>5 DEF Advance
<1> QED
  BY <1>1, <1>2, <1>3 DEF Next, Quiet

(* A reservation that is not a Message's is one record long.               *)
LEMMA LoneHeldStep ==
  ASSUME IInv, LoneInv, [Next]_vars, NEW t \in Threads,
         HoldsSlots(t)', job'[t].kind # "msg"
  PROVE  held'[t].count = 1
<1>0. HoldsSlots(t) /\ job[t].kind # "msg" => held[t].count = 1
  BY DEF LoneInv
<1>1. CASE UNCHANGED vars
  BY <1>0, <1>1 DEF vars, HoldsSlots
<1>2. ASSUME NEW u \in Threads, Call(u)
      PROVE  held'[t].count = 1
  <2>1. PICK l, kind, s, m : Start(u, l, kind, s, m)
    BY <1>2 DEF Call, EmitRecord, DeclareSubsystem
  <2>2. u # t /\ held' = held
    BY <2>1 DEF Start, Goto, HoldsSlots, IInv, TypeOK
  <2>3. pc'[t] = pc[t] /\ job'[t] = job[t]
    BY <2>1, <2>2 DEF Start, Goto, IInv, TypeOK
  <2> QED
    BY <1>0, <2>2, <2>3 DEF HoldsSlots
<1>3. ASSUME NEW u \in Threads, Advance(u)
      PROVE  held'[t].count = 1
  <2>1. CASE CurrentWriter(u) \/ RefillWriter(u)
    BY <1>0, <2>1 DEF CurrentWriter, RefillWriter, ClaimChunk, Goto,
                      HoldsSlots, IInv, TypeOK
  <2>2. CASE StampHeader(u) \/ CountDrop(u)
    BY <1>0, <2>2 DEF StampHeader, CountDrop, Goto, HoldsSlots, IInv, TypeOK
  <2>3. CASE Announce(u)
    <3>1. /\ pc' = [pc EXCEPT ![u] = "current"] /\ held' = held
          /\ \A v \in Threads : v # u => job'[v] = job[v]
      BY <2>3 DEF Announce, Goto
    <3>2. u # t /\ pc'[t] = pc[t]
      BY <3>1 DEF HoldsSlots, IInv, TypeOK
    <3> QED
      BY <1>0, <3>1, <3>2 DEF HoldsSlots
  <2>4. CASE Reserve(u) \/ Retry(u)
    <3>1. job' = job
      BY <2>4 DEF Reserve, Retry
    <3>2. CASE u # t
      <4>1. pc'[t] = pc[t] /\ held'[t] = held[t]
        BY <2>4, <3>2 DEF Reserve, Retry, TakeChain, TakeShortDefinition,
                  TakeFlatMessage, TakeSlots, Goto, IInv, TypeOK
      <4> QED
        BY <1>0, <3>1, <4>1 DEF HoldsSlots
    <3>3. CASE u = t
      <4>1. Conts(job[t]) = 0
        BY <3>1 DEF Conts
      <4>2. CASE TakeChain(t)
        BY <4>1, <4>2 DEF TakeChain, TakeSlots, IInv, TypeOK
      <4>3. CASE TakeShortDefinition(t)
        BY <4>3 DEF TakeShortDefinition, TakeSlots, IInv, TypeOK
      <4>4. CASE Goto(t, "refill") \/ Goto(t, "drop")
        BY <4>4 DEF Goto, HoldsSlots, IInv, TypeOK
      <4> QED
        BY <2>4, <3>1, <3>3, <4>2, <4>3, <4>4
           DEF Reserve, Retry, TakeFlatMessage
    <3> QED
      BY <3>2, <3>3
  <2>5. CASE FillPayload(u)
    BY <1>0, <2>5 DEF FillPayload, Goto, HoldsSlots, IInv, TypeOK
  <2>6. CASE Commit(u)
    <3>1. CASE u = t
      <4>1. ~LastCommit(t)
        BY <2>6, <3>1 DEF Commit, Goto, HoldsSlots, IInv, TypeOK
      <4> QED
        BY <1>0, <2>6, <3>1, <4>1 DEF Commit, HoldsSlots
    <3>2. CASE u # t
      <4>1. pc'[t] = pc[t] /\ held'[t] = held[t] /\ job'[t] = job[t]
        BY <2>6, <3>2 DEF Commit, Goto, IInv, TypeOK
      <4> QED
        BY <1>0, <4>1 DEF HoldsSlots
    <3> QED
      BY <3>1, <3>2
  <2> QED
    BY <1>3, <2>1, <2>2, <2>3, <2>4, <2>5, <2>6 DEF Advance
<1> QED
  BY <1>1, <1>2, <1>3 DEF Next, Quiet

-----------------------------------------------------------------------------
(* The calls of the writers.                                               *)

(* A thread that stores a word of this place, and what the word says.      *)
LEMMA StoreFacts ==
  ASSUME IInv, NEW t \in Threads, Commit(t),
         NEW l, NEW c, NEW i, Stores(t, l, c, i)
  PROVE  /\ HoldsSlots(t) /\ pc[t] = "commit" /\ pc[t] # "idle"
         /\ l = job[t].log /\ l = cache[t].owner /\ c = cache[t].chunk
         /\ i \in HeldSlots(t)
         /\ held[t].first \in Nat \ {0} /\ held[t].count \in Nat \ {0}
         /\ head'[<<l, c, i>>] = CommitHead(t, i)
         /\ payload' = payload /\ payload[<<l, c, i>>] = OwnPayload(t)
         /\ CommitHead(t, i).kind
              = IF i = held[t].first THEN job[t].kind ELSE "cont"
         /\ i = held[t].first <=> LastCommit(t)
<1>1. /\ pc[t] = "commit" /\ payload' = payload /\ HoldsSlots(t)
      /\ HeldOK(t) /\ CacheOK(t)
  BY DEF Commit, HoldsSlots, IInv, HeldInv, CacheInv
<1>2. /\ held[t].first \in Nat \ {0} /\ held[t].count \in Nat
      /\ stored[t] \in Nat /\ stored[t] < held[t].count
  BY <1>1 DEF IInv, TypeOK, Held, HeldOK
<1>3. /\ l = cache[t].owner /\ c = cache[t].chunk /\ i = NextCommit(t)
      /\ i \in HeldSlots(t) /\ head'[<<l, c, i>>] = CommitHead(t, i)
      /\ CommitHead(t, i).kind
              = IF i = held[t].first THEN job[t].kind ELSE "cont"
  BY DEF Stores
<1>4. l = job[t].log /\ payload[<<l, c, i>>] = OwnPayload(t)
  BY <1>1, <1>3 DEF HeldOK, CacheOK
<1>5. i = held[t].first <=> LastCommit(t)
  BY <1>2, <1>3 DEF NextCommit, LastCommit
<1> QED
  BY <1>1, <1>2, <1>3, <1>4, <1>5

LEMMA LoneStep ==
  ASSUME IInv, LoneInv, WordsInv, [Next]_vars
  PROVE  LoneInv'
<1>1. ASSUME NEW l \in Loggers, NEW c \in Chunks, NEW i \in Slots,
             head'[<<l, c, i>>].more
      PROVE  head'[<<l, c, i>>].kind \in {"msg", "cont"}
  <2>1. CASE head'[<<l, c, i>>] = head[<<l, c, i>>]
    BY <1>1, <2>1 DEF LoneInv
  <2>2. ASSUME NEW t \in Threads, Commit(t), Stores(t, l, c, i)
        PROVE  head'[<<l, c, i>>].kind \in {"msg", "cont"}
    <3>1. /\ HoldsSlots(t) /\ i \in HeldSlots(t)
          /\ held[t].first \in Nat /\ held[t].count \in Nat
          /\ head'[<<l, c, i>>] = CommitHead(t, i)
          /\ CommitHead(t, i).kind
               = IF i = held[t].first THEN job[t].kind ELSE "cont"
      BY <2>2, StoreFacts
    <3>2. i + 1 < held[t].first + held[t].count
      BY <1>1, <3>1, MoreWord
    <3>3. CASE i = held[t].first
      <4>1. held[t].count # 1
        BY <3>1, <3>2, <3>3
      <4> QED
        BY <3>1, <3>3, <4>1 DEF LoneInv
    <3> QED
      BY <3>1, <3>3
  <2> QED
    BY <2>1, <2>2, NewWord
<1> QED
  BY <1>1, LoneHeldStep DEF LoneInv

(* A Message word is stored by the call that wrote its payload, and nobody *)
(* wrote a Message of that call before.                                    *)
LEMMA NewMessage ==
  ASSUME LedgerInv, NEW t \in Threads, Commit(t),
         NEW l \in Loggers, NEW c \in Chunks, NEW i \in Slots,
         Stores(t, l, c, i), head'[<<l, c, i>>].kind = "msg",
         NEW d \in Chunks, NEW j \in Slots, <<d, j>> # <<c, i>>,
         head'[<<l, d, j>>].kind = "msg"
  PROVE  payload'[<<l, c, i>>].call # payload'[<<l, d, j>>].call
<1>0. IInv /\ PendingInv
  BY DEF LedgerInv
<1>1. /\ payload' = payload /\ payload[<<l, c, i>>] = OwnPayload(t)
      /\ l = job[t].log /\ pc[t] # "idle"
  BY <1>0, StoreFacts
<1>2. head'[<<l, d, j>>] = head[<<l, d, j>>]
  BY DEF Stores
<1>3. payload[<<l, d, j>>].call # job[t].call
  BY <1>0, <1>1, <1>2 DEF PendingInv
<1> QED
  BY <1>1, <1>3 DEF OwnPayload

LEMMA UniqueStep ==
  ASSUME LedgerInv, UniqueInv, [Next]_vars
  PROVE  UniqueInv'
<1> SUFFICES ASSUME NEW l \in Loggers, NEW c \in Chunks, NEW d \in Chunks,
                    NEW i \in Slots, NEW j \in Slots,
                    head'[<<l, c, i>>].kind = "msg",
                    head'[<<l, d, j>>].kind = "msg",
                    payload'[<<l, c, i>>].call = payload'[<<l, d, j>>].call,
                    <<c, i>> # <<d, j>>
             PROVE  FALSE
  BY DEF UniqueInv, IsMessage
<1>0. IInv
  BY DEF LedgerInv
<1>1. head'[<<l, c, i>>] = head[<<l, c, i>>]
  BY <1>0, NewWord, NewMessage
<1>2. head'[<<l, d, j>>] = head[<<l, d, j>>]
  BY <1>0, NewWord, NewMessage
<1>3. Committed(l, c, i) /\ Committed(l, d, j)
  BY <1>1, <1>2 DEF Committed
<1>4. /\ payload'[<<l, c, i>>] = payload[<<l, c, i>>]
      /\ payload'[<<l, d, j>>] = payload[<<l, d, j>>]
  BY <1>0, <1>3, FinalStep
<1> QED
  BY <1>1, <1>2, <1>4 DEF UniqueInv, IsMessage

LEMMA TailStays ==
  ASSUME IInv, [Next]_vars, NEW l \in Loggers, NEW c \in Chunks,
         NEW i \in Slots, NEW j \in Slots, TailOf(l, c, i, j)
  PROVE  TailOf(l, c, i, j)'
<1>1. Committed(l, c, j)
  BY DEF TailOf, IsMessage, Committed
<1>2. head'[<<l, c, j>>] = head[<<l, c, j>>]
  BY <1>1, FinalStep
<1>3. PICK k \in 1..ChunkUnits : Chain(l, c, j, k) /\ j < i /\ i <= j + k
  BY DEF TailOf
<1>4. Chain(l, c, j, k)'
  BY <1>1, <1>3, ChainStays
<1> QED
  BY <1>2, <1>3, <1>4 DEF TailOf, IsMessage

LEMMA TailStep ==
  ASSUME LedgerInv, LoneInv, TailInv, [Next]_vars
  PROVE  TailInv'
<1> SUFFICES ASSUME NEW l \in Loggers, NEW c \in Chunks, NEW i \in Slots,
                    head'[<<l, c, i>>].kind = "cont"
             PROVE  \/ \E t \in Threads : InFlight(t, l, c, i)'
                    \/ \E j \in Slots : TailOf(l, c, i, j)'
  BY DEF TailInv
<1>0. IInv
  BY DEF LedgerInv
<1>1. ASSUME NEW t \in Threads, InFlight(t, l, c, i)
      PROVE  InFlight(t, l, c, i)' \/ \E j \in Slots : TailOf(l, c, i, j)'
  <2>0. /\ HoldsSlots(t) /\ l = cache[t].owner /\ c = cache[t].chunk
        /\ i \in HeldSlots(t)
    BY <1>1 DEF InFlight
  <2>1. CASE ~(Commit(t) /\ LastCommit(t))
    BY <1>0, <2>0, <2>1, InFlightStays DEF InFlight, HeldSlots
  <2>2. CASE Commit(t) /\ LastCommit(t)
    <3>1. /\ HeldSlots(t) \subseteq Slots
          /\ held[t].first \in Nat \ {0} /\ held[t].count \in Nat
      BY <1>0, <2>0, HeldPlaces DEF IInv, TypeOK, Held
    <3>2. PICK j, k : j = held[t].first /\ k = held[t].count - 1
      OBVIOUS
    <3>3. head'[<<l, c, i>>] = CommitHead(t, i)
      BY <1>0, <2>0, <2>2, LastFacts
    <3>4. i # j
      BY <1>0, <3>2, <3>3 DEF CommitHead, IInv, TypeOK, Job
    <3>5. j < i /\ i <= j + k /\ j \in HeldSlots(t) /\ held[t].count > 1
      BY <2>0, <3>1, <3>2, <3>4 DEF HeldSlots
    <3>6. job[t].kind = "msg"
      BY <2>0, <3>5 DEF LoneInv
    <3>7. /\ k \in 1..ChunkUnits /\ Chain(l, c, j, k)'
          /\ head'[<<l, c, j>>].kind = job[t].kind
          /\ head'[<<l, c, j>>].more
      BY <1>0, <2>0, <2>2, <3>2, <3>5, LastChain
    <3>8. TailOf(l, c, i, j)'
      BY <3>5, <3>6, <3>7 DEF TailOf, IsMessage
    <3> QED
      BY <3>1, <3>5, <3>8
  <2> QED
    BY <2>1, <2>2
<1>2. CASE head'[<<l, c, i>>] = head[<<l, c, i>>]
  <2>1. \/ \E t \in Threads : InFlight(t, l, c, i)
        \/ \E j \in Slots : TailOf(l, c, i, j)
    BY <1>2 DEF TailInv
  <2> QED
    BY <1>0, <1>1, <2>1, TailStays
<1>3. ASSUME NEW t \in Threads, Commit(t), Stores(t, l, c, i)
      PROVE  InFlight(t, l, c, i)
  BY <1>0, <1>3, StoreFacts DEF InFlight
<1> QED
  BY <1>0, <1>1, <1>2, <1>3, NewWord

(* The invariant of the writers.                                           *)
LEMMA WriterStep == WriterInv /\ [Next]_vars => WriterInv'
BY LedgerStep, LoneStep, UniqueStep, TailStep DEF WriterInv, LedgerInv

LEMMA InitWriter == Init => WriterInv
<1> SUFFICES ASSUME Init
             PROVE  WriterInv
  OBVIOUS
<1>1. \A l \in Loggers, c \in Chunks, i \in Slots :
        head[<<l, c, i>>] = ZeroWord
  BY DEF Init, Places
<1>2. \A t \in Threads : ~HoldsSlots(t)
  BY DEF Init, HoldsSlots
<1> QED
  BY <1>1, <1>2, InitLedger
     DEF WriterInv, LoneInv, UniqueInv, TailInv, IsMessage, ZeroWord

-----------------------------------------------------------------------------
(* What a readable place says of the others.                               *)

LEMMA VisibleCommitted ==
  ASSUME NEW l, NEW c, NEW i \in Slots, Visible(l, c, i)
  PROVE  /\ Stamped(l, c)
         /\ \A j \in 1..i : j \in Slots /\ Committed(l, c, j)
         /\ Committed(l, c, i)
<1>1. i \in Nat \ {0} /\ i <= ChunkUnits /\ ChunkUnits \in Nat
  BY SizesAssumption DEF Slots
<1> QED
  BY <1>1 DEF Visible, Slots

(* What is readable is not part of a reservation.                          *)
LEMMA VisibleIsReleased ==
  ASSUME IInv, NEW l, NEW c, NEW i \in Slots, Visible(l, c, i),
         NEW t \in Threads
  PROVE  ~InFlight(t, l, c, i)
<1> SUFFICES ASSUME InFlight(t, l, c, i)
             PROVE  FALSE
  OBVIOUS
<1>1. /\ HoldsSlots(t) /\ l = cache[t].owner /\ c = cache[t].chunk
      /\ i \in HeldSlots(t) /\ HeldOK(t)
  BY DEF InFlight, IInv, HeldInv
<1>2. held[t].first \in Nat \ {0} /\ held[t].count \in Nat
  BY DEF IInv, TypeOK, Held
<1>3. held[t].first \in HeldSlots(t) /\ held[t].first \in 1..i
  BY <1>1, <1>2 DEF HeldSlots
<1>4. ~Committed(l, c, held[t].first)
  BY <1>1, <1>3 DEF HeldOK, Committed
<1> QED
  BY <1>3, <1>4, VisibleCommitted

(* A reader that comes to a committed record can read it: its chunk is     *)
(* stamped.                                                                *)
LEMMA CommittedVisible ==
  ASSUME IInv, NEW l \in Loggers, NEW c \in Chunks, NEW i \in Slots,
         Committed(l, c, i), \A j \in 1..(i - 1) : Committed(l, c, j)
  PROVE  Visible(l, c, i)
<1>1. CASE \E t \in Threads : InFlight(t, l, c, i)
  <2>1. PICK t \in Threads : InFlight(t, l, c, i)
    BY <1>1
  <2>2. CacheOK(t) /\ pc[t] \in {"fill", "commit"}
        /\ l = cache[t].owner /\ c = cache[t].chunk
    BY <2>1 DEF InFlight, HoldsSlots, IInv, CacheInv
  <2>3. Stamped(l, c)
    BY <2>2 DEF CacheOK, Stamped
  <2>4. \A j \in 1..i : Committed(l, c, j)
    BY DEF Slots
  <2> QED
    BY <2>3, <2>4 DEF Visible
<1> QED
  BY <1>1 DEF IInv, NothingHidden

(* A readable record that promises a Continuation has it next to it.       *)
LEMMA PromiseKept ==
  ASSUME WriterInv, NEW l \in Loggers, NEW c \in Chunks, NEW i \in Slots,
         Visible(l, c, i), head[<<l, c, i>>].more
  PROVE  /\ i + 1 \in Slots
         /\ head[<<l, c, i + 1>>].kind = "cont"
         /\ Visible(l, c, i + 1)
<1>0. IInv /\ ChainsAreWhole /\ ChunkUnits \in Nat /\ i \in Nat
  BY SizesAssumption DEF WriterInv, LedgerInv, Slots
<1>1. i + 1 \in Slots /\ head[<<l, c, i + 1>>].kind = "cont"
  <2>1. CASE head[<<l, c, i>>].kind = "cont"
    <3>1. PICK j \in Slots : TailOf(l, c, i, j)
      BY <1>0, <2>1, VisibleIsReleased DEF WriterInv, TailInv
    <3>2. PICK k \in 1..ChunkUnits : Chain(l, c, j, k) /\ j < i /\ i <= j + k
      BY <3>1 DEF TailOf
    <3>3. PICK m : m = i - j
      OBVIOUS
    <3>4. j \in Nat /\ k \in Nat /\ m \in 1..k /\ i = j + m
      BY <1>0, <3>2, <3>3 DEF Slots
    <3>5. m < k
      BY <3>2, <3>4 DEF Chain
    <3>6. m + 1 \in 1..k /\ j + (m + 1) = i + 1 /\ i + 1 <= j + k
      BY <3>4, <3>5
    <3>7. j + k \in Slots /\ head[<<l, c, j + (m + 1)>>].kind = "cont"
      BY <3>2, <3>6 DEF Chain
    <3>8. i + 1 \in Slots
      BY <1>0, <3>6, <3>7 DEF Slots
    <3> QED
      BY <3>6, <3>7, <3>8
  <2>2. CASE head[<<l, c, i>>].kind # "cont"
    <3>1. PICK k \in 1..ChunkUnits : Chain(l, c, i, k)
      BY <1>0, <2>2 DEF ChainsAreWhole
    <3>2. 1 \in 1..k /\ i + k \in Slots /\ k \in Nat
      BY <1>0, <3>1 DEF Chain
    <3>3. head[<<l, c, i + 1>>].kind = "cont"
      BY <3>1, <3>2 DEF Chain
    <3>4. i + 1 \in Slots
      BY <1>0, <3>2 DEF Slots
    <3> QED
      BY <3>3, <3>4
  <2> QED
    BY <2>1, <2>2
<1>2. Committed(l, c, i + 1)
  BY <1>1 DEF Committed
<1>3. \A j \in 1..((i + 1) - 1) : Committed(l, c, j)
  BY <1>0, VisibleCommitted
<1>4. Visible(l, c, i + 1)
  BY <1>0, <1>1, <1>2, <1>3, CommittedVisible
<1> QED
  BY <1>1, <1>4

(* A complete run is as long as the chain of its Message.                  *)
LEMMA RunLength ==
  ASSUME NEW l \in Loggers, NEW r \in Seq(Place),
         NEW c \in Chunks, NEW i \in Slots,
         RunOf(l, r, c, i), ~head[<<l, c, LastSlot(i, r)>>].more,
         head[<<l, c, i>>].more,
         NEW k \in Nat \ {0}, Chain(l, c, i, k)
  PROVE  Len(r) = k + 1
<1>1. Len(r) \in Nat \ {0} /\ i \in Nat \ {0}
  BY EmptySeq DEF RunOf, Slots
<1>2. Len(r) # 1
  <2> SUFFICES ASSUME Len(r) = 1
               PROVE  FALSE
    OBVIOUS
  <2>1. LastSlot(i, r) = i
    BY <1>1 DEF LastSlot
  <2> QED
    BY <2>1
<1>3. CASE Len(r) - 1 < k
  <2>1. PICK m : m = Len(r) - 1
    OBVIOUS
  <2>2. m \in 1..k /\ m < k /\ LastSlot(i, r) = i + m
    BY <1>1, <1>2, <1>3, <2>1 DEF LastSlot
  <2> QED
    BY <2>2 DEF Chain
<1>4. CASE Len(r) - 1 > k
  <2>1. PICK m : m = k + 1
    OBVIOUS
  <2>2. m \in 1..Len(r) /\ m < Len(r) /\ i + m - 1 = i + k
    BY <1>1, <1>4, <2>1
  <2>3. head[<<l, c, i + m - 1>>].more
    BY <2>2 DEF RunOf
  <2>4. head[<<l, c, i + k>>].more
    BY <2>2, <2>3
  <2>5. k \in 1..k /\ ~(k < k)
    OBVIOUS
  <2>6. head[<<l, c, i + k>>].more = (k < k)
    BY <2>5 DEF Chain
  <2> QED
    BY <2>4, <2>5, <2>6
<1> QED
  BY <1>1, <1>3, <1>4

(* No thread is still writing a call whose Message is in memory.           *)
LEMMA DecodedIsOver ==
  ASSUME LedgerInv, NEW l \in Loggers, NEW c \in Chunks, NEW i \in Slots,
         IsMessage(l, c, i), NEW d \in Chunks, NEW j \in Slots,
         Committed(l, d, j),
         payload[<<l, d, j>>].call = payload[<<l, c, i>>].call,
         NEW t \in Threads
  PROVE  ~InFlight(t, l, d, j)
<1> SUFFICES ASSUME InFlight(t, l, d, j)
             PROVE  FALSE
  OBVIOUS
<1>0. IInv /\ PendingInv
  BY DEF LedgerInv
<1>1. /\ HoldsSlots(t) /\ l = cache[t].owner /\ d = cache[t].chunk
      /\ j \in HeldSlots(t) /\ HeldOK(t) /\ CacheOK(t)
  BY <1>0 DEF InFlight, IInv, HeldInv, CacheInv
<1>2. pc[t] = "commit"
  <2> SUFFICES ASSUME pc[t] # "commit"
               PROVE  FALSE
    OBVIOUS
  <2>1. stored[t] = 0 /\ held[t].first \in Nat /\ j \in Nat
    BY <1>0 DEF IInv, StoredInv, TypeOK, Held, Slots
  <2>2. ~Committed(l, d, j)
    BY <1>1, <2>1 DEF HeldOK, Committed
  <2> QED
    BY <2>2
<1>3. payload[<<l, d, j>>] = OwnPayload(t) /\ l = job[t].log
  BY <1>1, <1>2 DEF HeldOK, CacheOK
<1>4. payload[<<l, c, i>>].call # job[t].call
  BY <1>0, <1>2, <1>3 DEF PendingInv, IsMessage
<1> QED
  BY <1>3, <1>4 DEF OwnPayload

(* The records of a complete run are those of the call of its Message.     *)
LEMMA RunIsWhole ==
  ASSUME WriterInv, NEW l \in Loggers, NEW r \in Seq(Place),
         NEW c \in Chunks, NEW i \in Slots,
         RunOf(l, r, c, i), ~head[<<l, c, LastSlot(i, r)>>].more
  PROVE  DecodedWhole(l, r)
<1>0. /\ LedgerInv /\ IInv /\ ChainsAreWhole /\ UniqueInv /\ TailInv
      /\ l \in Loggers /\ ChunkUnits \in Nat
  BY SizesAssumption DEF WriterInv, LedgerInv
<1>1. Len(r) \in Nat \ {0} /\ i \in Nat \ {0} /\ DOMAIN r = 1..Len(r)
  BY EmptySeq, LenProperties DEF RunOf, Slots
<1>2. r[1] = <<c, i>> /\ IsMessage(l, c, i)
  <2>1. 1 \in 1..Len(r) /\ i + 1 - 1 = i
    BY <1>1
  <2> QED
    BY <2>1 DEF RunOf
<1>3. PICK n : n = payload[<<l, c, i>>].call
  OBVIOUS
<1>4. CallOf(l, r) = n
  BY <1>2, <1>3 DEF CallOf
<1>5. ASSUME NEW k \in 1..Len(r)
      PROVE  r[k] \in MessagePlaces(l, n)
  <2>1. /\ i + k - 1 \in Slots /\ r[k] = <<c, i + k - 1>>
    BY DEF RunOf
  <2>2. CASE k = 1
    <3>1. /\ r[k] = <<c, i>> /\ head[<<l, c, i>>].kind = "msg"
          /\ payload[<<l, c, i>>].call = n
      BY <1>2, <1>3, <2>2 DEF IsMessage
    <3> QED
      BY <3>1 DEF MessagePlaces
  <2>3. CASE k > 1
    <3>1. 1 \in 1..Len(r) /\ 1 < Len(r) /\ i + 1 - 1 = i
      BY <1>1, <2>3
    <3>2. head[<<l, c, i>>].more
      BY <3>1 DEF RunOf
    <3>3. head[<<l, c, i>>].kind # "cont"
      BY <1>2 DEF IsMessage
    <3>4. PICK m \in 1..ChunkUnits : Chain(l, c, i, m)
      BY <1>0, <3>2, <3>3 DEF ChainsAreWhole
    <3>5. Len(r) = m + 1 /\ m \in Nat
      BY <1>0, <3>2, <3>4, RunLength
    <3>6. PICK j : j = k - 1
      OBVIOUS
    <3>7. j \in 1..m /\ i + k - 1 = i + j
      BY <1>1, <2>3, <3>5, <3>6
    <3>8. /\ head[<<l, c, i + j>>].kind = "cont"
          /\ payload[<<l, c, i + j>>].call = n
      BY <1>3, <3>4, <3>7 DEF Chain
    <3>9. PICK b : b = i + j
      OBVIOUS
    <3>10. b \in Slots /\ r[k] = <<c, b>>
      BY <2>1, <3>7, <3>9
    <3>11. /\ head[<<l, c, b>>].kind = "cont"
           /\ payload[<<l, c, b>>].call = n
      BY <3>8, <3>9
    <3> QED
      BY <3>10, <3>11 DEF MessagePlaces
  <2> QED
    BY <1>1, <2>2, <2>3
<1>6. ASSUME NEW p \in MessagePlaces(l, n)
      PROVE  \E k \in 1..Len(r) : p = r[k]
  <2>1. PICK d \in Chunks, j \in Slots : p = <<d, j>>
    BY DEF MessagePlaces
  <2>2. /\ head[<<l, d, j>>].kind \in {"msg", "cont"}
        /\ payload[<<l, d, j>>].call = n
    BY <2>1 DEF MessagePlaces
  <2>3. CASE IsMessage(l, d, j)
    <3>1. d = c /\ j = i
      BY <1>0, <1>2, <1>3, <2>2, <2>3 DEF UniqueInv
    <3> QED
      BY <1>1, <1>2, <2>1, <3>1
  <2>4. CASE ~IsMessage(l, d, j)
    <3>1. head[<<l, d, j>>].kind = "cont" /\ Committed(l, d, j)
      BY <2>2, <2>4 DEF IsMessage, Committed
    <3>2. \A t \in Threads : ~InFlight(t, l, d, j)
      BY <1>0, <1>2, <1>3, <2>2, <3>1, DecodedIsOver
    <3>3. PICK b \in Slots : TailOf(l, d, j, b)
      BY <1>0, <3>1, <3>2 DEF TailInv
    <3>4. PICK m \in 1..ChunkUnits : /\ Chain(l, d, b, m)
                                     /\ b < j /\ j <= b + m
      BY <3>3 DEF TailOf
    <3>5. PICK o : o = j - b
      OBVIOUS
    <3>6. o \in 1..m /\ j = b + o /\ m \in Nat \ {0}
      BY <1>0, <3>4, <3>5 DEF Slots
    <3>7. payload[<<l, d, b>>].call = n
      BY <2>2, <3>4, <3>6 DEF Chain
    <3>8. d = c /\ b = i /\ head[<<l, c, i>>].more
      BY <1>0, <1>2, <1>3, <3>3, <3>7 DEF UniqueInv, TailOf
    <3>9. Len(r) = m + 1
      BY <3>4, <3>6, <3>8, RunLength
    <3>10. o + 1 \in 1..Len(r) /\ i + (o + 1) - 1 = j
      BY <1>1, <3>6, <3>8, <3>9
    <3>11. r[o + 1] = <<c, i + (o + 1) - 1>>
      BY <3>10 DEF RunOf
    <3> QED
      BY <2>1, <3>8, <3>10, <3>11
  <2> QED
    BY <2>3, <2>4
<1>7. ToSet(r) = MessagePlaces(l, n)
  BY <1>1, <1>5, <1>6 DEF ToSet
<1>8. ASSUME NEW k \in 1..(Len(r) - 1)
      PROVE  r[k + 1] = <<r[k][1], r[k][2] + 1>>
  <2>1. k \in 1..Len(r) /\ k + 1 \in 1..Len(r) /\ k \in Nat
        /\ i + (k + 1) - 1 = (i + k - 1) + 1
    BY <1>1
  <2>2. r[k] = <<c, i + k - 1>> /\ r[k + 1] = <<c, i + (k + 1) - 1>>
    BY <2>1 DEF RunOf
  <2> QED
    BY <2>1, <2>2
<1> QED
  BY <1>4, <1>7, <1>8 DEF DecodedWhole

(* Different members make a sequence as long as the set of them is large.  *)
LEMMA AllDifferent ==
  ASSUME NEW S, NEW s \in Seq(S),
         \A k, m \in DOMAIN s : s[k] = s[m] => k = m
  PROVE  Cardinality({s[k] : k \in DOMAIN s}) = Len(s)
<1>1. Len(s) \in Nat /\ DOMAIN s = 1..Len(s) /\ s \in [1..Len(s) -> S]
  BY LenProperties
<1>2. PICK T : T = {s[k] : k \in DOMAIN s}
  OBVIOUS
<1>3. s \in [1..Len(s) -> T]
  BY <1>1, <1>2
<1>4. s \in Bijection(1..Len(s), T)
  BY <1>1, <1>2, <1>3 DEF Bijection, Injection, Surjection, IsInjective
<1>5. ExistsBijection(1..Len(s), T)
  BY <1>4 DEF ExistsBijection
<1> QED
  BY <1>1, <1>2, <1>5, FS_CountingElements

=============================================================================
