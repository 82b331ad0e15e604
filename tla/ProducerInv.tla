----------------------------- MODULE ProducerInv ----------------------------
(***************************************************************************)
(* The inductive invariants behind ProducerProofs.  The properties of      *)
(* Producer speak of memory alone; to be preserved they need what each     *)
(* thread knows of the chunk it is writing.                                *)
(***************************************************************************)
EXTENDS Producer, Sequences

HasChunk(t) == cache[t].chunk # 0

(* What a call knows of itself at each program point.                      *)
JobOK(t) ==
  /\ pc[t] = "idle" <=> job[t].log = NoLogger
  /\ pc[t] = "idle" => job[t] = NoJob
  /\ job[t].kind = "sub" => job[t].site = NoSite
  /\ job[t].kind # "sub" => job[t].site \in Sites
  /\ pc[t] = "announce" => job[t].kind = "def"

JobInv == \A t \in Threads : JobOK(t)

(* A cached chunk was claimed from its owner's cursor, and the offset of   *)
(* the writer has room for the slots handed out.                           *)
CacheOK(t) ==
  /\ HasChunk(t) => /\ cache[t].owner \in Loggers
                    /\ cache[t].chunk <= cursor[cache[t].owner]
  /\ cache[t].next <= cache[t].used + 1
  /\ cache[t].used <= ChunkUnits
  /\ pc[t] \in {"stamp", "restamp", "reserve", "retry", "fill", "commit"} =>
       cache[t].owner = job[t].log
  /\ pc[t] \in {"stamp", "restamp", "retry", "fill", "commit"} => HasChunk(t)
  /\ pc[t] \in {"stamp", "restamp"} => cache[t].next = 1
  /\ HasChunk(t) /\ pc[t] \notin {"stamp", "restamp"} =>
       stamp[<<cache[t].owner, cache[t].chunk>>] # NoThread

CacheInv == \A t \in Threads : CacheOK(t)

(* A chunk nobody claimed yet is untouched.                                *)
UnclaimedInv ==
  \A l \in Loggers, c \in Chunks :
    c > cursor[l] => \A i \in Slots : ~Committed(l, c, i)

(* The slots of a thread's own chunk: zero from next on; below, committed  *)
(* unless they belong to the reservation the thread holds.                 *)
OwnSlotsOK(t) ==
  \A i \in Slots :
    LET l == cache[t].owner c == cache[t].chunk IN
    /\ i >= cache[t].next => ~Committed(l, c, i)
    /\ i < cache[t].next /\ ~InFlight(t, l, c, i) => Committed(l, c, i)

OwnSlotsInv == \A t \in Threads : HasChunk(t) => OwnSlotsOK(t)

(* The reservation: it ends at next, its first slot is stored last, the    *)
(* others are stored in order over written payloads.                       *)
HeldOK(t) ==
  /\ held[t].first + held[t].count = cache[t].next
  /\ stored[t] < held[t].count
  /\ \A i \in HeldSlots(t) :
       LET word == head[<<cache[t].owner, cache[t].chunk, i>>] IN
       IF held[t].first < i /\ i <= held[t].first + stored[t]
       THEN word = CommitHead(t, i)
       ELSE word.kind = "none"
  /\ pc[t] = "commit" =>
       \A i \in HeldSlots(t) :
         payload[<<cache[t].owner, cache[t].chunk, i>>] = OwnPayload(t)

HeldInv == \A t \in Threads : HoldsSlots(t) => HeldOK(t)

StoredInv == \A t \in Threads : pc[t] # "commit" => stored[t] = 0

(* A site counts as known to a segment only once its definition can be     *)
(* read there.                                                             *)
KnownInv ==
  /\ \A s \in Sites : key[s] \in Loggers => DefinitionVisible(key[s], s)
  /\ \A t \in Threads :
       pc[t] = "announce" \/ job[t].kind = "msg" =>
         DefinitionVisible(job[t].log, job[t].site)

IInv ==
  /\ TypeOK
  /\ JobInv
  /\ CacheInv
  /\ ExclusiveChunks
  /\ UnclaimedInv
  /\ OwnSlotsInv
  /\ HeldInv
  /\ StoredInv
  /\ WrittenBeforeCommitted
  /\ NothingHidden
  /\ KnownInv
  /\ DefinitionPrecedesMessage

-----------------------------------------------------------------------------
(* What the ledger of calls and the chains need besides.                   *)

(* The calls in progress on a Logger have different numbers, all counted   *)
(* among the attempts.                                                     *)
CallsInv ==
  /\ \A l \in Loggers : attempts[l] <= MaxEmits
  /\ \A t \in Threads :
       pc[t] # "idle" => job[t].call \in 1..attempts[job[t].log]
  /\ \A t, u \in Threads :
       t # u /\ pc[t] # "idle" /\ pc[u] # "idle" /\ job[t].log = job[u].log =>
         job[t].call # job[u].call

(* A word that is not committed promises nothing; a committed record is    *)
(* that of a counted call.                                                 *)
WordsInv ==
  \A l \in Loggers, c \in Chunks, i \in Slots :
    /\ ~Committed(l, c, i) => ~head[<<l, c, i>>].more
    /\ Committed(l, c, i) => payload[<<l, c, i>>].call \in 1..attempts[l]

(* As long as a call runs its record is not committed: the last head word  *)
(* of the call and the end of it are one step.                             *)
PendingInv ==
  \A t \in Threads, l \in Loggers, c \in Chunks, i \in Slots :
    /\ pc[t] # "idle"
    /\ job[t].log = l
    /\ head[<<l, c, i>>].kind \in {"msg", "sub"}
    => payload[<<l, c, i>>].call # job[t].call

LedgerInv ==
  /\ IInv
  /\ CallsInv
  /\ WordsInv
  /\ PendingInv
  /\ ChainsAreWhole

-----------------------------------------------------------------------------
(* What the producer's ledger and chains leave unsaid of single calls.     *)

(* Only a Message makes a reservation of several records, and only it and  *)
(* its Continuations promise another.                                      *)
LoneInv ==
  /\ \A t \in Threads :
       HoldsSlots(t) /\ job[t].kind # "msg" => held[t].count = 1
  /\ \A l \in Loggers, c \in Chunks, i \in Slots :
       head[<<l, c, i>>].more => head[<<l, c, i>>].kind \in {"msg", "cont"}

IsMessage(l, c, i) == head[<<l, c, i>>].kind = "msg"

(* A call writes one Message.                                              *)
UniqueInv ==
  \A l \in Loggers, c, d \in Chunks, i, j \in Slots :
    /\ IsMessage(l, c, i) /\ IsMessage(l, d, j)
    /\ payload[<<l, c, i>>].call = payload[<<l, d, j>>].call
    => c = d /\ i = j

(* Slot i of the chunk is one of the Continuations of the Message at j.    *)
TailOf(l, c, i, j) ==
  /\ IsMessage(l, c, j) /\ head[<<l, c, j>>].more
  /\ \E k \in 1..ChunkUnits : Chain(l, c, j, k) /\ j < i /\ i <= j + k

(* A Continuation in memory has its Message, or its thread is about to     *)
(* store it.                                                               *)
TailInv ==
  \A l \in Loggers, c \in Chunks, i \in Slots :
    head[<<l, c, i>>].kind = "cont" =>
      \/ \E t \in Threads : InFlight(t, l, c, i)
      \/ \E j \in Slots : TailOf(l, c, i, j)

WriterInv ==
  /\ LedgerInv
  /\ LoneInv
  /\ UniqueInv
  /\ TailInv

Place == Nat \X Nat

(* r names readable records side by side from slot i of chunk c on, a      *)
(* Message first, each but the last promising the next.                    *)
RunOf(l, r, c, i) ==
  /\ r # <<>>
  /\ IsMessage(l, c, i)
  /\ \A k \in 1..Len(r) :
       /\ i + k - 1 \in Slots
       /\ r[k] = <<c, i + k - 1>>
       /\ Visible(l, c, i + k - 1)
       /\ k < Len(r) => head[<<l, c, i + k - 1>>].more

LastSlot(i, r) == i + Len(r) - 1

=============================================================================
