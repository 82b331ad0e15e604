--------------------------- MODULE ThreadContext ---------------------------
(***************************************************************************)
(* What surrounds the emit path on one thread: the scopes that bind a      *)
(* Logger and set the correlation id, a signal handler that emits over an  *)
(* emission it interrupted, a fork() and a spawned process that inherit    *)
(* the thread's state (log.hpp, instance.hpp, context.hpp, chunk.hpp,      *)
(* child.hpp).                                                             *)
(*                                                                         *)
(* Every process has the one thread; every record is one slot of a chunk.  *)
(* The segment of a Logger is shared memory: a forked child has it too.    *)
(* The sites are announced.  The death of a process is not an action:      *)
(* whatever holds in every state holds of the image it leaves.             *)
(***************************************************************************)
EXTENDS Integers, FiniteSets, Sequences, SequencesExt

CONSTANTS
  Shared,      \* Loggers the parent created
  Own,         \* the Logger a child creates
  NoLogger,
  ChunkCount,
  ChunkSlots,  \* records that fit a chunk
  RootId,      \* SUB0LOG_CORRELATION in the parent's environment, or 0
  ScopeIds,    \* ids a CorrelationScope may enter
  MaxCalls,    \* bound on the emissions
  MaxBinds,    \* bound on the ScopedBinds open in a process
  MaxScopes    \* bound on the CorrelationScopes open

Processes == {"parent", "child"}
Loggers == Shared \cup {Own}
Chunks == 1..ChunkCount
Slots == 1..ChunkSlots
NotCreated == -1

ASSUME ContextAssumption ==
  /\ Own \notin Shared
  /\ NoLogger \notin Loggers
  /\ ChunkCount \in Nat /\ ChunkSlots \in Nat
  /\ RootId \in Nat /\ ScopeIds \subseteq Nat
  /\ MaxCalls \in Nat /\ MaxBinds \in Nat /\ MaxScopes \in Nat

VARIABLES
  state,      \* of each process: "none", "running" or "forked"
  env,        \* SUB0LOG_CORRELATION of each process
  root,       \* rootCorrelation_ of each Logger
  active,     \* sActive_ of each process
  detached,   \* sDetachedByFork_
  binds,      \* previous_ of the open ScopedBinds, the innermost last
  corr,       \* tCurrentCorrelationId
  corrs,      \* previous_ of the open CorrelationScopes
  cache,      \* WriterCache of the thread
  frames,     \* emissions begun: the interrupted one below the handler's
  cursor,     \* chunk cursor of each segment
  memory,     \* the record committed in each slot, by its call
  calls,      \* emissions begun in each process
  ledger,     \* emissions that returned
  unbound,    \* emissions counted as unbound in each process
  torn,       \* history: a handler ran inside an update of the WriterCache
  forkDepth,  \* history: ScopedBinds open at the fork
  joined,     \* history: the activity the spawned child was to join
  strayed     \* history: a record carries another activity than its call's

scopeVars == <<active, detached, binds, corr, corrs>>
history == <<torn, forkDepth, joined, strayed>>
vars == <<state, env, root, scopeVars, cache, frames, cursor, memory, calls,
          ledger, unbound, history>>

Zero == <<"none", 0>>
Cached == {"chunk", "next", "owner"}
NoCache == [owner |-> NoLogger, chunk |-> 0, next |-> 1]

Steps == {"claim", "assign", "load", "bump", "commit", "drop"}

Frames ==
  [pc : Steps, log : Loggers, refilled : BOOLEAN, chunk : Nat, at : Nat,
   left : SUBSET Cached, id : Processes \X Nat, act : Int, saved : Nat]

(* Every variable holds what the code's type of it can: the stacks hold    *)
(* whole emissions, the segments a call's record or zero (emitRecord,      *)
(* WriterCache, ScopedBind, CorrelationScope).                             *)
TypeOK ==
  /\ state \in [Processes -> {"none", "running", "forked"}]
  /\ env \in [Processes -> Nat]
  /\ root \in [Loggers -> Nat \cup {NotCreated}]
  /\ active \in [Processes -> Loggers \cup {NoLogger}]
  /\ detached \in [Processes -> BOOLEAN]
  /\ binds \in [Processes -> Seq(Loggers \cup {NoLogger})]
  /\ corr \in [Processes -> Nat]
  /\ corrs \in [Processes -> Seq(Nat)]
  /\ cache \in [Processes -> [owner : Loggers \cup {NoLogger},
                              chunk : Nat, next : Nat]]
  /\ frames \in [Processes -> Seq(Frames)]
  /\ cursor \in [Loggers -> Nat]
  /\ memory \in [Loggers \X Chunks \X Slots
                   -> (Processes \X Nat) \cup {Zero}]
  /\ calls \in [Processes -> Nat]
  /\ ledger \subseteq [id : Processes \X Nat, log : Loggers,
                       dropped : BOOLEAN, handler : BOOLEAN]
  /\ unbound \in [Processes -> Nat]
  /\ torn \in BOOLEAN /\ strayed \in BOOLEAN
  /\ forkDepth \in Nat /\ joined \in Nat

Init ==
  /\ state = [p \in Processes |-> IF p = "parent" THEN "running" ELSE "none"]
  /\ env = [p \in Processes |-> IF p = "parent" THEN RootId ELSE 0]
  /\ root = [l \in Loggers |-> IF l \in Shared THEN RootId ELSE NotCreated]
  /\ active = [p \in Processes |-> NoLogger]
  /\ detached = [p \in Processes |-> FALSE]
  /\ binds = [p \in Processes |-> <<>>]
  /\ corr = [p \in Processes |-> 0]
  /\ corrs = [p \in Processes |-> <<>>]
  /\ cache = [p \in Processes |-> NoCache]
  /\ frames = [p \in Processes |-> <<>>]
  /\ cursor = [l \in Loggers |-> 0]
  /\ memory = [x \in Loggers \X Chunks \X Slots |-> Zero]
  /\ calls = [p \in Processes |-> 0]
  /\ ledger = {}
  /\ unbound = [p \in Processes |-> 0]
  /\ torn = FALSE
  /\ forkDepth = 0
  /\ joined = RootId
  /\ strayed = FALSE

(* A spawned child shares nothing with its parent, which is followed no    *)
(* further.                                                                *)
Runs(p) ==
  /\ state[p] \in {"running", "forked"}
  /\ p = "parent" => state["child"] # "running"

Idle(p) == Runs(p) /\ frames[p] = <<>>

-----------------------------------------------------------------------------
(* Scopes.                                                                 *)

EnterBind(p, l) ==
  /\ Idle(p)
  /\ Len(binds[p]) < MaxBinds
  /\ IF p = "parent" THEN l \in Shared
                     ELSE l = Own /\ root[Own] # NotCreated
  /\ binds' = [binds EXCEPT ![p] = Append(@, active[p])]
  /\ active' = [active EXCEPT ![p] = l]
  /\ UNCHANGED <<state, env, root, detached, corr, corrs, cache, frames,
                 cursor, memory, calls, ledger, unbound, history>>

(* The destructor puts back what the constructor found, in a forked child  *)
(* too.                                                                    *)
LeaveBind(p) ==
  /\ Idle(p)
  /\ binds[p] # <<>>
  /\ active' = [active EXCEPT ![p] = Last(binds[p])]
  /\ binds' = [binds EXCEPT ![p] = Front(@)]
  /\ UNCHANGED <<state, env, root, detached, corr, corrs, cache, frames,
                 cursor, memory, calls, ledger, unbound, history>>

(* CorrelationScope: a fresh id is unlike any id met before.               *)
EnterScope(p, id) ==
  /\ Idle(p)
  /\ Len(corrs["parent"]) + Len(corrs["child"]) < MaxScopes
  /\ corrs' = [corrs EXCEPT ![p] = Append(@, corr[p])]
  /\ corr' = [corr EXCEPT ![p] = id]
  /\ UNCHANGED <<state, env, root, active, detached, binds, cache, frames,
                 cursor, memory, calls, ledger, unbound, history>>

LeaveScope(p) ==
  /\ Idle(p)
  /\ corrs[p] # <<>>
  /\ corr' = [corr EXCEPT ![p] = Last(corrs[p])]
  /\ corrs' = [corrs EXCEPT ![p] = Front(@)]
  /\ UNCHANGED <<state, env, root, active, detached, binds, cache, frames,
                 cursor, memory, calls, ledger, unbound, history>>

-----------------------------------------------------------------------------
(* Processes.                                                              *)

(* Fault: the child is flagged and keeps its binding.                      *)
FlagOnly == active["parent"]

(* What detachForFork leaves bound.                                        *)
detachForFork == NoLogger

Fork ==
  /\ Idle("parent")
  /\ state["child"] = "none"
  /\ state' = [state EXCEPT !["child"] = "forked"]
  /\ env' = [env EXCEPT !["child"] = env["parent"]]
  /\ active' = [active EXCEPT !["child"] = detachForFork]
  /\ detached' = [detached EXCEPT !["child"] = TRUE]
  /\ binds' = [binds EXCEPT !["child"] = binds["parent"]]
  /\ corr' = [corr EXCEPT !["child"] = corr["parent"]]
  /\ corrs' = [corrs EXCEPT !["child"] = corrs["parent"]]
  /\ cache' = [cache EXCEPT !["child"] = cache["parent"]]
  /\ forkDepth' = Len(binds["parent"])
  /\ UNCHANGED <<root, frames, cursor, memory, calls, ledger, unbound, torn,
                 joined, strayed>>

(* The activity spawn() hands to the child; 0 leaves the inherited         *)
(* variable as it is.                                                      *)
HandOver ==
  IF corr["parent"] # 0 THEN corr["parent"]
  ELSE IF active["parent"] # NoLogger THEN root[active["parent"]] ELSE 0

Spawn(propagate) ==
  /\ Idle("parent")
  /\ state["child"] = "none"
  /\ state' = [state EXCEPT !["child"] = "running"]
  /\ env' = [env EXCEPT !["child"] =
               IF propagate /\ HandOver # 0 THEN HandOver ELSE env["parent"]]
  /\ joined' = IF propagate /\ corr["parent"] # 0 THEN corr["parent"]
                                                 ELSE RootId
  /\ UNCHANGED <<root, scopeVars, cache, frames, cursor, memory, calls, ledger,
                 unbound, torn, forkDepth, strayed>>

(* Logger::create in a child: finishCreate.                                *)
Create ==
  /\ Idle("child")
  /\ root[Own] = NotCreated
  /\ detached' = [detached EXCEPT !["child"] = FALSE]
  /\ root' = [root EXCEPT ![Own] = env["child"]]
  /\ UNCHANGED <<state, env, active, binds, corr, corrs, cache, frames,
                 cursor, memory, calls, ledger, unbound, history>>

-----------------------------------------------------------------------------
(* Emissions.                                                              *)

Top(p) == Last(frames[p])
OnTop(p, f) == frames' = [frames EXCEPT ![p] = Append(Front(@), f)]

Activity(p, l) == IF corr[p] # 0 THEN corr[p] ELSE root[l]

(* An emission begins with currentWriter: the thread's chunk, or a first   *)
(* one.  saved is what the scope of a handler restores.                    *)
Frame(p, id) ==
  [pc |-> IF cache[p].owner = active[p] THEN "load" ELSE "claim",
   log |-> active[p], refilled |-> FALSE, chunk |-> 0, at |-> 0,
   left |-> {}, id |-> <<p, calls[p] + 1>>,
   act |-> IF id # 0 THEN id ELSE root[active[p]], saved |-> corr[p]]

Call(p) ==
  /\ Idle(p)
  /\ calls["parent"] + calls["child"] < MaxCalls
  /\ calls' = [calls EXCEPT ![p] = @ + 1]
  /\ IF active[p] = NoLogger
     THEN unbound' = [unbound EXCEPT ![p] = @ + 1] /\ UNCHANGED frames
     ELSE /\ frames' = [frames EXCEPT ![p] = <<Frame(p, corr[p])>>]
          /\ UNCHANGED unbound
  /\ UNCHANGED <<state, env, root, scopeVars, cache, cursor, memory, ledger,
                 history>>

(* Where a handler finds the WriterCache neither as it was nor as it will  *)
(* be: between the load and the store of offset_ in reserve(), and between *)
(* the stores of a new writer.                                             *)
Updating(f) ==
  \/ f.pc = "bump"
  \/ f.pc = "assign" /\ f.left # Cached

(* The thread, or the one it was forked from, has emitted a record.        *)
Warm(p) ==
  \E e \in ledger : e.id[1] = p \/ (state[p] = "forked" /\ e.id[1] = "parent")

(* A signal handler runs in the middle of an emission of a warm thread,    *)
(* enters a scope (or not) and emits.                                      *)
Interrupt(p, id) ==
  /\ Runs(p)
  /\ Len(frames[p]) = 1
  /\ Warm(p)
  /\ calls["parent"] + calls["child"] < MaxCalls
  /\ calls' = [calls EXCEPT ![p] = @ + 1]
  /\ frames' = [frames EXCEPT ![p] = Append(@, Frame(p, id))]
  /\ corr' = [corr EXCEPT ![p] = id]
  /\ torn' = (torn \/ Updating(Top(p)))
  /\ UNCHANGED <<state, env, root, active, detached, binds, corrs, cache,
                 cursor, memory, ledger, unbound, forkDepth, joined, strayed>>

(* claimChunk of the segment.                                              *)
Claim(p) ==
  /\ Runs(p) /\ frames[p] # <<>> /\ Top(p).pc = "claim"
  /\ LET l == Top(p).log IN
     /\ cursor' = [cursor EXCEPT ![l] = IF @ < ChunkCount THEN @ + 1 ELSE @]
     /\ OnTop(p, [Top(p) EXCEPT
          !.pc = "assign",
          !.chunk = IF cursor[l] < ChunkCount THEN cursor[l] + 1 ELSE 0,
          !.left = Cached])
  /\ UNCHANGED <<state, env, root, scopeVars, cache, memory, calls, ledger,
                 unbound, history>>

(* The claimed writer goes into the WriterCache, store by store, in an     *)
(* order the compiler chooses.                                             *)
Assign(p, field) ==
  /\ Runs(p) /\ frames[p] # <<>> /\ Top(p).pc = "assign"
  /\ field \in Top(p).left
  /\ cache' = [cache EXCEPT ![p][field] =
                 CASE field = "chunk" -> Top(p).chunk
                   [] field = "next" -> 1
                   [] field = "owner" -> Top(p).log]
  /\ OnTop(p, [Top(p) EXCEPT
       !.left = @ \ {field},
       !.pc = IF Top(p).left = {field} THEN "load" ELSE "assign"])
  /\ UNCHANGED <<state, env, root, scopeVars, cursor, memory, calls, ledger,
                 unbound, history>>

(* reserve: the fit check on the values loaded; reserveRecord: a fresh     *)
(* chunk, then a drop.                                                     *)
Load(p) ==
  /\ Runs(p) /\ frames[p] # <<>> /\ Top(p).pc = "load"
  /\ LET fits == cache[p].chunk # 0 /\ cache[p].next <= ChunkSlots IN
     OnTop(p, [Top(p) EXCEPT
       !.chunk = cache[p].chunk,
       !.at = cache[p].next,
       !.refilled = @ \/ ~fits,
       !.pc = IF fits THEN "bump"
              ELSE IF Top(p).refilled THEN "drop" ELSE "claim"])
  /\ UNCHANGED <<state, env, root, scopeVars, cache, cursor, memory, calls,
                 ledger, unbound, history>>

Bump(p) ==
  /\ Runs(p) /\ frames[p] # <<>> /\ Top(p).pc = "bump"
  /\ cache' = [cache EXCEPT ![p].next = Top(p).at + 1]
  /\ OnTop(p, [Top(p) EXCEPT !.pc = "commit"])
  /\ UNCHANGED <<state, env, root, scopeVars, cursor, memory, calls, ledger,
                 unbound, history>>

(* Fault: a handler's scope ends by clearing the id.                       *)
ScopeCleared(p) == IF Len(frames[p]) = 2 THEN 0 ELSE corr[p]

(* The id after the call: a handler's CorrelationScope restores it.        *)
ScopeRestored(p) == IF Len(frames[p]) = 2 THEN Top(p).saved ELSE corr[p]

(* The call returns; a handler leaves its scope.                           *)
Return(p, isDropped) ==
  /\ frames' = [frames EXCEPT ![p] = Front(@)]
  /\ corr' = [corr EXCEPT ![p] = ScopeRestored(p)]
  /\ ledger' = ledger \cup
       {[id |-> Top(p).id, log |-> Top(p).log,
         dropped |-> isDropped, handler |-> Len(frames[p]) = 2]}

(* Fault: the record goes where the writer stands.                         *)
CommitAtWriter(p) == <<Top(p).log, cache[p].chunk, cache[p].next - 1>>

(* The slot of the reservation.                                            *)
CommitPlace(p) == <<Top(p).log, Top(p).chunk, Top(p).at>>

(* The payload, with the activity in force, and the head word.             *)
Commit(p) ==
  /\ Runs(p) /\ frames[p] # <<>> /\ Top(p).pc = "commit"
  /\ memory' = [memory EXCEPT ![CommitPlace(p)] = Top(p).id]
  /\ strayed' = (strayed \/ Activity(p, Top(p).log) # Top(p).act)
  /\ Return(p, FALSE)
  /\ UNCHANGED <<state, env, root, active, detached, binds, corrs, cache,
                 cursor, calls, unbound, torn, forkDepth, joined>>

CountDrop(p) ==
  /\ Runs(p) /\ frames[p] # <<>> /\ Top(p).pc = "drop"
  /\ Return(p, TRUE)
  /\ UNCHANGED <<state, env, root, active, detached, binds, corrs, cache,
                 cursor, memory, calls, unbound, history>>

-----------------------------------------------------------------------------
Emission(p) ==
  \/ Claim(p) \/ Load(p) \/ Bump(p)
  \/ Commit(p) \/ CountDrop(p)
  \/ \E field \in Cached : Assign(p, field)

Next ==
  \/ \E p \in Processes :
       \/ \E l \in Loggers : EnterBind(p, l)
       \/ LeaveBind(p)
       \/ \E id \in ScopeIds : EnterScope(p, id)
       \/ LeaveScope(p)
       \/ Call(p)
       \/ \E id \in ScopeIds \cup {0} : Interrupt(p, id)
       \/ Emission(p)
  \/ Fork
  \/ \E propagate \in BOOLEAN : Spawn(propagate)
  \/ Create

Spec == Init /\ [][Next]_vars

-----------------------------------------------------------------------------
OpenSlots ==
  {x \in Loggers \X Chunks \X Slots :
     \E p \in Processes : \E k \in DOMAIN frames[p] :
       LET f == frames[p][k]
       IN  f.pc = "commit" /\ x = <<f.log, f.chunk, f.at>>}

(* The child emitted, or is emitting, through a Logger of its parent.      *)
Intruded ==
  \/ \E e \in ledger : e.id[1] = "child" /\ e.log \in Shared
  \/ \E k \in DOMAIN frames["child"] : frames["child"][k].log \in Shared

(* A handler that did not interrupt an update of the WriterCache costs no  *)
(* record, neither its own nor the interrupted one: every record whose     *)
(* call returned is in the segment where the reader gets to it, unless a   *)
(* reservation still open in front of it hides it.  A fork costs none      *)
(* either (reserve, commit, reserveRecord, detachForFork).                 *)
RecordsStay ==
  ~torn /\ ~Intruded =>
    \A e \in ledger : ~e.dropped =>
      \E c \in Chunks, i \in Slots :
        /\ memory[<<e.log, c, i>>] = e.id
        /\ \A j \in 1..(i - 1) :
             memory[<<e.log, c, j>>] # Zero \/ <<e.log, c, j>> \in OpenSlots

(* A forked child writes into a segment of its parent only when the fork   *)
(* happened inside nested ScopedBinds, the inner of which put the outer's  *)
(* Logger back; until it creates its own Logger its other emissions are    *)
(* counted as unbound (detachForFork, ScopedBind, enabled).                *)
ForkStaysOut ==
  /\ Intruded => forkDepth >= 2
  /\ calls["child"] = unbound["child"] + Len(frames["child"])
                      + Cardinality({e \in ledger : e.id[1] = "child"})

(* Every record carries the activity its call was made in, whatever scope  *)
(* a handler entered and left meanwhile, and the Logger of a spawned       *)
(* process starts in the activity its parent was in at the spawn: the      *)
(* innermost scope, else the one the parent inherited, with or without a   *)
(* Logger bound (emitRecord, CorrelationScope, spawn, finishCreate).       *)
ActivityIsKept ==
  /\ ~strayed
  /\ root[Own] # NotCreated => root[Own] = joined

-----------------------------------------------------------------------------
(* What the comments say and the code does not do.                         *)

(* A record a handler emitted on a warm thread, clear of the WriterCache,  *)
(* is readable when the handler lets the process die ("From a signal       *)
(* handler").                                                              *)
HandlerRecordSurvives ==
  ~torn /\ ~Intruded => \A e \in ledger :
    e.handler /\ ~e.dropped =>
      \E c \in Chunks, i \in Slots :
        /\ memory[<<e.log, c, i>>] = e.id
        /\ \A j \in 1..(i - 1) : memory[<<e.log, c, j>>] # Zero

=============================================================================
