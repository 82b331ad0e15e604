------------------------------ MODULE AbiHost -------------------------------
(***************************************************************************)
(* The host side of the plugin C ABI (abi_host.hpp): threads inside        *)
(* plugins call define_site and emit_record while the host binds and       *)
(* unbinds Loggers.  The host remembers, in one lock-free table shared by  *)
(* all plugins, into which segment the definition of a site was written.   *)
(*                                                                         *)
(* Every step on the table is one atomic operation.  All of them are       *)
(* relaxed: a load may return an older value than the last one stored.     *)
(* view[<<t, k>>] is the set of generations thread t may still load from   *)
(* slot k: its own store leaves one value, the store of another thread     *)
(* adds one.  saw[k] is the set of threads that can no longer load the     *)
(* zero key from slot k.  A compare-exchange reads the latest value.       *)
(*                                                                         *)
(* Writing a record is one step that succeeds or is a counted drop; the    *)
(* steps inside it are those of Producer.                                  *)
(***************************************************************************)
EXTENDS Naturals, FiniteSets, FiniteSetsExt

CONSTANTS
  Threads,      \* threads that run plugin code
  Loggers,      \* Loggers of the host, each with its segment's generation
  Sites,        \* plugin call sites (addresses)
  NoLogger,     \* nothing bound; the generation 0 of an unused slot
  NoSite,       \* the key 0 of an unused slot
  SlotCount,    \* cSlots
  ProbeLimit,   \* cProbeLimit
  ProbeStart,   \* [Sites -> slot the hash of the site id selects]
  UnboundCap,   \* cUnboundEmitCap
  MaxCalls      \* bound on the calls made

TableSlots == 0..(SlotCount - 1)

ASSUME TableAssumption ==
  /\ SlotCount \in Nat \ {0}
  /\ ProbeLimit \in Nat
  /\ ProbeStart \in [Sites -> TableSlots]
  /\ UnboundCap \in Nat \ {0}
  /\ MaxCalls \in Nat

(* A process runs finitely many threads and binds finitely many Loggers.   *)
ASSUME FiniteAssumption == IsFiniteSet(Threads) /\ IsFiniteSet(Loggers)

ASSUME AbsentAssumption == NoLogger \notin Loggers /\ NoSite \notin Sites

VARIABLES
  bound,      \* Logger::sActive_
  slotSite,   \* siteId_ of each slot, latest value
  view,       \* generations each thread may load from each slot
  saw,        \* threads that must load the claimed key of a slot
  pc,         \* where each thread is inside the ABI
  job,        \* the call each thread is executing
  probe,      \* loop counter of the probe each thread is in
  defs,       \* [Loggers -> sites with a SiteDefinition in the segment]
  messages,   \* [Loggers -> sites with a Message in the segment]
  started,    \* calls that found a Logger and passed its threshold
  written,    \* calls whose record was written
  dropped,    \* Stats::droppedRecords_ of each Logger
  truncated,  \* Stats::truncatedRecords_ of each Logger
  exhausted,  \* sSiteTableExhausted
  unbound,    \* sUnboundEmits
  calls       \* calls made so far (bounds the model)

tableVars == <<slotSite, view, saw, exhausted>>
segmentVars == <<defs, messages, written, truncated>>
vars == <<bound, slotSite, view, saw, pc, job, probe, defs, messages,
          started, written, dropped, truncated, exhausted, unbound, calls>>

-----------------------------------------------------------------------------

Steps == {"idle", "unbound", "define", "claim", "store", "lookup", "load",
          "message", "refuse"}

(* cut: the payload exceeds what the head word's length can say.           *)
Job == [log : Loggers \cup {NoLogger}, site : Sites \cup {NoSite},
        cut : BOOLEAN]
NoJob == [log |-> NoLogger, site |-> NoSite, cut |-> FALSE]

TypeOK ==
  /\ bound \in Loggers \cup {NoLogger}
  /\ slotSite \in [TableSlots -> Sites \cup {NoSite}]
  /\ view \in [Threads \X TableSlots -> SUBSET (Loggers \cup {NoLogger})]
  /\ saw \in [TableSlots -> SUBSET Threads]
  /\ pc \in [Threads -> Steps]
  /\ job \in [Threads -> Job]
  /\ \A t \in Threads : pc[t] \notin {"idle", "unbound"} =>
                          job[t].log \in Loggers /\ job[t].site \in Sites
  /\ probe \in [Threads -> Nat]
  /\ defs \in [Loggers -> SUBSET Sites]
  /\ messages \in [Loggers -> SUBSET Sites]
  /\ started \in [Loggers -> Nat]
  /\ written \in [Loggers -> Nat]
  /\ dropped \in [Loggers -> Nat]
  /\ truncated \in [Loggers -> Nat]
  /\ exhausted \in Nat
  /\ unbound \in Nat
  /\ calls \in Nat

Init ==
  /\ bound = NoLogger
  /\ slotSite = [k \in TableSlots |-> NoSite]
  /\ view = [p \in Threads \X TableSlots |-> {NoLogger}]
  /\ saw = [k \in TableSlots |-> {}]
  /\ pc = [t \in Threads |-> "idle"]
  /\ job = [t \in Threads |-> NoJob]
  /\ probe = [t \in Threads |-> 0]
  /\ defs = [l \in Loggers |-> {}]
  /\ messages = [l \in Loggers |-> {}]
  /\ started = [l \in Loggers |-> 0]
  /\ written = [l \in Loggers |-> 0]
  /\ dropped = [l \in Loggers |-> 0]
  /\ truncated = [l \in Loggers |-> 0]
  /\ exhausted = 0
  /\ unbound = 0
  /\ calls = 0

-----------------------------------------------------------------------------

Goto(t, step) == pc' = [pc EXCEPT ![t] = step]
Return(t) == Goto(t, "idle") /\ job' = [job EXCEPT ![t] = NoJob]

(* The slot the n-th turn of the probe loop looks at.                      *)
SlotAt(s, n) == (ProbeStart[s] + n) % SlotCount

(* The host binds a Logger, or leaves a binding.                           *)
Bind(l) ==
  /\ bound # l
  /\ bound' = l
  /\ UNCHANGED <<tableVars, pc, job, probe, segmentVars, started, dropped,
                 unbound, calls>>

(* The check of the cap in countUnboundEmit.                               *)
BelowCap == unbound < UnboundCap

(* A call begins: it captures the bound Logger and goes to `step', or finds*)
(* nothing bound.                                                          *)
Start(t, s, cut, step) ==
  /\ pc[t] = "idle"
  /\ calls < MaxCalls
  /\ calls' = calls + 1
  /\ probe' = [probe EXCEPT ![t] = 0]
  /\ \/ /\ bound = NoLogger
        /\ Goto(t, IF BelowCap THEN "unbound" ELSE "idle")
        /\ UNCHANGED <<job, started>>
     \/ /\ bound # NoLogger
        /\ Goto(t, step)
        /\ job' = [job EXCEPT ![t] = [log |-> bound, site |-> s, cut |-> cut]]
        /\ started' = [started EXCEPT ![bound] = @ + 1]
  /\ UNCHANGED <<bound, tableVars, segmentVars, dropped, unbound>>

(* The increment of countUnboundEmit, after its check of the cap.          *)
CountUnbound(t) ==
  /\ pc[t] = "unbound"
  /\ unbound' = unbound + 1
  /\ Goto(t, "idle")
  /\ UNCHANGED <<bound, tableVars, job, probe, segmentVars, started, dropped,
                 calls>>

CountDrop(t) == dropped' = [dropped EXCEPT ![job[t].log] = @ + 1]

-----------------------------------------------------------------------------
(* define_site.                                                            *)

DefineSite(t, s) == Start(t, s, FALSE, "define")

(* writeSiteDefinitionCore: the definition is in the segment, or dropped   *)
(* and then not remembered.                                                *)
WriteDefinition(t) ==
  /\ pc[t] = "define"
  /\ \/ /\ defs' = [defs EXCEPT ![job[t].log] = @ \cup {job[t].site}]
        /\ written' = [written EXCEPT ![job[t].log] = @ + 1]
        /\ Goto(t, "claim")
        /\ UNCHANGED <<dropped, job>>
     \/ /\ CountDrop(t)
        /\ Return(t)
        /\ UNCHANGED <<defs, written>>
  /\ UNCHANGED <<bound, tableVars, probe, messages, truncated, started, unbound,
                 calls>>

(* Fault: a slot that already holds the site is walked past.               *)
ClaimsEmptyOnly(t, k) == slotSite[k] = NoSite

(* The compare-exchange claims the slot or finds the site in it.           *)
Claims(t, k) == slotSite[k] \in {NoSite, job[t].site}

(* One turn of the loop of record().                                       *)
Claim(t) ==
  LET k == SlotAt(job[t].site, probe[t]) IN
  /\ pc[t] = "claim"
  /\ \/ /\ probe[t] < ProbeLimit
        /\ Claims(t, k)
        /\ slotSite' = [slotSite EXCEPT ![k] = job[t].site]
        /\ saw' = [saw EXCEPT ![k] = @ \cup {t}]
        /\ Goto(t, "store")
        /\ UNCHANGED <<exhausted, job, probe>>
     \/ /\ probe[t] < ProbeLimit
        /\ ~Claims(t, k)
        /\ saw' = [saw EXCEPT ![k] = @ \cup {t}]
        /\ probe' = [probe EXCEPT ![t] = @ + 1]
        /\ UNCHANGED <<slotSite, exhausted, pc, job>>
     \/ /\ probe[t] >= ProbeLimit
        /\ exhausted' = exhausted + 1
        /\ Return(t)
        /\ UNCHANGED <<slotSite, saw, probe>>
  /\ UNCHANGED <<bound, view, segmentVars, started, dropped, unbound, calls>>

(* The generation store of record(): the last thing define_site does.      *)
StoreGeneration(t) ==
  LET k == SlotAt(job[t].site, probe[t]) IN
  /\ pc[t] = "store"
  /\ view' = [p \in Threads \X TableSlots |->
                IF p[2] # k THEN view[p]
                ELSE IF p[1] = t THEN {job[t].log}
                ELSE view[p] \cup {job[t].log}]
  /\ Return(t)
  /\ UNCHANGED <<bound, slotSite, saw, exhausted, probe, segmentVars, started,
                 dropped, unbound, calls>>

-----------------------------------------------------------------------------
(* emit_record.                                                            *)

(* A record at or above the threshold; below it the call returns at once.  *)
Emit(t, s, cut) == Start(t, s, cut, "lookup")

(* Fault: lookups give up one slot before claims do.                       *)
LookupShort(t) == probe[t] + 1 < ProbeLimit

LookupWithin(t) == probe[t] < ProbeLimit

(* One turn of the loop of generationFor(): a thread that has not met the  *)
(* claimed key may still load zero from the slot.                          *)
Lookup(t) ==
  LET s == job[t].site
      k == SlotAt(s, probe[t])
  IN
  /\ pc[t] = "lookup"
  /\ \/ /\ LookupWithin(t) /\ slotSite[k] = s
        /\ saw' = [saw EXCEPT ![k] = @ \cup {t}]
        /\ Goto(t, "load")
        /\ UNCHANGED <<exhausted, probe>>
     \/ /\ LookupWithin(t) /\ (slotSite[k] = NoSite \/ t \notin saw[k])
        /\ Goto(t, "refuse")
        /\ UNCHANGED <<saw, exhausted, probe>>
     \/ /\ LookupWithin(t) /\ slotSite[k] \notin {NoSite, s}
        /\ saw' = [saw EXCEPT ![k] = @ \cup {t}]
        /\ probe' = [probe EXCEPT ![t] = @ + 1]
        /\ UNCHANGED <<exhausted, pc>>
     \/ /\ ~LookupWithin(t)
        /\ exhausted' = exhausted + 1
        /\ Goto(t, "refuse")
        /\ UNCHANGED <<saw, probe>>
  /\ UNCHANGED <<bound, slotSite, view, job, segmentVars, started, dropped,
                 unbound, calls>>

(* Fault: any generation but zero counts as announced.                     *)
AnnouncedAnywhere(t, g) == g # NoLogger

(* The generation loaded is that of the segment the call writes to.        *)
Announced(t, g) == g = job[t].log

LoadGeneration(t) ==
  LET k == SlotAt(job[t].site, probe[t]) IN
  /\ pc[t] = "load"
  /\ \E g \in view[<<t, k>>] :
       Goto(t, IF Announced(t, g) THEN "message" ELSE "refuse")
  /\ UNCHANGED <<bound, tableVars, job, probe, segmentVars, started, dropped,
                 unbound, calls>>

(* Fault: a refused record is not counted.                                 *)
RefuseSilently(t) ==
  /\ pc[t] = "refuse"
  /\ Return(t)
  /\ UNCHANGED <<bound, tableVars, probe, segmentVars, started, unbound, calls,
                 dropped>>

(* A Message the segment was not told how to decode is a counted drop.     *)
Refuse(t) ==
  /\ pc[t] = "refuse"
  /\ CountDrop(t)
  /\ Return(t)
  /\ UNCHANGED <<bound, tableVars, probe, segmentVars, started, unbound, calls>>

(* reserveRecord and commit: the Message is in the segment, or dropped.    *)
WriteMessage(t) ==
  /\ pc[t] = "message"
  /\ \/ /\ messages' = [messages EXCEPT ![job[t].log] = @ \cup {job[t].site}]
        /\ written' = [written EXCEPT ![job[t].log] = @ + 1]
        /\ truncated' = [truncated EXCEPT ![job[t].log] =
                           IF job[t].cut THEN @ + 1 ELSE @]
        /\ UNCHANGED dropped
     \/ /\ CountDrop(t)
        /\ UNCHANGED <<messages, written, truncated>>
  /\ Return(t)
  /\ UNCHANGED <<bound, tableVars, probe, defs, started, unbound, calls>>

-----------------------------------------------------------------------------

Call(t) ==
  \E s \in Sites :
    DefineSite(t, s) \/ \E cut \in BOOLEAN : Emit(t, s, cut)

(* Nothing in the ABI blocks or waits for another thread.                  *)
Advance(t) ==
  \/ CountUnbound(t)
  \/ WriteDefinition(t)
  \/ Claim(t)
  \/ StoreGeneration(t)
  \/ Lookup(t)
  \/ LoadGeneration(t)
  \/ Refuse(t)
  \/ WriteMessage(t)

Next ==
  \/ \E l \in Loggers \cup {NoLogger} : Bind(l)
  \/ \E t \in Threads : Call(t) \/ Advance(t)

Spec == Init /\ [][Next]_vars

-----------------------------------------------------------------------------
(* What has to hold.                                                       *)

(* A plugin's Message is written only into a segment that holds the        *)
(* definition of its site, whatever the host binds meanwhile and however   *)
(* stale the table reads are (abi_host.hpp, emit: R4.3).                   *)
MessageIsDecodable ==
  \A l \in Loggers : messages[l] \subseteq defs[l]

(* Two threads defining the same site never give it two slots: the second  *)
(* generation would be stored where no lookup finds it (record).           *)
OneSlotPerSite ==
  \A j, k \in TableSlots :
    slotSite[j] # NoSite /\ slotSite[j] = slotSite[k] => j = k

(* A thread whose own define_site recorded the site for this segment, with *)
(* no later store by another thread, is not refused: lookups and claims    *)
(* walk the same slots up to the same bound (generationFor, record).       *)
OwnDefinitionAccepted ==
  \A t \in Threads, k \in TableSlots :
    pc[t] = "refuse" =>
      ~(slotSite[k] = job[t].site /\ t \in saw[k] /\ view[<<t, k>>] = {job[t].log})

(* Every call that found a Logger is one written record, one counted drop  *)
(* or still running (R9.1); a call that found none is counted, or the      *)
(* count has reached its cap, which it passes by less than the number of   *)
(* threads (countUnboundEmit).                                             *)
CallsAddUp ==
  /\ \A l \in Loggers :
       started[l] = written[l] + dropped[l]
                    + Cardinality({t \in Threads : job[t].log = l /\
                                     pc[t] \notin {"claim", "store"}})
  /\ LET found == MapThenSumSet(LAMBDA l : started[l], Loggers)
         counting == Cardinality({t \in Threads : pc[t] = "unbound"})
     IN  /\ unbound + counting \in
              {calls - found} \cup UnboundCap..(calls - found)
         /\ unbound < UnboundCap + Cardinality(Threads)

=============================================================================
