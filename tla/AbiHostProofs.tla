--------------------------- MODULE AbiHostProofs ----------------------------
(***************************************************************************)
(* Theorems about the plugin ABI host, for any number of threads, Loggers  *)
(* and sites, any table size, probe bound and hash.                        *)
(***************************************************************************)
EXTENDS AbiHostInv, CollectionLemmas, TLAPS

(* A probe never leaves the table.                                         *)
LEMMA SlotAtType ==
  ASSUME NEW s \in Sites, NEW n \in Nat
  PROVE  SlotAt(s, n) \in TableSlots
<1>1. PICK b \in TableSlots : b = ProbeStart[s]
  BY TableAssumption
<1>2. b + n \in Nat /\ SlotCount \in Nat \ {0}
  BY TableAssumption DEF TableSlots
<1>3. (b + n) % SlotCount \in 0..(SlotCount - 1)
  BY <1>2
<1> QED
  BY <1>1, <1>3 DEF SlotAt, TableSlots

LEMMA NoJobType == NoJob \in Job
BY DEF NoJob, Job

(* A thread past the start of a call has a Logger and a site.              *)
LEMMA BusyJob ==
  ASSUME TypeOK, NEW t \in Threads, pc[t] \notin {"idle", "unbound"}
  PROVE  /\ job[t] \in Job
         /\ job[t].log \in Loggers
         /\ job[t].site \in Sites
         /\ probe[t] \in Nat
         /\ SlotAt(job[t].site, probe[t]) \in TableSlots
<1>1. /\ job[t] \in Job
      /\ job[t].log \in Loggers /\ job[t].site \in Sites
      /\ probe[t] \in Nat
  BY DEF TypeOK
<1> QED
  BY <1>1, SlotAtType

(* The part of the type invariant that speaks of control.                  *)
ControlOK ==
  /\ pc \in [Threads -> Steps]
  /\ job \in [Threads -> Job]
  /\ \A t \in Threads : pc[t] \notin {"idle", "unbound"} =>
                          job[t].log \in Loggers /\ job[t].site \in Sites

LEMMA ReturnType ==
  ASSUME TypeOK, NEW t \in Threads, Return(t)
  PROVE  ControlOK'
BY NoJobType DEF TypeOK, Return, Goto, ControlOK, Steps

LEMMA GotoType ==
  ASSUME TypeOK, NEW t \in Threads, NEW step \in Steps, Goto(t, step),
         UNCHANGED job, pc[t] \notin {"idle", "unbound"}
  PROVE  ControlOK'
BY DEF TypeOK, Goto, ControlOK

(* Counting a drop.                                                        *)
LEMMA DropType ==
  ASSUME TypeOK, NEW t \in Threads, pc[t] \notin {"idle", "unbound"},
         CountDrop(t)
  PROVE  dropped' \in [Loggers -> Nat]
<1>1. PICK l \in Loggers : l = job[t].log
  BY BusyJob
<1>2. dropped' = [dropped EXCEPT ![l] = @ + 1]
  BY <1>1 DEF CountDrop
<1> QED
  BY <1>2 DEF TypeOK

LEMMA TypeStep == TypeOK /\ [Next]_vars => TypeOK'
<1> SUFFICES ASSUME TypeOK, [Next]_vars
             PROVE  TypeOK'
  OBVIOUS
<1>0. CASE UNCHANGED vars
  BY <1>0 DEF TypeOK, vars
<1>1. ASSUME NEW l \in Loggers \cup {NoLogger}, Bind(l)
      PROVE  TypeOK'
  BY <1>1 DEF Bind, TypeOK, tableVars, segmentVars
<1>2. ASSUME NEW t \in Threads, NEW s \in Sites, NEW c \in BOOLEAN,
             NEW step \in {"define", "lookup"}, Start(t, s, c, step)
      PROVE  TypeOK'
  <2>1. CASE bound = NoLogger
    BY <1>2, <2>1 DEF Start, BelowCap, TypeOK, tableVars, segmentVars, Goto,
                      Steps
  <2>2. CASE bound # NoLogger
    <3>1. bound \in Loggers
      BY <2>2 DEF TypeOK
    <3>2. PICK r \in Job : r = [log |-> bound, site |-> s, cut |-> c]
      BY <3>1 DEF Job
    <3>3. /\ job' = [job EXCEPT ![t] = r]
          /\ r.log \in Loggers /\ r.site \in Sites
          /\ pc' = [pc EXCEPT ![t] = step]
          /\ started' = [started EXCEPT ![bound] = @ + 1]
          /\ probe' = [probe EXCEPT ![t] = 0]
          /\ calls' = calls + 1
          /\ UNCHANGED <<bound, tableVars, segmentVars, dropped, unbound>>
      BY <1>2, <2>2, <3>1, <3>2 DEF Start, Goto
    <3> QED
      BY <3>1, <3>3 DEF TypeOK, tableVars, segmentVars, Steps
  <2> QED
    BY <2>1, <2>2
<1>3. ASSUME NEW t \in Threads, CountUnbound(t)
      PROVE  TypeOK'
  BY <1>3 DEF CountUnbound, TypeOK, tableVars, segmentVars, Goto, Steps
<1>4. ASSUME NEW t \in Threads, WriteDefinition(t)
      PROVE  TypeOK'
  <2>0. pc[t] = "define"
    BY <1>4 DEF WriteDefinition
  <2>1. PICK l \in Loggers, s \in Sites : l = job[t].log /\ s = job[t].site
    BY <2>0, BusyJob
  <2>2. CASE Return(t) /\ CountDrop(t) /\ UNCHANGED <<defs, written>>
    BY <1>4, <2>0, <2>2, ReturnType, DropType
       DEF WriteDefinition, TypeOK, ControlOK, tableVars
  <2>3. CASE /\ defs' = [defs EXCEPT ![l] = @ \cup {s}]
             /\ written' = [written EXCEPT ![l] = @ + 1]
             /\ Goto(t, "claim")
             /\ UNCHANGED <<dropped, job>>
    <3>1. ControlOK'
      BY <2>0, <2>3, GotoType DEF Steps
    <3> QED
      BY <1>4, <2>3, <3>1 DEF WriteDefinition, TypeOK, ControlOK, tableVars
  <2> QED
    BY <1>4, <2>1, <2>2, <2>3 DEF WriteDefinition
<1>5. ASSUME NEW t \in Threads, Claim(t)
      PROVE  TypeOK'
  <2>0. pc[t] = "claim"
    BY <1>5 DEF Claim
  <2>1. PICK k \in TableSlots, s \in Sites :
          s = job[t].site /\ k = SlotAt(s, probe[t])
    BY <2>0, BusyJob
  <2>2. ControlOK'
    BY <1>5, <2>0, ReturnType, GotoType DEF Claim, Steps, ControlOK, TypeOK
  <2>3. slotSite' \in [TableSlots -> Sites \cup {NoSite}]
    BY <1>5, <2>1 DEF Claim, TypeOK
  <2>4. saw' \in [TableSlots -> SUBSET Threads]
    BY <1>5, <2>1 DEF Claim, TypeOK
  <2>5. probe' \in [Threads -> Nat] /\ exhausted' \in Nat
    BY <1>5 DEF Claim, TypeOK
  <2> QED
    BY <1>5, <2>2, <2>3, <2>4, <2>5 DEF Claim, TypeOK, ControlOK, segmentVars
<1>6. ASSUME NEW t \in Threads, StoreGeneration(t)
      PROVE  TypeOK'
  BY <1>6, BusyJob, NoJobType
     DEF StoreGeneration, Return, Goto, TypeOK, segmentVars, Steps
<1>7. ASSUME NEW t \in Threads, Lookup(t)
      PROVE  TypeOK'
  <2>0. pc[t] = "lookup"
    BY <1>7 DEF Lookup
  <2>1. PICK k \in TableSlots : k = SlotAt(job[t].site, probe[t])
    BY <2>0, BusyJob
  <2>2. ControlOK'
    <3>1. CASE UNCHANGED pc
      BY <1>7, <3>1 DEF Lookup, ControlOK, TypeOK
    <3>2. ASSUME NEW step \in {"load", "refuse"}, Goto(t, step)
          PROVE  ControlOK'
      BY <1>7, <2>0, <3>2, GotoType DEF Lookup, Steps
    <3> QED
      BY <1>7, <3>1, <3>2 DEF Lookup
  <2>3. saw' \in [TableSlots -> SUBSET Threads]
    BY <1>7, <2>1 DEF Lookup, TypeOK
  <2>4. probe' \in [Threads -> Nat] /\ exhausted' \in Nat
    BY <1>7 DEF Lookup, LookupWithin, TypeOK
  <2> QED
    BY <1>7, <2>2, <2>3, <2>4 DEF Lookup, TypeOK, ControlOK, segmentVars
<1>8. ASSUME NEW t \in Threads, LoadGeneration(t)
      PROVE  TypeOK'
  BY <1>8, BusyJob DEF LoadGeneration, Goto, TypeOK, tableVars, segmentVars, Steps
<1>9. ASSUME NEW t \in Threads, Refuse(t)
      PROVE  TypeOK'
  BY <1>9, ReturnType, DropType
     DEF Refuse, TypeOK, ControlOK, tableVars, segmentVars
<1>10. ASSUME NEW t \in Threads, WriteMessage(t)
       PROVE  TypeOK'
  <2>0. pc[t] = "message" /\ ControlOK'
    BY <1>10, ReturnType DEF WriteMessage
  <2>1. PICK l \in Loggers, s \in Sites : l = job[t].log /\ s = job[t].site
    BY <2>0, BusyJob
  <2>2. CASE CountDrop(t) /\ UNCHANGED <<messages, written, truncated>>
    BY <1>10, <2>0, <2>2, DropType
       DEF WriteMessage, TypeOK, ControlOK, tableVars
  <2>3. CASE /\ messages' = [messages EXCEPT ![l] = @ \cup {s}]
             /\ written' = [written EXCEPT ![l] = @ + 1]
             /\ truncated' = [truncated EXCEPT ![l] =
                                IF job[t].cut THEN @ + 1 ELSE @]
             /\ UNCHANGED dropped
    BY <1>10, <2>0, <2>3 DEF WriteMessage, TypeOK, ControlOK, tableVars
  <2> QED
    BY <1>10, <2>1, <2>2, <2>3 DEF WriteMessage
<1> QED
  BY <1>0, <1>1, <1>2, <1>3, <1>4, <1>5, <1>6, <1>7, <1>8, <1>9, <1>10
     DEF Next, Call, DefineSite, Emit, Advance

(* A claimed key never changes.                                            *)
LEMMA KeysStable ==
  ASSUME TypeOK, [Next]_vars, NEW k \in TableSlots, slotSite[k] # NoSite
  PROVE  slotSite'[k] = slotSite[k]
<1>1. CASE UNCHANGED slotSite
  BY <1>1
<1>2. ASSUME NEW t \in Threads, Claim(t)
      PROVE  slotSite'[k] = slotSite[k]
  <2>1. PICK c \in TableSlots : c = SlotAt(job[t].site, probe[t])
    BY <1>2, BusyJob DEF Claim
  <2>2. \/ UNCHANGED slotSite
        \/ /\ slotSite[c] \in {NoSite, job[t].site}
           /\ slotSite' = [slotSite EXCEPT ![c] = job[t].site]
    BY <1>2, <2>1 DEF Claim, Claims
  <2> QED
    BY <2>2 DEF TypeOK
<1> QED
  BY <1>1, <1>2
     DEF Next, Call, DefineSite, Emit, Advance, vars, Bind, Start, CountUnbound,
         WriteDefinition, StoreGeneration, Lookup, LoadGeneration, Refuse,
         WriteMessage, tableVars

LEMMA PassedStable ==
  ASSUME TypeOK, [Next]_vars, NEW s \in Sites, NEW n \in Nat, Passed(s, n)
  PROVE  Passed(s, n)'
<1> SUFFICES ASSUME NEW j \in 0..(n - 1)
             PROVE  slotSite'[SlotAt(s, j)] \notin {NoSite, s}
  BY DEF Passed, SlotAt
<1>1. SlotAt(s, j) \in TableSlots
  BY SlotAtType
<1>2. slotSite[SlotAt(s, j)] \notin {NoSite, s}
  BY DEF Passed
<1> QED
  BY <1>1, <1>2, KeysStable

(* What a thread has seen and what a segment holds only grows.             *)
LEMMA OnlyGrows ==
  ASSUME TypeOK, [Next]_vars
  PROVE  /\ \A k \in TableSlots : saw[k] \subseteq saw'[k]
         /\ \A l \in Loggers : defs[l] \subseteq defs'[l]
<1>1. \A k \in TableSlots : saw[k] \subseteq saw'[k]
  <2>1. CASE UNCHANGED saw
    BY <2>1
  <2>2. ASSUME NEW t \in Threads, Claim(t) \/ Lookup(t)
        PROVE  \A k \in TableSlots : saw[k] \subseteq saw'[k]
    <3>1. PICK c \in TableSlots : c = SlotAt(job[t].site, probe[t])
      BY <2>2, BusyJob DEF Claim, Lookup
    <3>2. UNCHANGED saw \/ saw' = [saw EXCEPT ![c] = @ \cup {t}]
      BY <2>2, <3>1 DEF Claim, Lookup
    <3> QED
      BY <3>2 DEF TypeOK
  <2> QED
    BY <2>1, <2>2
       DEF Next, Call, DefineSite, Emit, Advance, vars, Bind, Start,
           CountUnbound, WriteDefinition, StoreGeneration, LoadGeneration,
           Refuse, WriteMessage, tableVars
<1>2. \A l \in Loggers : defs[l] \subseteq defs'[l]
  <2>1. CASE UNCHANGED defs
    BY <2>1
  <2>2. ASSUME NEW t \in Threads, WriteDefinition(t)
        PROVE  \A l \in Loggers : defs[l] \subseteq defs'[l]
    BY <2>2 DEF WriteDefinition, TypeOK
  <2> QED
    BY <2>1, <2>2
       DEF Next, Call, DefineSite, Emit, Advance, vars, Bind, Start,
           CountUnbound, Claim, StoreGeneration, Lookup, LoadGeneration,
           Refuse, WriteMessage, segmentVars
<1> QED
  BY <1>1, <1>2

LEMMA KeysReachableStep ==
  ASSUME TableInv, [Next]_vars
  PROVE  KeysReachable'
<1> SUFFICES ASSUME NEW k \in TableSlots, slotSite'[k] # NoSite
             PROVE  \E n \in 0..(ProbeLimit - 1) :
                      k = SlotAt(slotSite'[k], n) /\ Passed(slotSite[k], n)'
  BY DEF KeysReachable, SlotAt
<1> USE TableAssumption
<1>1. CASE slotSite[k] # NoSite
  <2>1. PICK s \in Sites : s = slotSite[k]
    BY <1>1 DEF TableInv, TypeOK
  <2>2. s = slotSite'[k]
    BY <1>1, <2>1, KeysStable DEF TableInv
  <2>3. PICK n \in 0..(ProbeLimit - 1) : k = SlotAt(s, n) /\ Passed(s, n)
    BY <1>1, <2>1 DEF TableInv, KeysReachable
  <2>4. Passed(s, n)'
    BY <2>3, PassedStable DEF TableInv
  <2> QED
    BY <2>2, <2>3, <2>4 DEF Passed, SlotAt
<1>2. CASE slotSite[k] = NoSite
  <2>1. PICK t \in Threads : Claim(t)
    BY <1>2
       DEF Next, Call, DefineSite, Emit, Advance, vars, Bind, Start,
           CountUnbound, WriteDefinition, StoreGeneration, Lookup,
           LoadGeneration, Refuse, WriteMessage, tableVars
  <2>2. PICK s \in Sites, n \in Nat :
          /\ s = job[t].site /\ n = probe[t] /\ SlotAt(s, n) \in TableSlots
    BY <2>1, BusyJob DEF TableInv, Claim
  <2>3. /\ n < ProbeLimit
        /\ slotSite' = [slotSite EXCEPT ![SlotAt(s, n)] = s]
    BY <1>2, <2>1, <2>2 DEF Claim
  <2>4. k = SlotAt(s, n) /\ slotSite'[k] = s
    BY <1>2, <2>2, <2>3 DEF TableInv, TypeOK
  <2>5. Passed(s, n)
    BY <2>1, <2>2 DEF TableInv, WalksInv, Claim
  <2>6. Passed(s, n)'
    BY <2>5, PassedStable DEF TableInv
  <2>7. n \in 0..(ProbeLimit - 1)
    BY <2>3
  <2> QED
    BY <2>4, <2>6, <2>7 DEF Passed, SlotAt
<1> QED
  BY <1>1, <1>2

(* A thread that does not act stays where it is.                           *)
Rests(t) == pc'[t] = pc[t] /\ job'[t] = job[t] /\ probe'[t] = probe[t]

LEMMA OthersRest ==
  ASSUME TypeOK, NEW t \in Threads, Call(t) \/ Advance(t),
         NEW u \in Threads, u # t
  PROVE  Rests(u)
BY DEF TypeOK, Rests, Call, DefineSite, Emit, Start, Advance, CountUnbound,
       WriteDefinition, Claim, StoreGeneration, Lookup, LoadGeneration,
       Refuse, WriteMessage, Goto, Return

(* WalksInv and SeenInv, of one thread.                                    *)
WalkOK(t) ==
  /\ pc[t] \in {"define", "claim", "store", "lookup", "load"} =>
       Passed(job[t].site, probe[t])
  /\ pc[t] \in {"store", "load"} =>
       /\ probe[t] < ProbeLimit
       /\ slotSite[SlotAt(job[t].site, probe[t])] = job[t].site
       /\ t \in saw[SlotAt(job[t].site, probe[t])]
  /\ pc[t] \in {"define", "claim", "store"} =>
       \A j \in 0..(probe[t] - 1) : t \in saw[SlotAt(job[t].site, j)]

LEMMA RestingWalk ==
  ASSUME TableInv, [Next]_vars, NEW u \in Threads, Rests(u)
  PROVE  WalkOK(u)'
<1>1. CASE pc[u] \in {"define", "claim", "store", "lookup", "load"}
  <2>1. PICK s \in Sites, n \in Nat :
          s = job[u].site /\ n = probe[u] /\ SlotAt(s, n) \in TableSlots
    BY <1>1, BusyJob DEF TableInv
  <2>2. Passed(s, n)'
    BY <1>1, <2>1, PassedStable DEF TableInv, WalksInv
  <2>3. \A j \in 0..(n - 1) : SlotAt(s, j) \in TableSlots
    BY SlotAtType
  <2>4. pc[u] \in {"define", "claim", "store"} =>
          \A j \in 0..(n - 1) : u \in saw'[SlotAt(s, j)]
    BY <2>1, <2>3, OnlyGrows DEF TableInv, SeenInv
  <2>5. pc[u] \in {"store", "load"} =>
          /\ n < ProbeLimit
          /\ slotSite'[SlotAt(s, n)] = s
          /\ u \in saw'[SlotAt(s, n)]
    <3> SUFFICES ASSUME pc[u] \in {"store", "load"}
                 PROVE  /\ n < ProbeLimit
                        /\ slotSite'[SlotAt(s, n)] = s
                        /\ u \in saw'[SlotAt(s, n)]
      OBVIOUS
    <3>1. /\ n < ProbeLimit
          /\ slotSite[SlotAt(s, n)] = s
          /\ u \in saw[SlotAt(s, n)]
      BY <2>1 DEF TableInv, WalksInv
    <3>2. s # NoSite
      BY AbsentAssumption
    <3> QED
      BY <2>1, <3>1, <3>2, KeysStable, OnlyGrows DEF TableInv
  <2>6. /\ pc'[u] = pc[u]
        /\ job'[u].site = s
        /\ probe'[u] = n
    BY <2>1 DEF Rests
  <2> QED
    BY <2>2, <2>4, <2>5, <2>6 DEF WalkOK, Passed, SlotAt
<1>2. CASE pc[u] \notin {"define", "claim", "store", "lookup", "load"}
  BY <1>2 DEF Rests, WalkOK
<1> QED
  BY <1>1, <1>2

LEMMA ActingWalk ==
  ASSUME TableInv, [Next]_vars, NEW t \in Threads, Call(t) \/ Advance(t)
  PROVE  WalkOK(t)'
<1> USE TableAssumption
<1>1. CASE pc'[t] \notin {"define", "claim", "store", "lookup", "load"}
  BY <1>1 DEF WalkOK
<1>2. ASSUME NEW s \in Sites, NEW c \in BOOLEAN,
             NEW step \in {"define", "lookup"}, Start(t, s, c, step)
      PROVE  WalkOK(t)'
  <2>1. probe'[t] = 0 /\ pc'[t] \in {"unbound", "idle", "define", "lookup"}
    BY <1>2 DEF Start, TableInv, TypeOK, Goto
  <2>2. 0..(probe'[t] - 1) = {}
    BY <2>1
  <2> QED
    BY <2>1, <2>2 DEF WalkOK, Passed
<1>3. ASSUME Advance(t), pc[t] \in {"define", "claim", "lookup"},
             pc'[t] \in {"claim", "store", "lookup", "load"}
      PROVE  WalkOK(t)'
  <2>1. PICK s \in Sites, n \in Nat, k \in TableSlots :
          s = job[t].site /\ n = probe[t] /\ k = SlotAt(s, n)
    BY <1>3, BusyJob DEF TableInv
  <2>2. Passed(s, n)'
    BY <1>3, <2>1, PassedStable DEF TableInv, WalksInv
  <2>3. pc[t] \in {"define", "claim"} =>
          \A j \in 0..(n - 1) : t \in saw'[SlotAt(s, j)]
    <3>1. \A j \in 0..(n - 1) : SlotAt(s, j) \in TableSlots
      BY SlotAtType
    <3> QED
      BY <2>1, <3>1, OnlyGrows DEF TableInv, SeenInv
  <2>4. CASE WriteDefinition(t)
    <3>1. pc[t] = "define" /\ job'[t].site = s /\ probe'[t] = n /\ pc'[t] = "claim"
      BY <1>3, <2>1, <2>4
         DEF WriteDefinition, Goto, Return, TableInv, TypeOK
    <3> QED
      BY <2>2, <2>3, <3>1 DEF WalkOK, Passed, SlotAt
  <2>5. CASE Claim(t)
    <3>0. pc[t] = "claim" /\ job'[t].site = s
      BY <1>3, <2>1, <2>5 DEF Claim, Goto, Return, TableInv, TypeOK
    <3>1. t \in saw'[k]
      BY <1>3, <2>1, <2>5 DEF Claim, Goto, Return, TableInv, TypeOK
    <3>2. CASE n < ProbeLimit /\ Claims(t, k)
      <4>1. pc'[t] = "store" /\ probe'[t] = n /\ slotSite'[k] = s
        BY <2>1, <2>5, <3>2 DEF Claim, Goto, TableInv, TypeOK
      <4> QED
        BY <2>1, <2>2, <2>3, <3>0, <3>1, <3>2, <4>1 DEF WalkOK, Passed, SlotAt
    <3>3. CASE n < ProbeLimit /\ ~Claims(t, k)
      <4>1. /\ pc'[t] = "claim" /\ probe'[t] = n + 1
            /\ slotSite'[k] \notin {NoSite, s}
        BY <2>1, <2>5, <3>0, <3>3 DEF Claim, Claims, TableInv, TypeOK
      <4>2. Passed(s, n + 1)'
        BY <2>1, <2>2, <4>1 DEF Passed, SlotAt
      <4>3. \A j \in 0..n : t \in saw'[SlotAt(s, j)]
        BY <2>1, <2>3, <3>0, <3>1
      <4>4. (n + 1) - 1 = n
        OBVIOUS
      <4> QED
        BY <3>0, <4>1, <4>2, <4>3, <4>4 DEF WalkOK, Passed, SlotAt
    <3>4. n < ProbeLimit
      BY <1>3, <2>1, <2>5, <3>0 DEF Claim, Return, Goto, TableInv, TypeOK
    <3> QED
      BY <3>2, <3>3, <3>4
  <2>6. CASE Lookup(t)
    <3>0. pc[t] = "lookup" /\ job'[t].site = s
      BY <2>1, <2>6 DEF Lookup
    <3>1. CASE pc'[t] = "load"
      <4>1. /\ LookupWithin(t) /\ slotSite[k] = s
            /\ saw' = [saw EXCEPT ![k] = @ \cup {t}]
            /\ UNCHANGED <<probe, slotSite>>
        BY <2>1, <2>6, <3>0, <3>1 DEF Lookup, Goto, TableInv, TypeOK
      <4>2. t \in saw'[k]
        BY <4>1 DEF TableInv, TypeOK
      <4> QED
        BY <2>1, <2>2, <3>0, <3>1, <4>1, <4>2
           DEF WalkOK, Passed, SlotAt, LookupWithin
    <3>2. CASE pc'[t] = "lookup"
      <4>1. /\ probe' = [probe EXCEPT ![t] = @ + 1]
            /\ slotSite[k] \notin {NoSite, s}
            /\ UNCHANGED slotSite
        BY <2>1, <2>6, <3>0, <3>2 DEF Lookup, Goto, TableInv, TypeOK
      <4>2. probe'[t] = n + 1
        BY <2>1, <4>1 DEF TableInv, TypeOK
      <4>3. Passed(s, n + 1)'
        BY <2>1, <2>2, <4>1 DEF Passed, SlotAt
      <4> QED
        BY <3>0, <3>2, <4>2, <4>3 DEF WalkOK, Passed, SlotAt
    <3>3. pc'[t] \in {"load", "lookup"}
      BY <1>3, <2>6, <3>0 DEF Lookup, Goto, TableInv, TypeOK
    <3> QED
      BY <3>1, <3>2, <3>3
  <2> QED
    BY <1>3, <2>4, <2>5, <2>6
       DEF Advance, CountUnbound, StoreGeneration, LoadGeneration, Refuse,
           WriteMessage
<1>4. ASSUME Advance(t), pc[t] \notin {"define", "claim", "lookup"}
      PROVE  pc'[t] \in {"idle", "message", "refuse"}
  BY <1>4
     DEF Advance, CountUnbound, WriteDefinition, Claim, StoreGeneration, Lookup,
         LoadGeneration, Refuse, WriteMessage, Return, Goto, TableInv, TypeOK
<1>5. ASSUME Advance(t)
      PROVE  pc'[t] # "define"
  BY <1>5
     DEF Advance, CountUnbound, WriteDefinition, Claim, StoreGeneration, Lookup,
         LoadGeneration, Refuse, WriteMessage, Return, Goto, TableInv, TypeOK
<1>6. CASE Call(t)
  BY <1>2, <1>6 DEF Call, DefineSite, Emit
<1>7. CASE Advance(t)
  BY <1>1, <1>3, <1>4, <1>5, <1>7
<1> QED
  BY <1>6, <1>7

LEMMA WalksStep ==
  ASSUME TableInv, [Next]_vars
  PROVE  WalksInv' /\ SeenInv'
<1>1. ASSUME NEW u \in Threads
      PROVE  WalkOK(u)'
  <2>1. CASE Rests(u)
    BY <2>1, RestingWalk
  <2>2. ASSUME NEW t \in Threads, Call(t) \/ Advance(t)
        PROVE  WalkOK(u)'
    BY <2>1, <2>2, ActingWalk, OthersRest DEF TableInv
  <2>3. CASE UNCHANGED vars \/ \E l \in Loggers \cup {NoLogger} : Bind(l)
    BY <2>1, <2>3 DEF vars, Bind, Rests
  <2> QED
    BY <2>2, <2>3 DEF Next
<1> QED
  BY <1>1 DEF WalkOK, WalksInv, SeenInv

(* Only the generation store changes what threads may load.                *)
LEMMA ViewsChange ==
  ASSUME [Next]_vars, view' # view
  PROVE  \E t \in Threads : StoreGeneration(t)
BY DEF Next, Call, DefineSite, Emit, Advance, vars, Bind, Start, CountUnbound,
       WriteDefinition, Claim, Lookup, LoadGeneration, Refuse, WriteMessage,
       tableVars

(* A storing thread knows its slot and the definition it stands for.       *)
Stores(t, s, n, l, k) ==
  /\ k = SlotAt(s, n)
  /\ slotSite[k] = s /\ s # NoSite /\ s \in defs[l]
  /\ Passed(s, n)
  /\ \A j \in 0..n : t \in saw[SlotAt(s, j)]
  /\ \A u \in Threads, h \in TableSlots :
       view'[<<u, h>>] = IF h # k THEN view[<<u, h>>]
                         ELSE IF u = t THEN {l}
                         ELSE view[<<u, h>>] \cup {l}

LEMMA StoreFacts ==
  ASSUME TableInv, NEW t \in Threads, StoreGeneration(t)
  PROVE  \E s \in Sites, n \in 0..(ProbeLimit - 1), l \in Loggers,
            k \in TableSlots : Stores(t, s, n, l, k)
<1> USE TableAssumption
<1>0. pc[t] = "store"
  BY DEF StoreGeneration
<1>1. PICK s \in Sites, n \in Nat, l \in Loggers, k \in TableSlots :
        /\ s = job[t].site /\ n = probe[t] /\ l = job[t].log
        /\ k = SlotAt(s, n)
  BY <1>0, BusyJob DEF TableInv
<1>2. /\ n < ProbeLimit /\ slotSite[k] = s /\ Passed(s, n) /\ t \in saw[k]
      /\ s \in defs[l]
  BY <1>0, <1>1 DEF TableInv, WalksInv, CallsInv
<1>3. \A j \in 0..(n - 1) : t \in saw[SlotAt(s, j)]
  BY <1>0, <1>1 DEF TableInv, SeenInv
<1>4. \A j \in 0..n : t \in saw[SlotAt(s, j)]
  BY <1>1, <1>2, <1>3
<1>5. view' = [p \in Threads \X TableSlots |->
                 IF p[2] # k THEN view[p]
                 ELSE IF p[1] = t THEN {l} ELSE view[p] \cup {l}]
  BY <1>1 DEF StoreGeneration
<1>6. \A u \in Threads, h \in TableSlots :
        view'[<<u, h>>] = IF h # k THEN view[<<u, h>>]
                          ELSE IF u = t THEN {l} ELSE view[<<u, h>>] \cup {l}
  BY <1>5
<1>7. n \in 0..(ProbeLimit - 1) /\ s # NoSite
  BY <1>2, AbsentAssumption
<1>8. Stores(t, s, n, l, k)
  BY <1>1, <1>2, <1>4, <1>6, <1>7 DEF Stores
<1> QED
  BY <1>7, <1>8

LEMMA GenerationsStep ==
  ASSUME TableInv, [Next]_vars
  PROVE  GenerationsInv'
<1> SUFFICES ASSUME NEW u \in Threads, NEW h \in TableSlots, NEW g \in Loggers,
                    g \in view'[<<u, h>>]
             PROVE  slotSite'[h] \in defs'[g]
  BY DEF GenerationsInv
<1>1. CASE slotSite[h] \in defs[g]
  <2>1. slotSite[h] # NoSite
    BY <1>1, AbsentAssumption DEF TableInv, TypeOK
  <2> QED
    BY <1>1, <2>1, KeysStable, OnlyGrows DEF TableInv
<1>2. CASE g \in view[<<u, h>>]
  BY <1>1, <1>2 DEF TableInv, GenerationsInv
<1>3. CASE g \notin view[<<u, h>>]
  <2>1. PICK t \in Threads : StoreGeneration(t)
    BY <1>3, ViewsChange
  <2>2. PICK s \in Sites, n \in 0..(ProbeLimit - 1), l \in Loggers,
             k \in TableSlots : Stores(t, s, n, l, k)
    BY <2>1, StoreFacts
  <2>3. slotSite[h] \in defs[g]
    BY <1>3, <2>2 DEF Stores
  <2> QED
    BY <1>1, <2>3
<1> QED
  BY <1>2, <1>3

LEMMA CallsStep ==
  ASSUME TableInv, [Next]_vars
  PROVE  CallsInv'
<1> SUFFICES ASSUME NEW u \in Threads, pc'[u] \in {"claim", "store", "message"}
             PROVE  job'[u].site \in defs'[job'[u].log]
  BY DEF CallsInv
<1>1. CASE /\ job'[u] = job[u] /\ job[u].log \in Loggers
           /\ job[u].site \in defs[job[u].log]
  BY <1>1, OnlyGrows DEF TableInv
<1>2. CASE Rests(u)
  <2>1. job[u].log \in Loggers
    BY <1>2, BusyJob DEF Rests, TableInv
  <2> QED
    BY <1>1, <1>2, <2>1 DEF Rests, TableInv, CallsInv
<1>3. CASE Call(u)
  BY <1>3 DEF Call, DefineSite, Emit, Start, Goto, TableInv, TypeOK
<1>4. CASE WriteDefinition(u)
  <2>1. PICK s \in Sites, l \in Loggers : s = job[u].site /\ l = job[u].log
    BY <1>4, BusyJob DEF WriteDefinition, TableInv
  <2>2. defs' = [defs EXCEPT ![l] = @ \cup {s}] /\ job'[u] = job[u]
    BY <1>4, <2>1 DEF WriteDefinition, Return, Goto, TableInv, TypeOK
  <2> QED
    BY <2>1, <2>2 DEF TableInv, TypeOK
<1>5. CASE Claim(u)
  <2>1. pc[u] = "claim" /\ job'[u] = job[u]
    BY <1>5 DEF Claim, Return, Goto, TableInv, TypeOK
  <2>2. job[u].log \in Loggers
    BY <2>1, BusyJob DEF TableInv
  <2> QED
    BY <1>1, <2>1, <2>2 DEF TableInv, CallsInv
<1>6. CASE LoadGeneration(u)
  <2>0. pc[u] = "load" /\ job'[u] = job[u]
    BY <1>6 DEF LoadGeneration
  <2>1. PICK s \in Sites, l \in Loggers, k \in TableSlots :
          s = job[u].site /\ l = job[u].log /\ k = SlotAt(s, probe[u])
    BY <2>0, BusyJob DEF TableInv
  <2>2. l \in view[<<u, k>>]
    BY <1>6, <2>1 DEF LoadGeneration, Announced, Goto, TableInv, TypeOK
  <2>3. slotSite[k] = s
    BY <2>0, <2>1 DEF TableInv, WalksInv
  <2>4. s \in defs[l]
    BY <2>2, <2>3 DEF TableInv, GenerationsInv
  <2> QED
    BY <1>1, <2>0, <2>1, <2>4
<1>7. ASSUME Advance(u)
      PROVE  WriteDefinition(u) \/ Claim(u) \/ LoadGeneration(u)
  BY <1>7 DEF Advance, CountUnbound, StoreGeneration, Lookup, Refuse,
              WriteMessage, Return, Goto, TableInv, TypeOK
<1>8. ASSUME NEW t \in Threads, Call(t) \/ Advance(t), t # u
      PROVE  Rests(u)
  BY <1>8, OthersRest DEF TableInv
<1>9. CASE UNCHANGED vars \/ \E l \in Loggers \cup {NoLogger} : Bind(l)
  BY <1>2, <1>9 DEF vars, Bind, Rests
<1> QED
  BY <1>2, <1>3, <1>4, <1>5, <1>6, <1>7, <1>8, <1>9 DEF Next

LEMMA DecodableStep ==
  ASSUME TableInv, [Next]_vars
  PROVE  MessageIsDecodable'
<1>1. CASE UNCHANGED messages
  BY <1>1, OnlyGrows DEF TableInv, MessageIsDecodable
<1>2. ASSUME NEW t \in Threads, WriteMessage(t)
      PROVE  MessageIsDecodable'
  <2>0. pc[t] = "message" /\ UNCHANGED defs
    BY <1>2 DEF WriteMessage
  <2>1. PICK s \in Sites, l \in Loggers : s = job[t].site /\ l = job[t].log
    BY <2>0, BusyJob DEF TableInv
  <2>2. UNCHANGED messages \/ messages' = [messages EXCEPT ![l] = @ \cup {s}]
    BY <1>2, <2>1 DEF WriteMessage
  <2>3. s \in defs[l]
    BY <2>0, <2>1 DEF TableInv, CallsInv
  <2> QED
    BY <2>0, <2>2, <2>3 DEF TableInv, TypeOK, MessageIsDecodable
<1> QED
  BY <1>1, <1>2
     DEF Next, Call, DefineSite, Emit, Advance, vars, Bind, Start, CountUnbound,
         WriteDefinition, Claim, StoreGeneration, Lookup, LoadGeneration,
         Refuse, segmentVars

(* A slot a thread walked to stays its own.                                *)
LEMMA OwnSlotStable ==
  ASSUME TableInv, [Next]_vars, NEW t \in Threads, NEW k \in TableSlots,
         NEW n \in Nat, OwnSlot(t, k, n)
  PROVE  OwnSlot(t, k, n)'
<1>1. PICK s \in Sites : s = slotSite[k]
  BY DEF OwnSlot, TableInv, TypeOK
<1>2. slotSite'[k] = s
  BY <1>1, KeysStable DEF OwnSlot, TableInv
<1>3. Passed(s, n)'
  BY <1>1, PassedStable DEF OwnSlot, TableInv
<1>4. \A j \in 0..n : SlotAt(s, j) \in TableSlots
  BY SlotAtType
<1>5. \A j \in 0..n : t \in saw'[SlotAt(s, j)]
  BY <1>1, <1>4, OnlyGrows DEF OwnSlot, TableInv
<1>6. s # NoSite /\ k = SlotAt(s, n)
  BY <1>1 DEF OwnSlot
<1> QED
  BY <1>2, <1>3, <1>5, <1>6 DEF OwnSlot, Passed, SlotAt

LEMMA ViewsStep ==
  ASSUME TableInv, [Next]_vars
  PROVE  ViewsInv'
<1> USE TableAssumption
<1> SUFFICES ASSUME NEW u \in Threads, NEW h \in TableSlots
             PROVE  /\ view'[<<u, h>>] # {}
                    /\ NoLogger \notin view'[<<u, h>>] =>
                         \E n \in 0..(ProbeLimit - 1) : OwnSlot(u, h, n)'
  BY DEF ViewsInv
<1>1. ASSUME NEW n \in 0..(ProbeLimit - 1), OwnSlot(u, h, n)
      PROVE  OwnSlot(u, h, n)'
  BY <1>1, OwnSlotStable
<1>2. CASE view'[<<u, h>>] = view[<<u, h>>]
  BY <1>1, <1>2 DEF TableInv, ViewsInv
<1>3. CASE view' # view
  <2>1. PICK t \in Threads : StoreGeneration(t)
    BY <1>3, ViewsChange
  <2>2. PICK s \in Sites, n \in 0..(ProbeLimit - 1), l \in Loggers,
             k \in TableSlots : Stores(t, s, n, l, k)
    BY <2>1, StoreFacts
  <2>3. CASE h = k /\ u = t
    <3>1. OwnSlot(u, h, n)
      BY <2>2, <2>3 DEF OwnSlot, Stores
    <3> QED
      BY <1>1, <2>2, <2>3, <3>1, AbsentAssumption DEF Stores
  <2>4. CASE h = k /\ u # t
    BY <1>1, <2>2, <2>4 DEF Stores, TableInv, ViewsInv
  <2>5. CASE h # k
    BY <1>2, <2>2, <2>5 DEF Stores
  <2> QED
    BY <2>3, <2>4, <2>5
<1> QED
  BY <1>2, <1>3

(* Reachable keys are unique: the walk for a site stops at the first.      *)
LEMMA UniqueKeys ==
  ASSUME TypeOK, KeysReachable
  PROVE  OneSlotPerSite
<1> USE TableAssumption
<1> SUFFICES ASSUME NEW j \in TableSlots, NEW k \in TableSlots,
                    slotSite[j] # NoSite, slotSite[j] = slotSite[k]
             PROVE  j = k
  BY DEF OneSlotPerSite
<1>1. PICK s : s = slotSite[j]
  OBVIOUS
<1>2. PICK n \in 0..(ProbeLimit - 1) : j = SlotAt(s, n) /\ Passed(s, n)
  BY <1>1 DEF KeysReachable
<1>3. PICK m \in 0..(ProbeLimit - 1) : k = SlotAt(s, m) /\ Passed(s, m)
  BY <1>1 DEF KeysReachable
<1>4. CASE n < m
  <2>1. slotSite[SlotAt(s, n)] \notin {NoSite, s}
    BY <1>3, <1>4 DEF Passed
  <2> QED
    BY <1>1, <1>2, <2>1
<1>5. CASE m < n
  <2>1. slotSite[SlotAt(s, m)] \notin {NoSite, s}
    BY <1>2, <1>5 DEF Passed
  <2> QED
    BY <1>1, <1>3, <2>1
<1>6. CASE m = n
  BY <1>2, <1>3, <1>6
<1> QED
  BY <1>4, <1>5, <1>6

(* A walk that passed n slots cannot miss a slot of the thread's own.      *)
LEMMA OwnSlotFound ==
  ASSUME TableInv, NEW t \in Threads, NEW k \in TableSlots, NEW s \in Sites,
         NEW n \in Nat, slotSite[k] = s, NoLogger \notin view[<<t, k>>],
         Passed(s, n)
  PROVE  /\ n < ProbeLimit
         /\ slotSite[SlotAt(s, n)] # NoSite
         /\ t \in saw[SlotAt(s, n)]
<1> USE TableAssumption
<1>1. PICK m \in 0..(ProbeLimit - 1) : OwnSlot(t, k, m)
  BY DEF TableInv, ViewsInv
<1>2. k = SlotAt(s, m) /\ Passed(s, m) /\ \A j \in 0..m : t \in saw[SlotAt(s, j)]
  BY <1>1 DEF OwnSlot
<1>3. n <= m
  <2>1. CASE m < n
    <3>1. slotSite[SlotAt(s, m)] \notin {NoSite, s}
      BY <2>1 DEF Passed
    <3> QED
      BY <1>2, <3>1
  <2> QED
    BY <2>1
<1>4. slotSite[SlotAt(s, n)] # NoSite
  <2>1. CASE n = m
    BY <1>2, <2>1, AbsentAssumption
  <2>2. CASE n < m
    BY <1>2, <2>2 DEF Passed
  <2> QED
    BY <1>3, <2>1, <2>2
<1>5. n \in 0..m /\ n < ProbeLimit
  BY <1>3
<1> QED
  BY <1>2, <1>4, <1>5

LEMMA AcceptedStep ==
  ASSUME TableInv, [Next]_vars
  PROVE  OwnDefinitionAccepted'
<1> SUFFICES ASSUME NEW u \in Threads, NEW h \in TableSlots, pc'[u] = "refuse",
                    slotSite'[h] = job'[u].site, u \in saw'[h],
                    view'[<<u, h>>] = {job'[u].log}
             PROVE  FALSE
  BY DEF OwnDefinitionAccepted
<1>1. CASE Rests(u)
  <2>1. PICK s \in Sites, l \in Loggers : s = job[u].site /\ l = job[u].log
    BY <1>1, BusyJob DEF Rests, TableInv
  <2>2. view[<<u, h>>] = {l}
    <3>1. CASE view' = view
      BY <1>1, <2>1, <3>1 DEF Rests
    <3>2. CASE view' # view
      <4>1. PICK t \in Threads : StoreGeneration(t)
        BY <3>2, ViewsChange
      <4>2. PICK a \in Sites, n \in 0..(ProbeLimit - 1), g \in Loggers,
                 k \in TableSlots : Stores(t, a, n, g, k)
        BY <4>1, StoreFacts
      <4>3. u # t
        BY <1>1, <4>1 DEF Rests, StoreGeneration
      <4>4. view[<<u, h>>] # {}
        BY DEF TableInv, ViewsInv
      <4>5. view'[<<u, h>>] = {l}
        BY <1>1, <2>1 DEF Rests
      <4>6. view[<<u, h>>] \subseteq view'[<<u, h>>]
        <5>1. \/ view'[<<u, h>>] = view[<<u, h>>]
              \/ view'[<<u, h>>] = view[<<u, h>>] \cup {g}
          BY <4>2, <4>3 DEF Stores
        <5> QED
          BY <5>1
      <4> QED
        BY <4>4, <4>5, <4>6
    <3> QED
      BY <3>1, <3>2
  <2>3. NoLogger \notin view[<<u, h>>]
    BY <2>2, AbsentAssumption
  <2>4. slotSite[h] # NoSite
    BY <2>3 DEF TableInv, ViewsInv, OwnSlot
  <2>5. slotSite[h] = s
    BY <1>1, <2>1, <2>4, KeysStable DEF Rests, TableInv
  <2>6. u \in saw[h]
    <3>1. PICK m \in 0..(ProbeLimit - 1) : OwnSlot(u, h, m)
      BY <2>3 DEF TableInv, ViewsInv
    <3> QED
      BY <3>1, TableAssumption DEF OwnSlot
  <2> QED
    BY <1>1, <2>1, <2>2, <2>5, <2>6 DEF Rests, TableInv, OwnDefinitionAccepted
<1>2. CASE Lookup(u)
  <2>0. pc[u] = "lookup" /\ job'[u] = job[u] /\ UNCHANGED <<view, slotSite>>
    BY <1>2 DEF Lookup
  <2>1. PICK s \in Sites, n \in Nat, l \in Loggers :
          s = job[u].site /\ n = probe[u] /\ l = job[u].log
    BY <2>0, BusyJob DEF TableInv
  <2>2. Passed(s, n)
    BY <2>0, <2>1 DEF TableInv, WalksInv
  <2>3. slotSite[h] = s /\ NoLogger \notin view[<<u, h>>]
    BY <2>0, <2>1, AbsentAssumption
  <2>4. /\ n < ProbeLimit
        /\ slotSite[SlotAt(s, n)] # NoSite
        /\ u \in saw[SlotAt(s, n)]
    BY <2>2, <2>3, OwnSlotFound
  <2> QED
    BY <1>2, <2>0, <2>1, <2>4
       DEF Lookup, LookupWithin, Goto, TableInv, TypeOK
<1>3. CASE LoadGeneration(u)
  <2>0. pc[u] = "load" /\ job'[u] = job[u] /\ UNCHANGED <<view, slotSite, saw>>
    BY <1>3 DEF LoadGeneration, tableVars
  <2>1. PICK s \in Sites, l \in Loggers, k \in TableSlots :
          s = job[u].site /\ l = job[u].log /\ k = SlotAt(s, probe[u])
    BY <2>0, BusyJob DEF TableInv
  <2>2. slotSite[k] = s
    BY <2>0, <2>1 DEF TableInv, WalksInv
  <2>3. h = k
    <3>1. slotSite[h] = s /\ s # NoSite
      BY <2>0, <2>1, AbsentAssumption
    <3> QED
      BY <2>2, <3>1, UniqueKeys DEF OneSlotPerSite, TableInv
  <2>4. PICK g \in view[<<u, k>>] : g # l
    BY <1>3, <2>1 DEF LoadGeneration, Announced, Goto, TableInv, TypeOK
  <2> QED
    BY <2>0, <2>1, <2>3, <2>4
<1>4. ASSUME Call(u) \/ Advance(u)
      PROVE  Lookup(u) \/ LoadGeneration(u)
  BY <1>4 DEF Call, DefineSite, Emit, Start, Advance, CountUnbound,
              WriteDefinition, Claim, StoreGeneration, Refuse, WriteMessage,
              Return, Goto, TableInv, TypeOK
<1>5. ASSUME NEW t \in Threads, Call(t) \/ Advance(t), t # u
      PROVE  Rests(u)
  BY <1>5, OthersRest DEF TableInv
<1>6. CASE UNCHANGED vars \/ \E l \in Loggers \cup {NoLogger} : Bind(l)
  BY <1>1, <1>6 DEF vars, Bind, Rests
<1> QED
  BY <1>1, <1>2, <1>3, <1>4, <1>5, <1>6 DEF Next

LEMMA InitTable == Init => TableInv
<1> SUFFICES ASSUME Init PROVE TableInv
  OBVIOUS
<1>1. TypeOK
  BY NoJobType DEF Init, TypeOK, Steps
<1>2. KeysReachable /\ WalksInv /\ SeenInv
  BY DEF Init, KeysReachable, WalksInv, SeenInv
<1>3. GenerationsInv /\ ViewsInv
  BY AbsentAssumption DEF Init, GenerationsInv, ViewsInv
<1>4. CallsInv /\ MessageIsDecodable /\ OwnDefinitionAccepted
  BY DEF Init, CallsInv, MessageIsDecodable, OwnDefinitionAccepted
<1> QED
  BY <1>1, <1>2, <1>3, <1>4 DEF TableInv

LEMMA NextTable == TableInv /\ [Next]_vars => TableInv'
BY TypeStep, KeysReachableStep, WalksStep, GenerationsStep, CallsStep,
   DecodableStep, ViewsStep, AcceptedStep DEF TableInv

(* The inductive invariant of the announce table holds in every state of   *)
(* the plugin ABI host.                                                    *)
THEOREM TableInvariance == Spec => []TableInv
BY InitTable, NextTable, PTL DEF Spec

(* No call enters the producer path without a bound Logger, and no probe   *)
(* leaves the table.                                                       *)
THEOREM AbiTypes == Spec => []TypeOK
<1>1. TableInv => TypeOK
  BY DEF TableInv
<1> QED
  BY <1>1, TableInvariance, PTL

(* emit_record never writes a Message into a segment without the           *)
(* definition of its site, for any interleaving of define_site,            *)
(* emit_record and rebinding, with relaxed loads.                          *)
THEOREM AbiSelfDescription == Spec => []MessageIsDecodable
<1>1. TableInv => MessageIsDecodable
  BY DEF TableInv
<1> QED
  BY <1>1, TableInvariance, PTL

(* Racing define_site calls never give a site two slots of the table.      *)
THEOREM SlotsAreUnique == Spec => []OneSlotPerSite
<1>1. TableInv => OneSlotPerSite
  BY UniqueKeys DEF TableInv
<1> QED
  BY <1>1, TableInvariance, PTL

(* emit_record does not refuse what its own thread defined for this        *)
(* segment while nobody stored another generation, however full the table  *)
(* is.                                                                     *)
THEOREM OwnSitesAreAccepted == Spec => []OwnDefinitionAccepted
<1>1. TableInv => OwnDefinitionAccepted
  BY DEF TableInv
<1> QED
  BY <1>1, TableInvariance, PTL

-----------------------------------------------------------------------------
(* The accounts: every call is written, dropped, running or counted.       *)

LEMMA FoundSum ==
  /\ CallsFound = SetSum(started, Loggers)
  /\ CallsFound' = SetSum(started', Loggers)
BY DEF CallsFound, MapThenSumSet, MapThenFoldSet, SetSum, SumOf, SumTurn, AnyOf

(* The sets that are counted are finite.                                   *)
LEMMA CountedFinite ==
  /\ IsFiniteSet(Threads) /\ Cardinality(Threads) \in Nat
  /\ \A T \in SUBSET Threads :
       /\ IsFiniteSet(T) /\ Cardinality(T) \in Nat
       /\ Cardinality(T) <= Cardinality(Threads)
BY FiniteAssumption, FS_Subset, FS_CardinalityType

LEMMA Joins ==
  ASSUME NEW S \in SUBSET Threads, NEW t \in Threads, t \notin S,
         NEW T, T = S \cup {t}
  PROVE  Cardinality(T) = Cardinality(S) + 1
BY CountedFinite, FS_AddElement

LEMMA Quits ==
  ASSUME NEW S \in SUBSET Threads, NEW t \in S, NEW T, T = S \ {t}
  PROVE  Cardinality(T) = Cardinality(S) - 1
BY CountedFinite, FS_RemoveElement

(* A step of one thread moves no other thread in or out of a count.        *)
LEMMA OthersCount ==
  ASSUME TypeOK, NEW t \in Threads, Call(t) \/ Advance(t)
  PROVE  /\ \A l \in Loggers : Running(l)' \ {t} = Running(l) \ {t}
         /\ Counting' \ {t} = Counting \ {t}
<1>1. \A u \in Threads \ {t} : pc'[u] = pc[u] /\ job'[u] = job[u]
  BY OthersRest DEF Rests
<1> QED
  BY <1>1 DEF Running, Counting

(* A Logger's account: the call enters it, leaves it written or dropped, or*)
(* nothing of it changes.                                                  *)
Enters(l) ==
  /\ started'[l] = started[l] + 1
  /\ written'[l] = written[l] /\ dropped'[l] = dropped[l]
  /\ Cardinality(Running(l)') = Cardinality(Running(l)) + 1

Leaves(l) ==
  /\ started'[l] = started[l]
  /\ written'[l] + dropped'[l] = written[l] + dropped[l] + 1
  /\ Cardinality(Running(l)') = Cardinality(Running(l)) - 1

Steady(l) ==
  /\ started'[l] = started[l]
  /\ written'[l] = written[l] /\ dropped'[l] = dropped[l]
  /\ Running(l)' = Running(l)

(* A thread that does not change its place in an account.                  *)
LEMMA StaysCounted ==
  ASSUME TypeOK, NEW t \in Threads, Call(t) \/ Advance(t), NEW l \in Loggers,
         t \in Running(l)' <=> t \in Running(l)
  PROVE  Running(l)' = Running(l)
<1>1. Running(l)' \ {t} = Running(l) \ {t}
  BY OthersCount
<1>2. \A u : u \in Running(l)' <=> u \in Running(l)
  <2> SUFFICES ASSUME NEW u
               PROVE  u \in Running(l)' <=> u \in Running(l)
    OBVIOUS
  <2>1. CASE u = t
    BY <2>1
  <2>2. CASE u # t
    BY <1>1, <2>2, Zenon
  <2> QED
    BY <2>1, <2>2
<1> QED
  BY <1>2

(* A call that returns with its record written or dropped.                 *)
LEMMA ReturnLeaves ==
  ASSUME TypeOK, NEW t \in Threads, Advance(t), NEW l \in Loggers,
         pc[t] \in {"define", "refuse", "message"}, l = job[t].log,
         pc'[t] = "claim" \/ job'[t] = NoJob,
         UNCHANGED started,
         \/ /\ written' = [written EXCEPT ![l] = @ + 1]
            /\ UNCHANGED dropped
         \/ /\ dropped' = [dropped EXCEPT ![l] = @ + 1]
            /\ UNCHANGED written
  PROVE  \A m \in Loggers : Leaves(m) \/ Steady(m)
<1>1. t \in Running(l) /\ Running(l) \subseteq Threads
  BY DEF Running
<1>2. \A m \in Loggers : t \notin Running(m)' /\ (m # l => t \notin Running(m))
  BY AbsentAssumption DEF Running, NoJob
<1>3. ASSUME NEW m \in Loggers, m # l
      PROVE  Steady(m)
  <2>1. Running(m)' = Running(m)
    BY <1>2, <1>3, StaysCounted
  <2>2. /\ started'[m] = started[m] /\ written'[m] = written[m]
        /\ dropped'[m] = dropped[m]
    BY <1>3 DEF TypeOK
  <2> QED
    BY <2>1, <2>2 DEF Steady
<1>4. Leaves(l)
  <2>1. Running(l)' = Running(l) \ {t}
    BY <1>1, <1>2, OthersCount
  <2>2. Cardinality(Running(l)') = Cardinality(Running(l)) - 1
    BY <1>1, <2>1, Quits
  <2>3. /\ started'[l] = started[l]
        /\ written'[l] + dropped'[l] = written[l] + dropped[l] + 1
    BY DEF TypeOK
  <2> QED
    BY <2>2, <2>3 DEF Leaves
<1> QED
  BY <1>3, <1>4

(* A step that leaves the counters alone, of a thread whose call goes on,  *)
(* or whose record was counted before.                                     *)
LEMMA QuietSteady ==
  ASSUME TypeOK, NEW t \in Threads, Advance(t),
         UNCHANGED <<started, written, dropped>>,
         \/ /\ job'[t] = job[t]
            /\ pc[t] \notin {"claim", "store"}
            /\ pc'[t] \notin {"claim", "store"}
         \/ /\ pc[t] \in {"claim", "store"}
            /\ pc'[t] \in {"claim", "store"} \/ job'[t] = NoJob
  PROVE  \A l \in Loggers : Steady(l)
<1> SUFFICES ASSUME NEW l \in Loggers
             PROVE  Steady(l)
  OBVIOUS
<1>1. t \in Running(l)' <=> t \in Running(l)
  BY AbsentAssumption DEF Running, NoJob
<1>2. Running(l)' = Running(l)
  BY <1>1, StaysCounted
<1> QED
  BY <1>2 DEF Steady

(* What a step of a thread inside a call does to the accounts.             *)
LEMMA AdvanceAccounts ==
  ASSUME TypeOK, FreeInv, NEW t \in Threads, Advance(t)
  PROVE  \A l \in Loggers : Leaves(l) \/ Steady(l)
<1>0. pc[t] \in Steps /\ pc \in [Threads -> Steps] /\ job \in [Threads -> Job]
  BY DEF TypeOK
<1>1. CASE CountUnbound(t)
  <2>1. /\ UNCHANGED <<started, written, dropped>> /\ job'[t] = job[t]
        /\ pc[t] = "unbound" /\ pc'[t] = "idle"
    BY <1>0, <1>1 DEF CountUnbound, Goto, segmentVars
  <2> QED
    BY <2>1, QuietSteady
<1>2. CASE WriteDefinition(t)
  <2>1. PICK l \in Loggers : l = job[t].log
    BY <1>2, BusyJob DEF WriteDefinition
  <2>2. /\ pc[t] = "define" /\ UNCHANGED started
        /\ pc'[t] = "claim" \/ job'[t] = NoJob
    BY <1>0, <1>2 DEF WriteDefinition, Goto, Return
  <2>3. \/ /\ written' = [written EXCEPT ![l] = @ + 1]
           /\ UNCHANGED dropped
        \/ /\ dropped' = [dropped EXCEPT ![l] = @ + 1]
           /\ UNCHANGED written
    BY <1>2, <2>1 DEF WriteDefinition, CountDrop
  <2> QED
    BY <2>1, <2>2, <2>3, ReturnLeaves
<1>3. CASE Claim(t)
  <2>1. /\ UNCHANGED <<started, written, dropped>>
        /\ pc[t] = "claim"
        /\ pc'[t] \in {"claim", "store"} \/ job'[t] = NoJob
    BY <1>0, <1>3 DEF Claim, Goto, Return, segmentVars
  <2> QED
    BY <2>1, QuietSteady
<1>4. CASE StoreGeneration(t)
  <2>1. /\ UNCHANGED <<started, written, dropped>>
        /\ pc[t] = "store" /\ job'[t] = NoJob
    BY <1>0, <1>4 DEF StoreGeneration, Return, segmentVars
  <2> QED
    BY <2>1, QuietSteady
<1>5. CASE Lookup(t)
  <2>1. /\ UNCHANGED <<started, written, dropped>> /\ job'[t] = job[t]
        /\ pc[t] = "lookup" /\ pc'[t] \in {"lookup", "load", "refuse"}
    BY <1>0, <1>5 DEF Lookup, Goto, segmentVars
  <2> QED
    BY <2>1, QuietSteady
<1>6. CASE LoadGeneration(t)
  <2>1. /\ UNCHANGED <<started, written, dropped>> /\ job'[t] = job[t]
        /\ pc[t] = "load" /\ pc'[t] \in {"message", "refuse"}
    BY <1>0, <1>6 DEF LoadGeneration, Goto, segmentVars
  <2> QED
    BY <2>1, QuietSteady
<1>7. CASE Refuse(t)
  <2>1. PICK l \in Loggers : l = job[t].log
    BY <1>7, BusyJob DEF Refuse
  <2>2. /\ pc[t] = "refuse" /\ UNCHANGED <<started, written>>
        /\ job'[t] = NoJob /\ dropped' = [dropped EXCEPT ![l] = @ + 1]
    BY <1>0, <1>7, <2>1 DEF Refuse, CountDrop, Return, segmentVars
  <2> QED
    BY <2>1, <2>2, ReturnLeaves
<1>8. CASE WriteMessage(t)
  <2>1. PICK l \in Loggers : l = job[t].log
    BY <1>8, BusyJob DEF WriteMessage
  <2>2. pc[t] = "message" /\ UNCHANGED started /\ job'[t] = NoJob
    BY <1>0, <1>8 DEF WriteMessage, Return
  <2>3. \/ /\ written' = [written EXCEPT ![l] = @ + 1]
           /\ UNCHANGED dropped
        \/ /\ dropped' = [dropped EXCEPT ![l] = @ + 1]
           /\ UNCHANGED written
    BY <1>8, <2>1 DEF WriteMessage, CountDrop
  <2> QED
    BY <2>1, <2>2, <2>3, ReturnLeaves
<1> QED
  BY <1>1, <1>2, <1>3, <1>4, <1>5, <1>6, <1>7, <1>8 DEF Advance

(* The start of a call enters it in the account of the bound Logger.       *)
LEMMA StartAccounts ==
  ASSUME TypeOK, FreeInv, NEW t \in Threads, NEW s \in Sites,
         NEW c \in BOOLEAN, NEW step \in {"define", "lookup"},
         Call(t), Start(t, s, c, step)
  PROVE  \A l \in Loggers : Enters(l) \/ Steady(l)
<1>0. /\ pc \in [Threads -> Steps] /\ job \in [Threads -> Job]
      /\ pc[t] = "idle" /\ job[t].log = NoLogger
      /\ UNCHANGED <<written, dropped>>
  BY DEF Start, TypeOK, FreeInv, segmentVars
<1>1. \A l \in Loggers : t \notin Running(l)
  BY <1>0, AbsentAssumption DEF Running
<1>2. ASSUME NEW l \in Loggers, job'[t].log # l, started'[l] = started[l]
      PROVE  Steady(l)
  <2>1. t \in Running(l)' <=> t \in Running(l)
    BY <1>1, <1>2 DEF Running
  <2>2. Running(l)' = Running(l)
    BY <2>1, StaysCounted
  <2> QED
    BY <1>0, <1>2, <2>2 DEF Steady
<1>3. CASE bound = NoLogger
  <2>1. job'[t].log = NoLogger /\ started' = started
    BY <1>0, <1>3 DEF Start
  <2> QED
    BY <1>2, <2>1, AbsentAssumption
<1>4. CASE bound # NoLogger
  <2>1. PICK b \in Loggers : b = bound
    BY <1>4 DEF TypeOK
  <2>2. PICK r : r = [log |-> b, site |-> s, cut |-> c]
    OBVIOUS
  <2>3. /\ job' = [job EXCEPT ![t] = r]
        /\ pc' = [pc EXCEPT ![t] = step]
        /\ started' = [started EXCEPT ![b] = @ + 1]
    BY <1>4, <2>1, <2>2 DEF Start, Goto
  <2>4. job'[t].log = b /\ pc'[t] = step
    BY <1>0, <2>2, <2>3
  <2>5. /\ started'[b] = started[b] + 1
        /\ \A l \in Loggers \ {b} : started'[l] = started[l]
    BY <2>3 DEF TypeOK
  <2>6. Enters(b)
    <3>1. t \in Running(b)'
      BY <2>4 DEF Running
    <3>2. Running(b)' = Running(b) \cup {t}
      <4>1. Running(b)' \ {t} = Running(b) \ {t}
        BY OthersCount
      <4> QED
        BY <3>1, <4>1
    <3>3. Cardinality(Running(b)') = Cardinality(Running(b)) + 1
      <4>1. Running(b) \in SUBSET Threads
        BY DEF Running
      <4> QED
        BY <1>1, <3>2, <4>1, Joins
    <3> QED
      BY <1>0, <2>5, <3>3 DEF Enters
  <2> QED
    BY <1>2, <2>4, <2>5, <2>6
<1> QED
  BY <1>3, <1>4

(* Every step of the plugin ABI and of the host keeps the accounts.        *)
LEMMA RunningStep ==
  ASSUME TypeOK, FreeInv, RunningInv, [Next]_vars
  PROVE  RunningInv'
<1> SUFFICES ASSUME NEW l \in Loggers
             PROVE  started'[l] = written'[l] + dropped'[l]
                                    + Cardinality(Running(l)')
  BY DEF RunningInv
<1>1. /\ started[l] \in Nat /\ written[l] \in Nat /\ dropped[l] \in Nat
      /\ started[l] = written[l] + dropped[l] + Cardinality(Running(l))
  BY DEF TypeOK, RunningInv
<1>2. Cardinality(Running(l)) \in Nat
  BY CountedFinite DEF Running
<1>3. written'[l] \in Nat /\ dropped'[l] \in Nat
  BY TypeStep DEF TypeOK
<1>4. Enters(l) \/ Leaves(l) \/ Steady(l)
  <2>1. CASE UNCHANGED vars \/ \E b \in Loggers \cup {NoLogger} : Bind(b)
    BY <2>1 DEF vars, Bind, Steady, Running, segmentVars
  <2>2. ASSUME NEW t \in Threads, Call(t)
        PROVE  Enters(l) \/ Steady(l)
    <3>1. PICK s \in Sites, c \in BOOLEAN, step \in {"define", "lookup"} :
            Start(t, s, c, step)
      BY <2>2 DEF Call, DefineSite, Emit
    <3> QED
      BY <2>2, <3>1, StartAccounts
  <2>3. ASSUME NEW t \in Threads, Advance(t)
        PROVE  Leaves(l) \/ Steady(l)
    BY <2>3, AdvanceAccounts
  <2> QED
    BY <2>1, <2>2, <2>3 DEF Next
<1>5. CASE Enters(l)
  BY <1>1, <1>2, <1>5 DEF Enters
<1>6. CASE Leaves(l)
  <2>1. /\ started'[l] = started[l]
        /\ written'[l] + dropped'[l] = written[l] + dropped[l] + 1
        /\ Cardinality(Running(l)') = Cardinality(Running(l)) - 1
    BY <1>6 DEF Leaves
  <2> QED
    BY <1>1, <1>2, <1>3, <2>1
<1>7. CASE Steady(l)
  BY <1>1, <1>7 DEF Steady
<1> QED
  BY <1>4, <1>5, <1>6, <1>7

LEMMA FreeStep ==
  ASSUME TypeOK, FreeInv, [Next]_vars
  PROVE  FreeInv'
<1> SUFFICES ASSUME NEW u \in Threads, pc'[u] \in {"idle", "unbound"}
             PROVE  job'[u].log = NoLogger
  BY DEF FreeInv
<1>1. CASE Rests(u)
  BY <1>1 DEF Rests, FreeInv
<1>2. CASE Call(u)
  BY <1>2 DEF Call, DefineSite, Emit, Start, Goto, TypeOK, FreeInv
<1>3. CASE Advance(u)
  <2>1. CASE CountUnbound(u)
    BY <2>1 DEF CountUnbound, FreeInv
  <2>2. CASE ~CountUnbound(u)
    <3>1. job'[u] = NoJob
      BY <1>3, <2>2
         DEF Advance, WriteDefinition, Claim, StoreGeneration, Lookup,
             LoadGeneration, Refuse, WriteMessage, Return, Goto, TypeOK
    <3> QED
      BY <3>1 DEF NoJob
  <2> QED
    BY <2>1, <2>2
<1>4. ASSUME NEW t \in Threads, Call(t) \/ Advance(t), t # u
      PROVE  Rests(u)
  BY <1>4, OthersRest
<1>5. CASE UNCHANGED vars \/ \E l \in Loggers \cup {NoLogger} : Bind(l)
  BY <1>1, <1>5 DEF vars, Bind, Rests
<1> QED
  BY <1>1, <1>2, <1>3, <1>4, <1>5 DEF Next

(* What a step does to the account of the calls that found no Logger.      *)
Found ==
  /\ calls' = calls + 1
  /\ CallsFound' = CallsFound + 1
  /\ UNCHANGED unbound
  /\ Counting' = Counting

Missed ==
  /\ calls' = calls + 1
  /\ CallsFound' = CallsFound
  /\ UNCHANGED unbound
  /\ \/ /\ unbound < UnboundCap
        /\ Cardinality(Counting') = Cardinality(Counting) + 1
     \/ unbound >= UnboundCap /\ Counting' = Counting

Tallied ==
  /\ UNCHANGED calls
  /\ CallsFound' = CallsFound
  /\ unbound' = unbound + 1
  /\ Cardinality(Counting') = Cardinality(Counting) - 1

Untouched ==
  /\ UNCHANGED <<calls, unbound>>
  /\ CallsFound' = CallsFound
  /\ Counting' = Counting

(* A thread that neither begins nor ends a call that found no Logger.      *)
LEMMA StaysCounting ==
  ASSUME TypeOK, NEW t \in Threads, Call(t) \/ Advance(t),
         pc[t] # "unbound", pc'[t] # "unbound"
  PROVE  Counting' = Counting
<1>1. Counting' \ {t} = Counting \ {t} /\ t \notin Counting /\ t \notin Counting'
  BY OthersCount DEF Counting
<1> QED
  BY <1>1

LEMMA CallTally ==
  ASSUME TypeOK, NEW t \in Threads, Call(t)
  PROVE  Found \/ Missed
<1>1. PICK s \in Sites, c \in BOOLEAN, step \in {"define", "lookup"} :
        Start(t, s, c, step)
  BY DEF Call, DefineSite, Emit
<1>2. /\ pc \in [Threads -> Steps] /\ pc[t] = "idle"
      /\ calls' = calls + 1 /\ unbound' = unbound
      /\ started \in [Loggers -> Nat] /\ unbound \in Nat /\ UnboundCap \in Nat
  BY <1>1, TableAssumption DEF Start, TypeOK
<1>3. CASE bound # NoLogger
  <2>1. PICK b \in Loggers : b = bound
    BY <1>3 DEF TypeOK
  <2>2. started' = [started EXCEPT ![b] = @ + 1] /\ pc'[t] = step
    BY <1>1, <1>2, <1>3, <2>1 DEF Start, Goto
  <2>3. CallsFound' = CallsFound + 1
    BY <1>2, <2>1, <2>2, FoundSum, SumRaised, FiniteAssumption
  <2>4. Counting' = Counting
    BY <1>2, <2>2, StaysCounting
  <2> QED
    BY <1>2, <2>3, <2>4 DEF Found
<1>4. CASE bound = NoLogger
  <2>1. started' = started
    BY <1>1, <1>4 DEF Start
  <2>2. CallsFound' = CallsFound
    BY <2>1, FoundSum
  <2>3. CASE unbound < UnboundCap
    <3>1. pc'[t] = "unbound"
      BY <1>1, <1>2, <1>4, <2>3 DEF Start, Goto, BelowCap
    <3>2. t \in Counting' /\ t \notin Counting /\ Counting \in SUBSET Threads
      BY <1>2, <3>1 DEF Counting
    <3>3. Counting' = Counting \cup {t}
      <4>1. Counting' \ {t} = Counting \ {t}
        BY OthersCount
      <4> QED
        BY <3>2, <4>1
    <3>4. Cardinality(Counting') = Cardinality(Counting) + 1
      BY <3>2, <3>3, Joins
    <3> QED
      BY <1>2, <2>2, <2>3, <3>4 DEF Missed
  <2>4. CASE ~(unbound < UnboundCap)
    <3>1. pc'[t] = "idle"
      BY <1>1, <1>2, <1>4, <2>4 DEF Start, Goto, BelowCap
    <3>2. Counting' = Counting
      BY <1>2, <3>1, StaysCounting
    <3> QED
      BY <1>2, <2>2, <2>4, <3>2 DEF Missed
  <2> QED
    BY <2>3, <2>4
<1> QED
  BY <1>3, <1>4

LEMMA AdvanceTally ==
  ASSUME TypeOK, NEW t \in Threads, Advance(t)
  PROVE  Tallied \/ Untouched
<1>0. pc \in [Threads -> Steps]
  BY DEF TypeOK
<1>1. calls' = calls /\ started' = started
  BY DEF Advance, CountUnbound, WriteDefinition, Claim, StoreGeneration, Lookup,
         LoadGeneration, Refuse, WriteMessage
<1>2. CallsFound' = CallsFound
  BY <1>1, FoundSum
<1>3. CASE CountUnbound(t)
  <2>1. unbound' = unbound + 1 /\ pc[t] = "unbound" /\ pc'[t] = "idle"
    BY <1>0, <1>3 DEF CountUnbound, Goto
  <2>2. t \in Counting /\ t \notin Counting' /\ Counting \in SUBSET Threads
    BY <2>1 DEF Counting
  <2>3. Counting' = Counting \ {t}
    <3>1. Counting' \ {t} = Counting \ {t}
      BY OthersCount
    <3> QED
      BY <2>2, <3>1
  <2>4. Cardinality(Counting') = Cardinality(Counting) - 1
    BY <2>2, <2>3, Quits
  <2> QED
    BY <1>1, <1>2, <2>1, <2>4 DEF Tallied
<1>4. CASE ~CountUnbound(t)
  <2>1. /\ unbound' = unbound
        /\ pc[t] # "unbound" /\ pc'[t] # "unbound"
    BY <1>0, <1>4
       DEF Advance, WriteDefinition, Claim, StoreGeneration, Lookup,
           LoadGeneration, Refuse, WriteMessage, Goto, Return
  <2>2. Counting' = Counting
    BY <2>1, StaysCounting
  <2> QED
    BY <1>1, <1>2, <2>1, <2>2 DEF Untouched
<1> QED
  BY <1>3, <1>4

LEMMA UnboundStep ==
  ASSUME TypeOK, UnboundInv, [Next]_vars
  PROVE  UnboundInv'
<1>1. Found \/ Missed \/ Tallied \/ Untouched
  <2>1. CASE UNCHANGED vars \/ \E l \in Loggers \cup {NoLogger} : Bind(l)
    <3>1. /\ started' = started /\ pc' = pc /\ calls' = calls
          /\ unbound' = unbound
      BY <2>1 DEF vars, Bind
    <3> QED
      BY <3>1, FoundSum DEF Untouched, Counting
  <2> QED
    BY <2>1, CallTally, AdvanceTally DEF Next
<1>2. PICK m \in Nat, p \in Nat : m = Cardinality(Counting) /\
                                  p = Cardinality(Counting')
  BY CountedFinite DEF Counting
<1>3. PICK n \in Nat : n = Cardinality(Threads) /\ m <= n /\ p <= n
  BY <1>2, CountedFinite DEF Counting
<1>4. PICK f \in Nat : f = CallsFound
  BY FoundSum, SumFacts, FiniteAssumption DEF SetSum, TypeOK
<1>5. PICK cap \in Nat : cap = UnboundCap
  BY TableAssumption
<1>6. calls \in Nat /\ unbound \in Nat
  BY DEF TypeOK
<1>7. /\ \/ unbound + m = calls - f
         \/ cap <= unbound + m /\ unbound + m <= calls - f
      /\ unbound + m < cap + n
  BY <1>2, <1>3, <1>4, <1>5 DEF UnboundInv
<1>8. /\ \/ unbound' + p = calls' - CallsFound'
         \/ cap <= unbound' + p /\ unbound' + p <= calls' - CallsFound'
      /\ unbound' + p < cap + n
  <2>1. CASE Found
    BY <1>2, <1>4, <1>6, <1>7, <2>1 DEF Found
  <2>2. CASE Missed
    BY <1>2, <1>3, <1>4, <1>5, <1>6, <1>7, <2>2 DEF Missed
  <2>3. CASE Tallied
    BY <1>2, <1>4, <1>6, <1>7, <2>3 DEF Tallied
  <2>4. CASE Untouched
    BY <1>2, <1>4, <1>6, <1>7, <2>4 DEF Untouched
  <2> QED
    BY <1>1, <2>1, <2>2, <2>3, <2>4
<1> QED
  BY <1>2, <1>3, <1>5, <1>8 DEF UnboundInv

(* Nothing is counted before the first call.                               *)
LEMMA InitCounts == Init => CountsInv
<1> SUFFICES ASSUME Init PROVE CountsInv
  OBVIOUS
<1>1. FreeInv
  BY DEF Init, FreeInv, NoJob
<1>2. \A l \in Loggers : Running(l) = {}
  BY AbsentAssumption DEF Init, Running, NoJob
<1>3. Cardinality({}) = 0
  BY FS_EmptySet
<1>4. RunningInv
  <2>1. ASSUME NEW l \in Loggers
        PROVE  started[l] = 0 /\ written[l] = 0 /\ dropped[l] = 0
    BY DEF Init
  <2>2. ASSUME NEW l \in Loggers
        PROVE  Cardinality(Running(l)) = 0
    BY <1>2, <1>3
  <2> QED
    BY <2>1, <2>2 DEF RunningInv
<1>5. CallsFound = 0
  BY FoundSum, SumZero, FiniteAssumption DEF Init
<1>6. Counting = {}
  BY DEF Init, Counting
<1>7. UnboundInv
  BY <1>3, <1>5, <1>6, TableAssumption, CountedFinite DEF Init, UnboundInv
<1> QED
  BY <1>1, <1>4, <1>7 DEF CountsInv

(* The accounts are exact in every state.                                  *)
LEMMA CountsImply == TypeOK /\ CountsInv => CallsAddUp
<1> SUFFICES ASSUME TypeOK, CountsInv PROVE CallsAddUp
  OBVIOUS
<1>1. \A l \in Loggers :
        started[l] = written[l] + dropped[l]
                     + Cardinality({t \in Threads : job[t].log = l /\
                                      pc[t] \notin {"claim", "store"}})
  BY DEF CountsInv, RunningInv, Running
<1>2. PICK m \in Nat : m = Cardinality(Counting)
  BY CountedFinite DEF Counting
<1>3. PICK f \in Nat : f = CallsFound
  BY FoundSum, SumFacts, FiniteAssumption DEF SetSum, TypeOK
<1>4. Cardinality(Threads) \in Nat /\ UnboundCap \in Nat
      /\ calls \in Nat /\ unbound \in Nat
  BY CountedFinite, TableAssumption DEF TypeOK
<1>5. /\ \/ unbound + m = calls - f
         \/ UnboundCap <= unbound + m /\ unbound + m <= calls - f
      /\ unbound + m < UnboundCap + Cardinality(Threads)
  BY <1>2, <1>3 DEF CountsInv, UnboundInv
<1>6. /\ unbound + m \in {calls - f} \cup UnboundCap..(calls - f)
      /\ unbound < UnboundCap + Cardinality(Threads)
  BY <1>4, <1>5
<1>7. /\ unbound + Cardinality(Counting) \in
           {calls - CallsFound} \cup UnboundCap..(calls - CallsFound)
      /\ unbound < UnboundCap + Cardinality(Threads)
  BY <1>2, <1>3, <1>6
<1> QED
  BY <1>1, <1>7 DEF CallsAddUp, Counting, CallsFound

(* Every call of define_site or emit_record that found a Logger is written,*)
(* a counted drop of that Logger, or still running; every other call is in *)
(* the unbound count until that reaches its cap, which concurrent callers  *)
(* overrun by less than their number.                                      *)
THEOREM CallsAreAccounted == Spec => []CallsAddUp
<1>1. TypeOK /\ CountsInv /\ [Next]_vars => CountsInv'
  BY FreeStep, RunningStep, UnboundStep DEF CountsInv
<1> QED
  BY <1>1, InitCounts, CountsImply, AbiTypes, PTL DEF Spec

=============================================================================
