------------------------ MODULE ThreadContextProofs -------------------------
(***************************************************************************)
(* Theorems about one thread and what surrounds its emissions, for any     *)
(* Loggers, chunks, ids and any depth of scopes.                           *)
(***************************************************************************)
EXTENDS ThreadContext, FiniteSetTheorems, SequenceTheorems, TLAPS

-----------------------------------------------------------------------------
(* The inductive invariant.                                                *)

Under(id, l) == IF id # 0 THEN id ELSE root[l]

(* An emission under way goes through the bound Logger and carries the     *)
(* activity of its call, the interrupted one that which the handler's      *)
(* scope will restore.                                                     *)
FramesInv ==
  \A p \in Processes : frames[p] # <<>> =>
    /\ Len(frames[p]) \in {1, 2}
    /\ active[p] \in Loggers
    /\ \A k \in 1..Len(frames[p]) : frames[p][k].log = active[p]
    /\ frames[p][Len(frames[p])].act = Under(corr[p], active[p])
    /\ Len(frames[p]) = 2 =>
         frames[p][1].act = Under(frames[p][2].saved, active[p])

(* The environment and the Loggers hold the activity they were given.      *)
RootsInv ==
  /\ env["parent"] = RootId
  /\ \A l \in Shared : root[l] = RootId
  /\ state["child"] = "none" => joined = RootId /\ root[Own] = NotCreated
  /\ state["child"] # "none" => env["child"] = joined
  /\ root[Own] \in {NotCreated, joined}

(* The outermost bind of the parent found nothing bound; a child gets at a *)
(* Logger of its parent only from below it.                                *)
BindsInv ==
  /\ active["parent"] \in Shared \cup {NoLogger}
  /\ \A i \in 1..Len(binds["parent"]) :
       binds["parent"][i] \in Shared \cup {NoLogger}
  /\ binds["parent"] = <<>> => active["parent"] = NoLogger
  /\ binds["parent"] # <<>> => binds["parent"][1] = NoLogger
  /\ active["child"] \in Shared => forkDepth >= 2
  /\ \A i \in 1..Len(binds["child"]) :
       binds["child"][i] \in Shared => forkDepth >= 2
  /\ \A e \in ledger : e.id[1] = "child" /\ e.log \in Shared => forkDepth >= 2

(* A child that was not made has done nothing.                             *)
UnbornInv ==
  state["child"] = "none" =>
    /\ active["child"] = NoLogger
    /\ binds["child"] = <<>>
    /\ frames["child"] = <<>>
    /\ \A e \in ledger : e.id[1] # "child"

(* The entries of the child in the ledger.                                 *)
ChildEntries == {e \in ledger : e.id[1] = "child"}

(* No call is in the ledger before it returns, and none twice.             *)
LedgerInv ==
  /\ IsFiniteSet(ledger)
  /\ \A e \in ledger : e.id[2] <= calls[e.id[1]]
  /\ \A p \in Processes : \A k \in 1..Len(frames[p]) :
       /\ frames[p][k].id[1] = p
       /\ frames[p][k].id[2] <= calls[p]
       /\ \A e \in ledger : e.id # frames[p][k].id
  /\ \A p \in Processes :
       Len(frames[p]) = 2 => frames[p][1].id # frames[p][2].id
  /\ calls["child"] = unbound["child"] + Len(frames["child"])
                      + Cardinality(ChildEntries)

ContextInv ==
  /\ TypeOK
  /\ FramesInv
  /\ RootsInv
  /\ BindsInv
  /\ UnbornInv
  /\ LedgerInv
  /\ ~strayed

-----------------------------------------------------------------------------
(* Sequences.                                                              *)

LEMMA FrontFacts ==
  ASSUME NEW S, NEW s \in Seq(S), s # <<>>
  PROVE  /\ Front(s) \in Seq(S)
         /\ Len(Front(s)) = Len(s) - 1
         /\ \A i \in 1..(Len(s) - 1) : Front(s)[i] = s[i]
         /\ Last(s) \in S
         /\ Last(s) = s[Len(s)]
         /\ Len(s) \in Nat \ {0}
<1>1. Len(s) \in Nat \ {0}
  BY EmptySeq
<1>2. /\ Front(s) \in Seq(S)
      /\ Len(Front(s)) = Len(s) - 1
      /\ \A i \in 1..(Len(s) - 1) : Front(s)[i] = s[i]
  <2>1. PICK n \in Nat : n = Len(s) - 1
    BY <1>1
  <2>2. 1 \in Int /\ n \in Int /\ \A i \in 1..n : s[i] \in S
    BY <1>1, <2>1
  <2>3. /\ SubSeq(s, 1, n) \in Seq(S)
        /\ Len(SubSeq(s, 1, n)) = IF 1 <= n THEN n - 1 + 1 ELSE 0
        /\ \A i \in 1..(n - 1 + 1) : SubSeq(s, 1, n)[i] = s[1 + i - 1]
    BY <2>2, SubSeqProperties
  <2>4. Front(s) = SubSeq(s, 1, n)
    BY <2>1 DEF Front
  <2>5. PICK front : front = SubSeq(s, 1, n)
    OBVIOUS
  <2>6. /\ front \in Seq(S)
        /\ Len(front) = n
        /\ \A i \in 1..n : front[i] = s[i]
    <3>1. n - 1 + 1 = n /\ \A i \in 1..n : 1 + i - 1 = i
      BY <2>1
    <3>2. (IF 1 <= n THEN n - 1 + 1 ELSE 0) = n
      BY <2>1
    <3> QED
      BY <2>3, <2>5, <3>1, <3>2, Zenon
  <2> QED
    BY <2>1, <2>4, <2>5, <2>6
<1>3. Last(s) \in S /\ Last(s) = s[Len(s)]
  BY <1>1 DEF Last
<1> QED
  BY <1>1, <1>2, <1>3

LEMMA AppendFacts ==
  ASSUME NEW S, NEW s \in Seq(S), NEW x \in S
  PROVE  /\ Append(s, x) \in Seq(S)
         /\ Append(s, x) # <<>>
         /\ Len(Append(s, x)) = Len(s) + 1
         /\ \A i \in 1..Len(s) : Append(s, x)[i] = s[i]
         /\ Append(s, x)[Len(s) + 1] = x
OBVIOUS

(* The frame of a process that is in an emission.                          *)
LEMMA TopFacts ==
  ASSUME TypeOK, NEW p \in Processes, frames[p] # <<>>
  PROVE  /\ frames[p] \in Seq(Frames)
         /\ Len(frames[p]) \in Nat \ {0}
         /\ Top(p) \in Frames
         /\ Top(p) = frames[p][Len(frames[p])]
BY FrontFacts DEF TypeOK, Top

(* A step of the emission on top leaves the frames below as they are.      *)
LEMMA OnTopFacts ==
  ASSUME TypeOK, NEW p \in Processes, frames[p] # <<>>, NEW f \in Frames,
         OnTop(p, f)
  PROVE  /\ frames' \in [Processes -> Seq(Frames)]
         /\ Len(frames'[p]) = Len(frames[p])
         /\ frames'[p][Len(frames[p])] = f
         /\ \A i \in 1..(Len(frames[p]) - 1) : frames'[p][i] = frames[p][i]
         /\ \A q \in Processes : q # p => frames'[q] = frames[q]
<1>1. /\ frames[p] \in Seq(Frames)
      /\ Front(frames[p]) \in Seq(Frames)
      /\ Len(Front(frames[p])) = Len(frames[p]) - 1
      /\ Len(frames[p]) \in Nat \ {0}
      /\ \A i \in 1..(Len(frames[p]) - 1) :
           Front(frames[p])[i] = frames[p][i]
  BY FrontFacts DEF TypeOK
<1>2. PICK g \in Seq(Frames) : g = Append(Front(frames[p]), f)
  BY <1>1, AppendFacts
<1>3. /\ Len(g) = Len(frames[p])
      /\ g[Len(frames[p])] = f
      /\ \A i \in 1..(Len(frames[p]) - 1) : g[i] = frames[p][i]
  BY <1>1, <1>2, AppendFacts
<1>4. frames' = [frames EXCEPT ![p] = g]
  BY <1>2 DEF OnTop
<1> QED
  BY <1>3, <1>4 DEF TypeOK

-----------------------------------------------------------------------------
(* The steps of an emission before its end.                                *)

Reserving(p) ==
  Claim(p) \/ Load(p) \/ Bump(p) \/ \E field \in Cached : Assign(p, field)

(* Such a step changes where the emission stands and nothing of its call.  *)
SameCall(f, g) ==
  f.log = g.log /\ f.id = g.id /\ f.act = g.act /\ f.saved = g.saved

(* What it leaves alone.                                                   *)
callVars == <<state, env, root, scopeVars, memory, calls, ledger, unbound,
              history>>

LEMMA ReservingFacts ==
  ASSUME TypeOK, NEW p \in Processes, Reserving(p)
  PROVE  /\ frames[p] # <<>>
         /\ \E f \in Frames : OnTop(p, f) /\ SameCall(f, Top(p))
         /\ UNCHANGED callVars
         /\ cursor' \in [Loggers -> Nat]
         /\ cache' \in [Processes -> [owner : Loggers \cup {NoLogger},
                                      chunk : Nat, next : Nat]]
<1>0. frames[p] # <<>> /\ UNCHANGED callVars
  BY DEF Reserving, Claim, Load, Bump, Assign, callVars
<1>1. Top(p) \in Frames
  BY <1>0, TopFacts
<1>2. cache[p] \in [owner : Loggers \cup {NoLogger}, chunk : Nat, next : Nat]
  BY DEF TypeOK
<1>3. CASE Claim(p)
  <2>0. PICK l \in Loggers : l = Top(p).log /\ cursor[l] \in Nat
    BY <1>1 DEF TypeOK, Frames
  <2>1. PICK c \in Nat : c = IF cursor[l] < ChunkCount
                            THEN cursor[l] + 1 ELSE 0
    BY <2>0, ContextAssumption
  <2>2. PICK f : f = [Top(p) EXCEPT !.pc = "assign", !.chunk = c,
                                    !.left = Cached]
    OBVIOUS
  <2>3. f \in Frames /\ SameCall(f, Top(p))
    BY <1>1, <2>2 DEF Frames, Steps, SameCall
  <2>4. OnTop(p, f)
    BY <1>3, <2>0, <2>1, <2>2, Zenon DEF Claim
  <2>5. cursor' \in [Loggers -> Nat] /\ UNCHANGED cache
    <3>1. PICK n \in Nat :
            n = IF cursor[l] < ChunkCount THEN cursor[l] + 1 ELSE cursor[l]
      BY <2>0, ContextAssumption
    <3>2. cursor' = [cursor EXCEPT ![l] = n]
      BY <1>3, <2>0, <3>1 DEF Claim
    <3> QED
      BY <1>3, <3>2 DEF Claim, TypeOK
  <2> QED
    BY <1>0, <2>3, <2>4, <2>5 DEF TypeOK
<1>4. CASE Load(p)
  <2> DEFINE fits == cache[p].chunk # 0 /\ cache[p].next <= ChunkSlots
             b == Top(p).refilled \/ ~fits
             step == IF fits THEN "bump"
                     ELSE IF Top(p).refilled THEN "drop" ELSE "claim"
  <2>0. OnTop(p, [Top(p) EXCEPT !.chunk = cache[p].chunk,
                                !.at = cache[p].next,
                                !.refilled = b, !.pc = step])
    BY <1>4, Zenon DEF Load
  <2>1. b \in BOOLEAN /\ step \in Steps
    <3>1. b \in BOOLEAN
      BY Zenon
    <3>2. step \in Steps
      BY DEF Steps
    <3> QED
      BY <3>1, <3>2
  <2> HIDE DEF b, step
  <2>2. PICK f : f = [Top(p) EXCEPT !.chunk = cache[p].chunk,
                                    !.at = cache[p].next,
                                    !.refilled = b, !.pc = step]
    OBVIOUS
  <2>3. f \in Frames /\ SameCall(f, Top(p))
    BY <1>1, <1>2, <2>1, <2>2 DEF Frames, Steps, SameCall
  <2>4. UNCHANGED <<cursor, cache>>
    BY <1>4 DEF Load
  <2> QED
    BY <1>0, <2>0, <2>2, <2>3, <2>4 DEF TypeOK
<1>5. CASE Bump(p)
  <2>1. PICK f : f = [Top(p) EXCEPT !.pc = "commit"]
    OBVIOUS
  <2>2. f \in Frames /\ SameCall(f, Top(p))
    BY <1>1, <2>1 DEF Frames, Steps, SameCall
  <2>3. OnTop(p, f) /\ UNCHANGED cursor
    BY <1>5, <2>1, Zenon DEF Bump
  <2>4. Top(p).at + 1 \in Nat
    BY <1>1 DEF Frames
  <2>5. cache' \in [Processes -> [owner : Loggers \cup {NoLogger},
                                 chunk : Nat, next : Nat]]
    BY <1>2, <1>5, <2>4 DEF Bump, TypeOK
  <2> QED
    BY <1>0, <2>2, <2>3, <2>5 DEF TypeOK
<1>6. ASSUME NEW field \in Cached, Assign(p, field)
      PROVE  /\ \E f \in Frames : OnTop(p, f) /\ SameCall(f, Top(p))
             /\ UNCHANGED cursor
             /\ cache' \in [Processes -> [owner : Loggers \cup {NoLogger},
                                          chunk : Nat, next : Nat]]
  <2>1. PICK f : f = [Top(p) EXCEPT
                   !.left = @ \ {field},
                   !.pc = IF Top(p).left = {field} THEN "load" ELSE "assign"]
    OBVIOUS
  <2>2. f \in Frames /\ SameCall(f, Top(p))
    BY <1>1, <2>1 DEF Frames, Steps, SameCall
  <2>3. OnTop(p, f) /\ UNCHANGED cursor
    BY <1>6, <2>1, Zenon DEF Assign
  <2>4. Top(p).chunk \in Nat /\ Top(p).log \in Loggers
    BY <1>1 DEF Frames
  <2>5. CASE field = "chunk"
    <3>1. cache' = [cache EXCEPT ![p].chunk = Top(p).chunk]
      BY <1>6, <2>5 DEF Assign
    <3> QED
      BY <1>2, <2>2, <2>3, <2>4, <3>1 DEF TypeOK
  <2>6. CASE field = "next"
    <3>1. cache' = [cache EXCEPT ![p].next = 1]
      BY <1>6, <2>6 DEF Assign
    <3> QED
      BY <1>2, <2>2, <2>3, <3>1 DEF TypeOK
  <2>7. CASE field = "owner"
    <3>1. cache' = [cache EXCEPT ![p].owner = Top(p).log]
      BY <1>6, <2>7 DEF Assign
    <3> QED
      BY <1>2, <2>2, <2>3, <2>4, <3>1 DEF TypeOK
  <2> QED
    BY <2>5, <2>6, <2>7 DEF Cached
<1>7. cursor \in [Loggers -> Nat]
  BY DEF TypeOK
<1> QED
  BY <1>0, <1>3, <1>4, <1>5, <1>6, <1>7 DEF Reserving

(* No call changes and no emission begins or ends.                         *)
SameCalls ==
  \A q \in Processes :
    /\ Len(frames'[q]) = Len(frames[q])
    /\ \A k \in 1..Len(frames[q]) : SameCall(frames'[q][k], frames[q][k])

LEMMA EmptyFrames ==
  ASSUME NEW f \in Seq(Frames)
  PROVE  (f = <<>>) <=> (Len(f) = 0)
BY EmptySeq

LEMMA ReservingType ==
  ASSUME TypeOK, NEW p \in Processes, Reserving(p)
  PROVE  TypeOK' /\ SameCalls
<1>1. /\ frames[p] # <<>>
      /\ UNCHANGED callVars
      /\ cursor' \in [Loggers -> Nat]
      /\ cache' \in [Processes -> [owner : Loggers \cup {NoLogger},
                                   chunk : Nat, next : Nat]]
  BY ReservingFacts
<1>2. PICK f \in Frames : OnTop(p, f) /\ SameCall(f, Top(p))
  BY ReservingFacts
<1>3. /\ frames' \in [Processes -> Seq(Frames)]
      /\ Len(frames'[p]) = Len(frames[p])
      /\ frames'[p][Len(frames[p])] = f
      /\ \A i \in 1..(Len(frames[p]) - 1) : frames'[p][i] = frames[p][i]
      /\ \A q \in Processes : q # p => frames'[q] = frames[q]
  BY <1>1, <1>2, OnTopFacts
<1>4. TypeOK'
  BY <1>1, <1>3 DEF TypeOK, callVars, scopeVars, history
<1>5. /\ Top(p) = frames[p][Len(frames[p])]
      /\ Len(frames[p]) \in Nat \ {0}
  BY <1>1, TopFacts
<1>6. \A k \in 1..Len(frames[p]) : SameCall(frames'[p][k], frames[p][k])
  <2> SUFFICES ASSUME NEW k \in 1..Len(frames[p])
               PROVE  SameCall(frames'[p][k], frames[p][k])
    OBVIOUS
  <2>1. CASE k = Len(frames[p])
    BY <1>2, <1>3, <1>5, <2>1
  <2>2. CASE k # Len(frames[p])
    <3>1. frames'[p][k] = frames[p][k]
      BY <1>3, <1>5, <2>2
    <3> QED
      BY <3>1 DEF SameCall
  <2> QED
    BY <2>1, <2>2
<1>7. \A q \in Processes : q # p =>
        /\ Len(frames'[q]) = Len(frames[q])
        /\ \A k \in 1..Len(frames[q]) : SameCall(frames'[q][k], frames[q][k])
  BY <1>3 DEF SameCall
<1> QED
  BY <1>3, <1>4, <1>6, <1>7 DEF SameCalls

LEMMA ReservingStep ==
  ASSUME ContextInv, NEW p \in Processes, Reserving(p)
  PROVE  ContextInv'
<1>1. TypeOK' /\ SameCalls /\ UNCHANGED callVars
  BY ReservingType, ReservingFacts DEF ContextInv
<1>2. \A q \in Processes :
        /\ frames[q] \in Seq(Frames) /\ frames'[q] \in Seq(Frames)
        /\ Len(frames[q]) \in Nat
        /\ frames'[q] = <<>> <=> frames[q] = <<>>
  <2>1. \A q \in Processes :
          frames[q] \in Seq(Frames) /\ frames'[q] \in Seq(Frames)
    BY <1>1 DEF TypeOK, ContextInv
  <2>2. \A q \in Processes : Len(frames'[q]) = Len(frames[q])
    BY <1>1 DEF SameCalls
  <2> QED
    BY <2>1, <2>2, EmptyFrames
<1>0. /\ state' = state /\ env' = env /\ root' = root
      /\ active' = active /\ binds' = binds /\ corr' = corr
      /\ calls' = calls /\ ledger' = ledger /\ unbound' = unbound
      /\ forkDepth' = forkDepth /\ joined' = joined /\ strayed' = strayed
  <2>1. UNCHANGED callVars
    BY <1>1
  <2> QED
    BY <2>1 DEF callVars, scopeVars, history
<1>3. FramesInv'
  <2> SUFFICES ASSUME NEW q \in Processes, frames[q] # <<>>
               PROVE  /\ Len(frames'[q]) \in {1, 2}
                      /\ active[q] \in Loggers
                      /\ \A k \in 1..Len(frames'[q]) :
                           frames'[q][k].log = active[q]
                      /\ frames'[q][Len(frames'[q])].act =
                           Under(corr[q], active[q])
                      /\ Len(frames'[q]) = 2 =>
                           frames'[q][1].act =
                             Under(frames'[q][2].saved, active[q])
    BY <1>0, <1>2 DEF FramesInv, Under
  <2>1. /\ Len(frames[q]) \in {1, 2}
        /\ active[q] \in Loggers
        /\ \A k \in 1..Len(frames[q]) : frames[q][k].log = active[q]
        /\ frames[q][Len(frames[q])].act = Under(corr[q], active[q])
        /\ Len(frames[q]) = 2 =>
             frames[q][1].act = Under(frames[q][2].saved, active[q])
    BY DEF ContextInv, FramesInv
  <2>2. /\ Len(frames'[q]) = Len(frames[q])
        /\ \A k \in 1..Len(frames[q]) :
             SameCall(frames'[q][k], frames[q][k])
    BY <1>1 DEF SameCalls
  <2> QED
    BY <2>1, <2>2 DEF SameCall
<1>4. RootsInv' /\ BindsInv' /\ ~strayed'
  <2>1. RootsInv'
    BY <1>0 DEF ContextInv, RootsInv
  <2>2. BindsInv'
    BY <1>0 DEF ContextInv, BindsInv
  <2> QED
    BY <1>0, <2>1, <2>2 DEF ContextInv
<1>5. UnbornInv'
  BY <1>1, <1>2 DEF ContextInv, UnbornInv, callVars, scopeVars, Processes
<1>6. LedgerInv'
  <2>1. UNCHANGED <<ledger, calls, unbound, ChildEntries>>
    BY <1>1 DEF callVars, ChildEntries
  <2>2. \A q \in Processes : \A k \in 1..Len(frames[q]) :
          frames'[q][k].id = frames[q][k].id
    BY <1>1 DEF SameCalls, SameCall
  <2>3. \A q \in Processes : Len(frames'[q]) = Len(frames[q])
    BY <1>1 DEF SameCalls
  <2>4. \A q \in Processes : \A k \in 1..Len(frames'[q]) :
          /\ frames'[q][k].id[1] = q
          /\ frames'[q][k].id[2] <= calls[q]
          /\ \A e \in ledger : e.id # frames'[q][k].id
    BY <2>2, <2>3 DEF ContextInv, LedgerInv
  <2>5. \A q \in Processes :
          Len(frames'[q]) = 2 => frames'[q][1].id # frames'[q][2].id
    BY <2>2, <2>3 DEF ContextInv, LedgerInv
  <2>6. Len(frames'["child"]) = Len(frames["child"])
    BY <2>3 DEF Processes
  <2> QED
    BY <2>1, <2>4, <2>5, <2>6 DEF ContextInv, LedgerInv
<1> QED
  BY <1>1, <1>3, <1>4, <1>5, <1>6 DEF ContextInv

-----------------------------------------------------------------------------
(* Scopes.                                                                 *)

(* A step that leaves emissions alone, of a process without one.           *)
LEMMA IdleFrames ==
  ASSUME ContextInv, NEW p \in Processes, frames[p] = <<>>,
         UNCHANGED <<frames, root>>,
         \A q \in Processes : q # p => /\ active'[q] = active[q]
                                       /\ corr'[q] = corr[q]
  PROVE  FramesInv'
BY DEF ContextInv, FramesInv, Under

LEMMA SameLedger ==
  ASSUME ContextInv, UNCHANGED <<frames, ledger, calls, unbound>>
  PROVE  LedgerInv'
<1>1. UNCHANGED ChildEntries
  BY DEF ChildEntries
<1> QED
  BY <1>1 DEF ContextInv, LedgerInv

LEMMA EnterBindStep ==
  ASSUME ContextInv, NEW p \in Processes, NEW l \in Loggers, EnterBind(p, l)
  PROVE  ContextInv'
<1>1. /\ frames[p] = <<>>
      /\ binds[p] \in Seq(Loggers \cup {NoLogger})
      /\ active[p] \in Loggers \cup {NoLogger}
      /\ state[p] # "none"
  BY DEF EnterBind, Idle, Runs, ContextInv, TypeOK
<1>2. PICK b \in Seq(Loggers \cup {NoLogger}) : b = Append(binds[p], active[p])
  BY <1>1, AppendFacts
<1>3. /\ Len(b) = Len(binds[p]) + 1 /\ b # <<>>
      /\ \A i \in 1..Len(binds[p]) : b[i] = binds[p][i]
      /\ b[Len(binds[p]) + 1] = active[p]
      /\ Len(binds[p]) \in Nat
      /\ binds[p] = <<>> <=> Len(binds[p]) = 0
  BY <1>1, <1>2, AppendFacts, EmptySeq
<1>4. /\ binds' = [binds EXCEPT ![p] = b]
      /\ active' = [active EXCEPT ![p] = l]
      /\ IF p = "parent" THEN l \in Shared ELSE l = Own
      /\ UNCHANGED <<state, env, root, detached, corr, corrs, cache, frames,
                     cursor, memory, calls, ledger, unbound, history>>
  BY <1>2 DEF EnterBind
<1>5. TypeOK'
  BY <1>4 DEF ContextInv, TypeOK, history
<1>6. FramesInv'
  BY <1>1, <1>4, IdleFrames DEF ContextInv, TypeOK
<1>7. RootsInv' /\ ~strayed'
  BY <1>4 DEF ContextInv, RootsInv, history
<1>8. BindsInv'
  <2>1. CASE p = "parent"
    <3>1. /\ binds'["parent"] = b /\ active'["parent"] = l
          /\ binds'["child"] = binds["child"]
          /\ active'["child"] = active["child"]
          /\ l \in Shared
      BY <1>4, <2>1 DEF ContextInv, TypeOK, Processes
    <3>2. \A i \in 1..Len(b) : b[i] \in Shared \cup {NoLogger}
      BY <1>3, <2>1 DEF ContextInv, BindsInv
    <3>3. b[1] = NoLogger
      BY <1>3, <2>1 DEF ContextInv, BindsInv
    <3> QED
      BY <1>3, <1>4, <3>1, <3>2, <3>3 DEF ContextInv, BindsInv, history
  <2>2. CASE p = "child"
    <3>1. /\ binds'["child"] = b /\ active'["child"] = Own
          /\ binds'["parent"] = binds["parent"]
          /\ active'["parent"] = active["parent"]
      BY <1>4, <2>2 DEF ContextInv, TypeOK, Processes
    <3>2. \A i \in 1..Len(b) : b[i] \in Shared => forkDepth >= 2
      BY <1>3, <2>2 DEF ContextInv, BindsInv
    <3> QED
      BY <1>4, <3>1, <3>2, ContextAssumption
         DEF ContextInv, BindsInv, history
  <2> QED
    BY <2>1, <2>2 DEF Processes
<1>9. UnbornInv'
  BY <1>1, <1>4 DEF ContextInv, TypeOK, UnbornInv, Processes
<1>10. LedgerInv'
  BY <1>4, SameLedger
<1> QED
  BY <1>5, <1>6, <1>7, <1>8, <1>9, <1>10 DEF ContextInv

LEMMA LeaveBindStep ==
  ASSUME ContextInv, NEW p \in Processes, LeaveBind(p)
  PROVE  ContextInv'
<1>1. /\ frames[p] = <<>>
      /\ binds[p] \in Seq(Loggers \cup {NoLogger})
      /\ binds[p] # <<>>
      /\ state[p] # "none"
  BY DEF LeaveBind, Idle, Runs, ContextInv, TypeOK
<1>2. PICK b \in Seq(Loggers \cup {NoLogger}), l \in Loggers \cup {NoLogger} :
        b = Front(binds[p]) /\ l = Last(binds[p])
  BY <1>1, FrontFacts
<1>3. /\ Len(b) = Len(binds[p]) - 1
      /\ \A i \in 1..(Len(binds[p]) - 1) : b[i] = binds[p][i]
      /\ l = binds[p][Len(binds[p])]
      /\ Len(binds[p]) \in Nat \ {0}
      /\ b = <<>> <=> Len(b) = 0
  BY <1>1, <1>2, FrontFacts, EmptySeq
<1>4. /\ binds' = [binds EXCEPT ![p] = b]
      /\ active' = [active EXCEPT ![p] = l]
      /\ UNCHANGED <<state, env, root, detached, corr, corrs, cache, frames,
                     cursor, memory, calls, ledger, unbound, history>>
  BY <1>2 DEF LeaveBind
<1>5. TypeOK'
  BY <1>4 DEF ContextInv, TypeOK, history
<1>6. FramesInv'
  BY <1>1, <1>4, IdleFrames DEF ContextInv, TypeOK
<1>7. RootsInv' /\ ~strayed'
  BY <1>4 DEF ContextInv, RootsInv, history
<1>8. BindsInv'
  <2>1. CASE p = "parent"
    <3>1. /\ binds'["parent"] = b /\ active'["parent"] = l
          /\ binds'["child"] = binds["child"]
          /\ active'["child"] = active["child"]
      BY <1>4, <2>1 DEF ContextInv, TypeOK, Processes
    <3>2. /\ \A i \in 1..Len(b) : b[i] \in Shared \cup {NoLogger}
          /\ l \in Shared \cup {NoLogger}
      BY <1>3, <2>1 DEF ContextInv, BindsInv
    <3>3. /\ b = <<>> => l = NoLogger
          /\ b # <<>> => b[1] = NoLogger
      BY <1>1, <1>3, <2>1 DEF ContextInv, BindsInv
    <3> QED
      BY <1>4, <3>1, <3>2, <3>3 DEF ContextInv, BindsInv, history
  <2>2. CASE p = "child"
    <3>1. /\ binds'["child"] = b /\ active'["child"] = l
          /\ binds'["parent"] = binds["parent"]
          /\ active'["parent"] = active["parent"]
      BY <1>4, <2>2 DEF ContextInv, TypeOK, Processes
    <3>2. /\ \A i \in 1..Len(b) : b[i] \in Shared => forkDepth >= 2
          /\ l \in Shared => forkDepth >= 2
      BY <1>3, <2>2 DEF ContextInv, BindsInv
    <3> QED
      BY <1>4, <3>1, <3>2 DEF ContextInv, BindsInv, history
  <2> QED
    BY <2>1, <2>2 DEF Processes
<1>9. UnbornInv'
  BY <1>1, <1>4 DEF ContextInv, TypeOK, UnbornInv, Processes
<1>10. LedgerInv'
  BY <1>4, SameLedger
<1> QED
  BY <1>5, <1>6, <1>7, <1>8, <1>9, <1>10 DEF ContextInv

(* Entering and leaving a correlation scope.                               *)
LEMMA ScopeStep ==
  ASSUME ContextInv, NEW p \in Processes, frames[p] = <<>>,
         NEW n \in Nat, NEW c \in Seq(Nat),
         corr' = [corr EXCEPT ![p] = n], corrs' = [corrs EXCEPT ![p] = c],
         UNCHANGED <<state, env, root, active, detached, binds, cache, frames,
                     cursor, memory, calls, ledger, unbound, history>>
  PROVE  ContextInv'
<1>1. TypeOK'
  BY DEF ContextInv, TypeOK, history
<1>2. FramesInv'
  BY IdleFrames DEF ContextInv, TypeOK
<1>3. RootsInv' /\ BindsInv' /\ UnbornInv' /\ ~strayed'
  BY DEF ContextInv, RootsInv, BindsInv, UnbornInv, history
<1>4. LedgerInv'
  BY SameLedger
<1> QED
  BY <1>1, <1>2, <1>3, <1>4 DEF ContextInv

LEMMA EnterScopeStep ==
  ASSUME ContextInv, NEW p \in Processes, NEW id \in ScopeIds,
         EnterScope(p, id)
  PROVE  ContextInv'
<1>1. /\ frames[p] = <<>> /\ corrs[p] \in Seq(Nat) /\ corr[p] \in Nat
      /\ id \in Nat
  BY ContextAssumption DEF EnterScope, Idle, ContextInv, TypeOK
<1>2. Append(corrs[p], corr[p]) \in Seq(Nat)
  BY <1>1, AppendFacts
<1> QED
  BY <1>1, <1>2, ScopeStep DEF EnterScope

LEMMA LeaveScopeStep ==
  ASSUME ContextInv, NEW p \in Processes, LeaveScope(p)
  PROVE  ContextInv'
<1>1. frames[p] = <<>> /\ corrs[p] \in Seq(Nat) /\ corrs[p] # <<>>
  BY DEF LeaveScope, Idle, ContextInv, TypeOK
<1>2. Front(corrs[p]) \in Seq(Nat) /\ Last(corrs[p]) \in Nat
  BY <1>1, FrontFacts
<1> QED
  BY <1>1, <1>2, ScopeStep DEF LeaveScope

-----------------------------------------------------------------------------
(* Processes.                                                              *)

LEMMA ForkStep ==
  ASSUME ContextInv, Fork
  PROVE  ContextInv'
<1>1. /\ frames["parent"] = <<>> /\ frames["child"] = <<>>
      /\ state["child"] = "none"
      /\ "parent" \in Processes /\ "child" \in Processes
  BY DEF Fork, Idle, ContextInv, UnbornInv, Processes
<1>3. TypeOK'
  <2>1. Len(binds["parent"]) \in Nat
    BY <1>1 DEF ContextInv, TypeOK
  <2> QED
    BY <1>1, <2>1 DEF Fork, detachForFork, ContextInv, TypeOK
<1>4. FramesInv'
  BY <1>1, IdleFrames DEF Fork, ContextInv, TypeOK
<1>5. RootsInv' /\ ~strayed'
  <2>1. env'["parent"] = RootId /\ env'["child"] = RootId
    BY <1>1 DEF Fork, ContextInv, TypeOK, RootsInv
  <2>2. state'["child"] = "forked"
    BY <1>1 DEF Fork, ContextInv, TypeOK
  <2> QED
    BY <1>1, <2>1, <2>2 DEF Fork, ContextInv, RootsInv
<1>6. BindsInv'
  <2>1. /\ active'["parent"] = active["parent"]
        /\ active'["child"] = NoLogger
        /\ binds'["parent"] = binds["parent"]
        /\ binds'["child"] = binds["parent"]
    BY <1>1 DEF Fork, detachForFork, ContextInv, TypeOK
  <2>2. NoLogger \notin Shared
    BY ContextAssumption DEF Loggers
  <2>3. \A i \in 1..Len(binds["parent"]) :
          binds["parent"][i] \in Shared => Len(binds["parent"]) >= 2
    <3>1. Len(binds["parent"]) \in Nat
      BY <1>1 DEF ContextInv, TypeOK
    <3>2. binds["parent"] # <<>> => binds["parent"][1] = NoLogger
      BY DEF ContextInv, BindsInv
    <3>3. binds["parent"] = <<>> => Len(binds["parent"]) = 0
      OBVIOUS
    <3> QED
      BY <2>2, <3>1, <3>2, <3>3
  <2>4. \A e \in ledger' : e.id[1] # "child"
    BY <1>1 DEF Fork, ContextInv, UnbornInv
  <2> QED
    BY <2>1, <2>2, <2>3, <2>4 DEF Fork, ContextInv, BindsInv
<1>7. UnbornInv'
  BY <1>1 DEF Fork, ContextInv, TypeOK, UnbornInv
<1>8. LedgerInv'
  BY SameLedger DEF Fork
<1> QED
  BY <1>3, <1>4, <1>5, <1>6, <1>7, <1>8 DEF ContextInv

LEMMA SpawnStep ==
  ASSUME ContextInv, NEW propagate \in BOOLEAN, Spawn(propagate)
  PROVE  ContextInv'
<1>1. /\ state["child"] = "none"
      /\ "parent" \in Processes /\ "child" \in Processes
      /\ corr["parent"] \in Nat /\ RootId \in Nat
      /\ env["parent"] = RootId
  BY ContextAssumption DEF Spawn, ContextInv, TypeOK, RootsInv, Processes
<1>2. corr["parent"] = 0 => HandOver \in {0, RootId}
  BY DEF HandOver, ContextInv, BindsInv, RootsInv
<1>3. corr["parent"] # 0 => HandOver = corr["parent"]
  BY DEF HandOver
<1>4. PICK n \in Nat :
        /\ n = IF propagate /\ HandOver # 0 THEN HandOver ELSE env["parent"]
        /\ n = IF propagate /\ corr["parent"] # 0 THEN corr["parent"]
                                                  ELSE RootId
  BY <1>1, <1>2, <1>3
<1>5. /\ env' = [env EXCEPT !["child"] = n]
      /\ joined' = n
      /\ state' = [state EXCEPT !["child"] = "running"]
      /\ UNCHANGED <<root, scopeVars, cache, frames, cursor, memory, calls,
                     ledger, unbound, torn, forkDepth, strayed>>
  BY <1>4 DEF Spawn
<1>6. UNCHANGED <<active, detached, binds, corr, corrs>>
  BY <1>5 DEF scopeVars
<1>7. TypeOK'
  BY <1>1, <1>5, <1>6 DEF ContextInv, TypeOK
<1>8. FramesInv'
  BY <1>5, <1>6 DEF ContextInv, FramesInv, Under
<1>9. RootsInv'
  <2>1. env'["parent"] = RootId /\ env'["child"] = n
    BY <1>1, <1>5 DEF ContextInv, TypeOK
  <2>2. state'["child"] = "running" /\ root[Own] = NotCreated
    BY <1>1, <1>5 DEF ContextInv, TypeOK, RootsInv
  <2> QED
    BY <1>5, <2>1, <2>2 DEF ContextInv, RootsInv
<1>10. BindsInv' /\ ~strayed'
  BY <1>5, <1>6 DEF ContextInv, BindsInv
<1>11. UnbornInv'
  BY <1>1, <1>5 DEF ContextInv, TypeOK, UnbornInv
<1>12. LedgerInv'
  BY <1>5, SameLedger
<1> QED
  BY <1>7, <1>8, <1>9, <1>10, <1>11, <1>12 DEF ContextInv

LEMMA CreateStep ==
  ASSUME ContextInv, Create
  PROVE  ContextInv'
<1>1. /\ frames["child"] = <<>>
      /\ state["child"] # "none"
      /\ "parent" \in Processes /\ "child" \in Processes
      /\ Own \in Loggers
      /\ env["child"] = joined /\ env["child"] \in Nat
  BY DEF Create, Idle, Runs, Processes, Loggers, ContextInv, RootsInv, TypeOK
<1>2. /\ root' = [root EXCEPT ![Own] = joined]
      /\ UNCHANGED <<state, env, active, binds, corr, corrs, cache, frames,
                     cursor, memory, calls, ledger, unbound, history>>
  BY <1>1 DEF Create
<1>3. TypeOK'
  BY <1>1, <1>2 DEF Create, ContextInv, TypeOK, history
<1>4. \A l \in Shared : root'[l] = root[l]
  BY <1>2, ContextAssumption DEF ContextInv, TypeOK, Loggers
<1>5. FramesInv'
  <2> SUFFICES ASSUME NEW q \in Processes, frames[q] # <<>>
               PROVE  root'[active[q]] = root[active[q]]
    BY <1>2 DEF ContextInv, FramesInv, Under
  <2>1. q = "parent"
    BY <1>1 DEF Processes
  <2>2. active[q] \in Shared
    BY <2>1, ContextAssumption DEF ContextInv, FramesInv, BindsInv
  <2> QED
    BY <1>4, <2>2
<1>6. RootsInv'
  <2>1. root'[Own] = joined
    BY <1>1, <1>2 DEF ContextInv, TypeOK
  <2> QED
    BY <1>1, <1>2, <1>4, <2>1 DEF ContextInv, RootsInv, history
<1>7. BindsInv' /\ UnbornInv' /\ ~strayed'
  BY <1>1, <1>2 DEF ContextInv, BindsInv, UnbornInv, history
<1>8. LedgerInv'
  BY <1>2, SameLedger
<1> QED
  BY <1>3, <1>5, <1>6, <1>7, <1>8 DEF ContextInv

-----------------------------------------------------------------------------
(* Calls.                                                                  *)

LEMMA FrameFacts ==
  ASSUME ContextInv, NEW p \in Processes, active[p] \in Loggers,
         NEW id \in Nat
  PROVE  /\ Frame(p, id) \in Frames
         /\ Frame(p, id).log = active[p]
         /\ Frame(p, id).id = <<p, calls[p] + 1>>
         /\ Frame(p, id).act = Under(id, active[p])
         /\ Frame(p, id).saved = corr[p]
<1>1. PICK step \in Steps :
        step = IF cache[p].owner = active[p] THEN "load" ELSE "claim"
  BY DEF Steps
<1>2. PICK act \in Int : act = IF id # 0 THEN id ELSE root[active[p]]
  <2>1. root[active[p]] \in Nat \cup {NotCreated}
    BY DEF ContextInv, TypeOK
  <2>2. root[active[p]] \in Int
    BY <2>1 DEF NotCreated
  <2> QED
    BY <2>2
<1>3. PICK n \in Nat, c \in Nat : n = calls[p] + 1 /\ c = corr[p]
  BY DEF ContextInv, TypeOK
<1>4. PICK i \in Processes \X Nat : i = <<p, n>>
  OBVIOUS
<1>5. Frame(p, id) = [pc |-> step, log |-> active[p], refilled |-> FALSE,
                      chunk |-> 0, at |-> 0, left |-> {}, id |-> i,
                      act |-> act, saved |-> c]
  BY <1>1, <1>2, <1>3, <1>4, Zenon DEF Frame
<1> QED
  BY <1>1, <1>2, <1>3, <1>4, <1>5 DEF Frames, Under

LEMMA FrameIds ==
  ASSUME TypeOK
  PROVE  \A q \in Processes : \A k \in 1..Len(frames[q]) :
           frames[q][k] \in Frames /\ frames[q][k].id[2] \in Nat
<1> SUFFICES ASSUME NEW q \in Processes, NEW k \in 1..Len(frames[q])
             PROVE  frames[q][k] \in Frames /\ frames[q][k].id[2] \in Nat
  OBVIOUS
<1>1. frames[q] \in Seq(Frames)
  BY DEF TypeOK
<1>2. frames[q][k] \in Frames
  BY <1>1
<1> QED
  BY <1>2 DEF Frames

(* An emission begins, with nothing or an interrupted one below it.        *)
LEMMA BeginStep ==
  ASSUME ContextInv, NEW p \in Processes, state[p] # "none",
         active[p] \in Loggers, NEW id \in Nat, NEW g \in Seq(Frames),
         Len(frames[p]) \in {0, 1},
         g = Append(frames[p], Frame(p, id)),
         frames' = [frames EXCEPT ![p] = g],
         calls' = [calls EXCEPT ![p] = @ + 1],
         corr' = [corr EXCEPT ![p] = id],
         torn' \in BOOLEAN,
         UNCHANGED <<state, env, root, active, detached, binds, corrs, cache,
                     cursor, memory, ledger, unbound, forkDepth, joined,
                     strayed>>
  PROVE  ContextInv'
<1> DEFINE f == Frame(p, id)
<1>1. /\ f \in Frames /\ f.log = active[p] /\ f.id = <<p, calls[p] + 1>>
      /\ f.act = Under(id, active[p]) /\ f.saved = corr[p]
  BY FrameFacts
<1>2. frames[p] \in Seq(Frames) /\ calls[p] \in Nat /\ calls[p] + 1 \in Nat
  BY DEF ContextInv, TypeOK
<1> HIDE DEF f
<1>3. /\ Len(g) = Len(frames[p]) + 1 /\ g # <<>>
      /\ \A i \in 1..Len(frames[p]) : g[i] = frames[p][i]
      /\ g[Len(frames[p]) + 1] = f
  BY <1>1, <1>2, AppendFacts DEF f
<1>4. TypeOK'
  BY <1>2 DEF ContextInv, TypeOK
<1>5. /\ frames'[p] = g /\ calls'[p] = calls[p] + 1 /\ corr'[p] = id
      /\ \A q \in Processes : q # p => /\ frames'[q] = frames[q]
                                       /\ calls'[q] = calls[q]
                                       /\ corr'[q] = corr[q]
  BY DEF ContextInv, TypeOK
<1>6. FramesInv'
  <2>1. ASSUME NEW q \in Processes, q # p, frames[q] # <<>>
        PROVE  /\ Len(frames[q]) \in {1, 2}
               /\ active[q] \in Loggers
               /\ \A k \in 1..Len(frames[q]) : frames[q][k].log = active[q]
               /\ frames[q][Len(frames[q])].act = Under(corr'[q], active[q])
               /\ Len(frames[q]) = 2 =>
                    frames[q][1].act = Under(frames[q][2].saved, active[q])
    BY <1>5, <2>1 DEF ContextInv, FramesInv
  <2>2. Len(g) \in {1, 2} /\ g[Len(g)].act = Under(id, active[p])
    BY <1>1, <1>3
  <2>3. \A k \in 1..Len(g) : g[k].log = active[p]
    <3>1. \A k \in 1..Len(frames[p]) : frames[p][k].log = active[p]
      BY DEF ContextInv, FramesInv
    <3> QED
      BY <1>1, <1>3, <3>1
  <2>4. Len(g) = 2 => g[1].act = Under(g[2].saved, active[p])
    <3> SUFFICES ASSUME Len(g) = 2
                 PROVE  g[1].act = Under(g[2].saved, active[p])
      OBVIOUS
    <3>1. Len(frames[p]) = 1 /\ frames[p] # <<>>
      BY <1>3
    <3>2. frames[p][1].act = Under(corr[p], active[p])
      BY <3>1 DEF ContextInv, FramesInv
    <3>3. g[1] = frames[p][1] /\ g[2] = f
      BY <1>3, <3>1
    <3> QED
      BY <1>1, <3>2, <3>3
  <2> QED
    BY <1>5, <2>1, <2>2, <2>3, <2>4 DEF FramesInv, Under
<1>7. RootsInv' /\ BindsInv' /\ ~strayed'
  BY DEF ContextInv, RootsInv, BindsInv
<1>8. UnbornInv'
  <2>1. state["child"] = "none" => p # "child"
    OBVIOUS
  <2> QED
    BY <1>5, <2>1 DEF ContextInv, UnbornInv, Processes
<1>9. LedgerInv'
  <2>1. ChildEntries' = ChildEntries
    BY DEF ChildEntries
  <2>2. /\ IsFiniteSet(ledger)
        /\ ledger \subseteq [id : Processes \X Nat, log : Loggers,
                             dropped : BOOLEAN, handler : BOOLEAN]
    BY DEF ContextInv, LedgerInv, TypeOK
  <2>3. \A q \in Processes : calls[q] \in Nat /\ calls'[q] \in Nat
                             /\ calls[q] <= calls'[q]
    <3>1. \A q \in Processes : calls[q] \in Nat
      BY DEF ContextInv, TypeOK
    <3> QED
      BY <1>2, <1>5, <3>1
  <2>4. \A e \in ledger : e.id[1] \in Processes /\ e.id[2] \in Nat
                          /\ e.id[2] <= calls[e.id[1]]
    BY <2>2 DEF ContextInv, LedgerInv
  <2>5. \A e \in ledger : e.id[2] <= calls'[e.id[1]]
    BY <2>3, <2>4
  <2>6. \A e \in ledger : e.id # f.id
    <3> SUFFICES ASSUME NEW e \in ledger, e.id = f.id
                 PROVE  FALSE
      OBVIOUS
    <3>1. e.id[1] = p /\ e.id[2] = calls[p] + 1
      BY <1>1
    <3> QED
      BY <1>2, <2>4, <3>1
  <2>7. \A q \in Processes : \A k \in 1..Len(frames[q]) :
          /\ frames[q][k] \in Frames
          /\ frames[q][k].id[1] = q
          /\ frames[q][k].id[2] \in Nat
          /\ frames[q][k].id[2] <= calls[q]
          /\ \A e \in ledger : e.id # frames[q][k].id
    BY FrameIds DEF ContextInv, LedgerInv
  <2>8. f.id[1] = p /\ f.id[2] = calls[p] + 1
    BY <1>1
  <2>9. \A k \in 1..Len(g) :
          /\ g[k].id[1] = p
          /\ g[k].id[2] <= calls'[p]
          /\ \A e \in ledger : e.id # g[k].id
    BY <1>2, <1>3, <1>5, <2>6, <2>7, <2>8
  <2>10. Len(g) = 2 => g[1].id # g[2].id
    <3> SUFFICES ASSUME Len(g) = 2
                 PROVE  g[1].id # g[2].id
      OBVIOUS
    <3>1. g[1] = frames[p][1] /\ g[2] = f /\ 1 \in 1..Len(frames[p])
      BY <1>3
    <3>2. g[1].id[2] \in Nat /\ g[1].id[2] <= calls[p]
      BY <2>7, <3>1
    <3> QED
      BY <1>2, <2>8, <3>1, <3>2
  <2>11. /\ \A q \in Processes : \A k \in 1..Len(frames'[q]) :
              /\ frames'[q][k].id[1] = q
              /\ frames'[q][k].id[2] <= calls'[q]
              /\ \A e \in ledger : e.id # frames'[q][k].id
         /\ \A q \in Processes :
              Len(frames'[q]) = 2 => frames'[q][1].id # frames'[q][2].id
    BY <1>5, <2>7, <2>9, <2>10 DEF ContextInv, LedgerInv
  <2>12. calls'["child"] = unbound["child"] + Len(frames'["child"])
                           + Cardinality(ChildEntries)
    <3>1. calls["child"] = unbound["child"] + Len(frames["child"])
                           + Cardinality(ChildEntries)
      BY DEF ContextInv, LedgerInv
    <3>2. IsFiniteSet(ChildEntries)
      BY <2>2, FS_Subset DEF ChildEntries
    <3>3. /\ Cardinality(ChildEntries) \in Nat /\ unbound["child"] \in Nat
          /\ Len(frames["child"]) \in Nat
      BY <3>2, FS_CardinalityType DEF ContextInv, TypeOK, Processes
    <3>4. CASE p = "child"
      BY <1>3, <1>5, <3>1, <3>3, <3>4
    <3>5. CASE p # "child"
      BY <1>5, <3>1, <3>5 DEF Processes
    <3> QED
      BY <3>4, <3>5
  <2> QED
    BY <2>1, <2>2, <2>5, <2>11, <2>12 DEF LedgerInv
<1> QED
  BY <1>4, <1>6, <1>7, <1>8, <1>9 DEF ContextInv

LEMMA CallStep ==
  ASSUME ContextInv, NEW p \in Processes, Call(p)
  PROVE  ContextInv'
<1>1. /\ frames[p] = <<>> /\ state[p] # "none"
      /\ active[p] \in Loggers \cup {NoLogger}
      /\ corr[p] \in Nat /\ calls[p] \in Nat /\ unbound[p] \in Nat
      /\ calls' = [calls EXCEPT ![p] = @ + 1]
      /\ UNCHANGED <<state, env, root, active, detached, binds, corr, corrs,
                     cache, cursor, memory, ledger, torn, forkDepth, joined,
                     strayed>>
  BY DEF Call, Idle, Runs, ContextInv, TypeOK, scopeVars, history
<1>2. CASE active[p] # NoLogger
  <2>1. active[p] \in Loggers
    BY <1>1, <1>2
  <2>2. /\ frames' = [frames EXCEPT ![p] = <<Frame(p, corr[p])>>]
        /\ UNCHANGED unbound
    BY <1>2 DEF Call
  <2>3. Frame(p, corr[p]) \in Frames
    BY <1>1, <2>1, FrameFacts
  <2>4. PICK g \in Seq(Frames) : g = Append(frames[p], Frame(p, corr[p]))
    BY <1>1, <2>3, AppendFacts DEF ContextInv, TypeOK
  <2>5. g = <<Frame(p, corr[p])>>
    BY <1>1, <2>4
  <2>6. corr' = [corr EXCEPT ![p] = corr[p]] /\ Len(frames[p]) \in {0, 1}
    BY <1>1 DEF ContextInv, TypeOK
  <2>7. torn' \in BOOLEAN
    BY <1>1 DEF ContextInv, TypeOK
  <2>8. frames' = [frames EXCEPT ![p] = g]
    BY <2>2, <2>5
  <2> QED
    BY <1>1, <2>1, <2>2, <2>4, <2>6, <2>7, <2>8, BeginStep
<1>3. CASE active[p] = NoLogger
  <2>1. /\ unbound' = [unbound EXCEPT ![p] = @ + 1]
        /\ UNCHANGED frames
    BY <1>3 DEF Call
  <2>2. TypeOK'
    <3>1. unbound' \in [Processes -> Nat] /\ calls' \in [Processes -> Nat]
      BY <1>1, <2>1 DEF ContextInv, TypeOK
    <3> QED
      BY <1>1, <2>1, <3>1 DEF ContextInv, TypeOK
  <2>3. FramesInv'
    BY <1>1, <2>1, IdleFrames
  <2>4. RootsInv' /\ BindsInv' /\ UnbornInv' /\ ~strayed'
    BY <1>1, <2>1 DEF ContextInv, RootsInv, BindsInv, UnbornInv
  <2>5. LedgerInv'
    <3>1. ChildEntries' = ChildEntries
      BY <1>1 DEF ChildEntries
    <3>2. IsFiniteSet(ChildEntries) /\ IsFiniteSet(ledger)
      BY FS_Subset DEF ContextInv, LedgerInv, ChildEntries
    <3>3. Cardinality(ChildEntries) \in Nat
      BY <3>2, FS_CardinalityType
    <3>4. \A q \in Processes : /\ calls[q] \in Nat
                               /\ calls'[q] \in {calls[q], calls[q] + 1}
      BY <1>1 DEF ContextInv, TypeOK
    <3>5. \A e \in ledger : e.id[2] <= calls'[e.id[1]]
      <4>1. \A e \in ledger : e.id[1] \in Processes /\ e.id[2] \in Nat
        BY DEF ContextInv, TypeOK
      <4> QED
        BY <3>4, <4>1 DEF ContextInv, LedgerInv
    <3>6. \A q \in Processes : \A k \in 1..Len(frames[q]) :
            frames[q][k].id[2] <= calls'[q]
      <4>1. \A q \in Processes : \A k \in 1..Len(frames[q]) :
              frames[q][k].id[2] \in Nat
        BY FrameIds DEF ContextInv
      <4> QED
        BY <3>4, <4>1 DEF ContextInv, LedgerInv
    <3>7. calls'["child"] = unbound'["child"] + Len(frames["child"])
                            + Cardinality(ChildEntries)
      <4>1. /\ calls["child"] = unbound["child"] + Len(frames["child"])
                                + Cardinality(ChildEntries)
            /\ unbound["child"] \in Nat /\ Len(frames["child"]) \in Nat
        BY DEF ContextInv, LedgerInv, TypeOK, Processes
      <4>2. \/ /\ calls'["child"] = calls["child"] + 1
               /\ unbound'["child"] = unbound["child"] + 1
            \/ /\ calls'["child"] = calls["child"]
               /\ unbound'["child"] = unbound["child"]
        <5>1. /\ calls \in [Processes -> Nat] /\ unbound \in [Processes -> Nat]
              /\ "child" \in Processes
          BY DEF ContextInv, TypeOK, Processes
        <5>2. CASE p = "child"
          BY <1>1, <2>1, <5>1, <5>2
        <5>3. CASE p # "child"
          BY <1>1, <2>1, <5>1, <5>3
        <5> QED
          BY <5>2, <5>3
      <4>3. PICK u \in Nat, k \in Nat, m \in Nat :
              /\ u = unbound["child"] /\ k = Len(frames["child"])
              /\ m = Cardinality(ChildEntries)
        BY <3>3, <4>1
      <4>4. calls["child"] = u + k + m
        BY <4>1, <4>3
      <4>5. u + k + m + 1 = (u + 1) + k + m
        OBVIOUS
      <4>6. CASE /\ calls'["child"] = calls["child"] + 1
                 /\ unbound'["child"] = unbound["child"] + 1
        BY <4>3, <4>4, <4>5, <4>6
      <4>7. CASE /\ calls'["child"] = calls["child"]
                 /\ unbound'["child"] = unbound["child"]
        BY <4>3, <4>4, <4>7
      <4> QED
        BY <4>2, <4>6, <4>7
    <3> QED
      BY <1>1, <2>1, <3>1, <3>2, <3>5, <3>6, <3>7 DEF ContextInv, LedgerInv
  <2> QED
    BY <2>2, <2>3, <2>4, <2>5 DEF ContextInv
<1> QED
  BY <1>2, <1>3

LEMMA InterruptStep ==
  ASSUME ContextInv, NEW p \in Processes, NEW id \in ScopeIds \cup {0},
         Interrupt(p, id)
  PROVE  ContextInv'
<1>1. /\ Len(frames[p]) = 1 /\ state[p] # "none" /\ id \in Nat
      /\ frames[p] \in Seq(Frames)
      /\ calls' = [calls EXCEPT ![p] = @ + 1]
      /\ frames' = [frames EXCEPT ![p] = Append(@, Frame(p, id))]
      /\ corr' = [corr EXCEPT ![p] = id]
      /\ UNCHANGED <<state, env, root, active, detached, binds, corrs, cache,
                     cursor, memory, ledger, unbound, forkDepth, joined,
                     strayed>>
  <2>1. Len(frames[p]) = 1 /\ state[p] \in {"running", "forked"}
    BY Zenon DEF Interrupt, Runs
  <2>2. state[p] # "none" /\ id \in Nat /\ frames[p] \in Seq(Frames)
    BY <2>1, ContextAssumption DEF ContextInv, TypeOK
  <2>3. /\ calls' = [calls EXCEPT ![p] = @ + 1]
        /\ frames' = [frames EXCEPT ![p] = Append(@, Frame(p, id))]
        /\ corr' = [corr EXCEPT ![p] = id]
        /\ UNCHANGED <<state, env, root, active, detached, binds, corrs,
                       cache, cursor, memory, ledger, unbound, forkDepth,
                       joined, strayed>>
    BY Zenon DEF Interrupt
  <2> QED
    BY <2>1, <2>2, <2>3
<1>2. torn' \in BOOLEAN
  BY Zenon DEF Interrupt
<1>3. frames[p] # <<>>
  <2>1. Len(frames[p]) = 1
    BY <1>1
  <2> QED
    BY <2>1
<1>4. active[p] \in Loggers
  BY <1>3 DEF ContextInv, FramesInv
<1>5. PICK g \in Seq(Frames) : g = Append(frames[p], Frame(p, id))
  BY <1>1, <1>4, FrameFacts, AppendFacts
<1>6. frames' = [frames EXCEPT ![p] = g]
  BY <1>1, <1>5
<1>7. Len(frames[p]) \in {0, 1}
  BY <1>1
<1> QED
  BY <1>1, <1>2, <1>4, <1>5, <1>6, <1>7, BeginStep

-----------------------------------------------------------------------------
(* Returns.                                                                *)

LEMMA EndStep ==
  ASSUME ContextInv, NEW p \in Processes, state[p] # "none",
         frames[p] # <<>>, NEW isDropped \in BOOLEAN, Return(p, isDropped),
         memory' \in [Loggers \X Chunks \X Slots
                        -> (Processes \X Nat) \cup {Zero}],
         UNCHANGED <<state, env, root, active, detached, binds, corrs, cache,
                     cursor, calls, unbound, torn, forkDepth, joined,
                     strayed>>
  PROVE  ContextInv'
<1>1. /\ frames[p] \in Seq(Frames) /\ Len(frames[p]) \in {1, 2}
      /\ Top(p) \in Frames /\ Top(p) = frames[p][Len(frames[p])]
  BY TopFacts DEF ContextInv, FramesInv
<1>2. PICK g \in Seq(Frames) : g = Front(frames[p])
  BY <1>1, FrontFacts
<1>3. /\ Len(g) = Len(frames[p]) - 1
      /\ \A i \in 1..(Len(frames[p]) - 1) : g[i] = frames[p][i]
      /\ g = <<>> <=> Len(g) = 0
  BY <1>1, <1>2, FrontFacts, EmptyFrames
<1>4. PICK handler \in BOOLEAN : handler = (Len(frames[p]) = 2)
  BY Zenon
<1>5. PICK entry : entry = [id |-> Top(p).id, log |-> Top(p).log,
                            dropped |-> isDropped, handler |-> handler]
  OBVIOUS
<1>6. /\ entry \in [id : Processes \X Nat, log : Loggers,
                    dropped : BOOLEAN, handler : BOOLEAN]
      /\ entry.id = Top(p).id /\ entry.log = Top(p).log
  BY <1>1, <1>4, <1>5 DEF Frames
<1>7. PICK n \in Nat : n = ScopeRestored(p)
  BY <1>1 DEF ScopeRestored, ContextInv, TypeOK, Frames
<1>8. /\ frames' = [frames EXCEPT ![p] = g]
      /\ corr' = [corr EXCEPT ![p] = n]
  BY <1>2, <1>7 DEF Return
<1>9. ledger' = ledger \cup {entry}
  BY <1>4, <1>5, Zenon DEF Return
<1>10. TypeOK'
  BY <1>6, <1>8, <1>9 DEF ContextInv, TypeOK
<1>11. /\ frames'[p] = g /\ corr'[p] = n
       /\ \A q \in Processes : q # p => /\ frames'[q] = frames[q]
                                        /\ corr'[q] = corr[q]
  BY <1>8 DEF ContextInv, TypeOK
<1>12. FramesInv'
  <2>1. ASSUME NEW q \in Processes, q # p, frames[q] # <<>>
        PROVE  /\ Len(frames[q]) \in {1, 2}
               /\ active[q] \in Loggers
               /\ \A k \in 1..Len(frames[q]) : frames[q][k].log = active[q]
               /\ frames[q][Len(frames[q])].act = Under(corr'[q], active[q])
               /\ Len(frames[q]) = 2 =>
                    frames[q][1].act = Under(frames[q][2].saved, active[q])
    BY <1>11, <2>1 DEF ContextInv, FramesInv
  <2>2. ASSUME g # <<>>
        PROVE  /\ Len(g) = 1
               /\ active[p] \in Loggers
               /\ g[1].log = active[p]
               /\ g[1].act = Under(n, active[p])
    <3>1. Len(frames[p]) = 2 /\ Len(g) = 1
      BY <1>1, <1>3, <2>2
    <3>2. n = frames[p][2].saved
      BY <1>1, <1>7, <3>1 DEF ScopeRestored
    <3>3. g[1] = frames[p][1]
      BY <1>3, <3>1
    <3>4. /\ active[p] \in Loggers
          /\ frames[p][1].log = active[p]
          /\ frames[p][1].act = Under(frames[p][2].saved, active[p])
      BY <3>1 DEF ContextInv, FramesInv
    <3> QED
      BY <3>1, <3>2, <3>3, <3>4
  <2> QED
    BY <1>11, <2>1, <2>2 DEF FramesInv, Under
<1>13. Top(p).log = active[p] /\ active[p] \in Loggers
  BY <1>1 DEF ContextInv, FramesInv
<1>14. Top(p).id[1] = p
  BY <1>1 DEF ContextInv, LedgerInv
<1>15. RootsInv' /\ ~strayed'
  BY DEF ContextInv, RootsInv
<1>16. BindsInv'
  <2>1. entry.id[1] = "child" /\ entry.log \in Shared => forkDepth >= 2
    BY <1>6, <1>13, <1>14 DEF ContextInv, BindsInv
  <2> QED
    BY <1>9, <2>1 DEF ContextInv, BindsInv
<1>17. UnbornInv'
  <2>1. state["child"] = "none" => p # "child"
    OBVIOUS
  <2> QED
    BY <1>6, <1>9, <1>11, <1>14, <2>1 DEF ContextInv, UnbornInv, Processes
<1>18. LedgerInv'
  <2>1. IsFiniteSet(ledger')
    BY <1>9, FS_AddElement DEF ContextInv, LedgerInv
  <2>2. /\ Top(p).id[2] <= calls[p]
        /\ \A e \in ledger : e.id # Top(p).id
    BY <1>1 DEF ContextInv, LedgerInv
  <2>3. \A e \in ledger' : e.id[2] <= calls[e.id[1]]
    BY <1>6, <1>9, <1>14, <2>2 DEF ContextInv, LedgerInv
  <2>4. \A k \in 1..Len(g) :
          /\ g[k].id[1] = p
          /\ g[k].id[2] <= calls[p]
          /\ \A e \in ledger' : e.id # g[k].id
    <3> SUFFICES ASSUME NEW k \in 1..Len(g)
                 PROVE  /\ g[k].id[1] = p
                        /\ g[k].id[2] <= calls[p]
                        /\ \A e \in ledger' : e.id # g[k].id
      OBVIOUS
    <3>1. k = 1 /\ Len(frames[p]) = 2 /\ g[k] = frames[p][1]
      BY <1>1, <1>3
    <3>2. /\ frames[p][1].id[1] = p
          /\ frames[p][1].id[2] <= calls[p]
          /\ \A e \in ledger : e.id # frames[p][1].id
          /\ frames[p][1].id # frames[p][2].id
      BY <3>1 DEF ContextInv, LedgerInv
    <3>3. entry.id # frames[p][1].id
      BY <1>1, <1>6, <3>1, <3>2
    <3> QED
      BY <1>9, <3>1, <3>2, <3>3
  <2>5. \A q \in Processes : q # p =>
          \A k \in 1..Len(frames[q]) : entry.id # frames[q][k].id
    BY <1>6, <1>14 DEF ContextInv, LedgerInv
  <2>6. \A q \in Processes : \A k \in 1..Len(frames'[q]) :
          /\ frames'[q][k].id[1] = q
          /\ frames'[q][k].id[2] <= calls[q]
          /\ \A e \in ledger' : e.id # frames'[q][k].id
    BY <1>9, <1>11, <2>4, <2>5 DEF ContextInv, LedgerInv
  <2>7. \A q \in Processes :
          Len(frames'[q]) = 2 => frames'[q][1].id # frames'[q][2].id
    BY <1>1, <1>3, <1>11 DEF ContextInv, LedgerInv
  <2>8. calls["child"] = unbound["child"] + Len(frames'["child"])
                         + Cardinality(ChildEntries')
    <3>1. /\ calls["child"] = unbound["child"] + Len(frames["child"])
                              + Cardinality(ChildEntries)
          /\ IsFiniteSet(ledger)
      BY DEF ContextInv, LedgerInv
    <3>2. IsFiniteSet(ChildEntries)
      BY <3>1, FS_Subset DEF ChildEntries
    <3>3. /\ Cardinality(ChildEntries) \in Nat /\ unbound["child"] \in Nat
          /\ Len(frames["child"]) \in Nat
      BY <3>2, FS_CardinalityType DEF ContextInv, TypeOK, Processes
    <3>4. CASE p = "child"
      <4>1. ChildEntries' = ChildEntries \cup {entry}
        BY <1>6, <1>9, <1>14, <3>4 DEF ChildEntries
      <4>2. entry \notin ChildEntries
        BY <1>6, <2>2 DEF ChildEntries
      <4>3. Cardinality(ChildEntries') = Cardinality(ChildEntries) + 1
        BY <3>2, <4>1, <4>2, FS_AddElement
      <4>4. frames'["child"] = g /\ Len(g) = Len(frames["child"]) - 1
        BY <1>3, <1>11, <3>4
      <4>5. PICK m \in Nat : m = Cardinality(ChildEntries)
        BY <3>3
      <4>6. PICK k \in Nat : k = Len(frames["child"])
        BY <3>3
      <4>7. Cardinality(ChildEntries') = m + 1
        BY <4>3, <4>5
      <4>8. Len(frames'["child"]) = k - 1
        BY <4>4, <4>6
      <4>9. calls["child"] = unbound["child"] + k + m
        BY <3>1, <4>5, <4>6
      <4>10. unbound["child"] + k + m = unbound["child"] + (k - 1) + (m + 1)
        <5>1. PICK u \in Nat : u = unbound["child"]
          BY <3>3
        <5>2. u + k + m = u + (k - 1) + (m + 1)
          OBVIOUS
        <5> QED
          BY <5>1, <5>2
      <4> QED
        BY <4>7, <4>8, <4>9, <4>10
    <3>5. CASE p # "child"
      <4>1. ChildEntries' = ChildEntries
        BY <1>6, <1>9, <1>14, <3>5 DEF ChildEntries
      <4> QED
        BY <1>11, <3>1, <3>5, <4>1 DEF Processes
    <3> QED
      BY <3>4, <3>5
  <2> QED
    BY <2>1, <2>3, <2>6, <2>7, <2>8 DEF LedgerInv
<1> QED
  BY <1>10, <1>12, <1>15, <1>16, <1>17, <1>18 DEF ContextInv

LEMMA CommitStep ==
  ASSUME ContextInv, NEW p \in Processes, Commit(p)
  PROVE  ContextInv'
<1>1. /\ frames[p] # <<>> /\ state[p] # "none" /\ Return(p, FALSE)
      /\ memory' = [memory EXCEPT ![CommitPlace(p)] = Top(p).id]
      /\ strayed' = (strayed \/ Activity(p, Top(p).log) # Top(p).act)
      /\ UNCHANGED <<state, env, root, active, detached, binds, corrs, cache,
                     cursor, calls, unbound, torn, forkDepth, joined>>
  BY DEF Commit, Runs
<1>2. Top(p) \in Frames /\ Top(p) = frames[p][Len(frames[p])]
  BY <1>1, TopFacts DEF ContextInv
<1>3. Top(p).id \in Processes \X Nat
  BY <1>2 DEF Frames
<1>4. memory' \in [Loggers \X Chunks \X Slots
                     -> (Processes \X Nat) \cup {Zero}]
  BY <1>1, <1>3 DEF ContextInv, TypeOK
<1>5. /\ Top(p).act = Under(corr[p], active[p])
      /\ Top(p).log = active[p]
  BY <1>1, <1>2, TopFacts DEF ContextInv, FramesInv
<1>6. Activity(p, Top(p).log) = Top(p).act
  BY <1>5 DEF Activity, Under
<1>7. UNCHANGED strayed
  <2>1. strayed = FALSE
    BY DEF ContextInv, TypeOK
  <2> QED
    BY <1>1, <1>6, <2>1
<1> QED
  BY <1>1, <1>4, <1>7, EndStep

LEMMA CountDropStep ==
  ASSUME ContextInv, NEW p \in Processes, CountDrop(p)
  PROVE  ContextInv'
<1>1. /\ frames[p] # <<>> /\ state[p] # "none" /\ Return(p, TRUE)
      /\ UNCHANGED <<state, env, root, active, detached, binds, corrs, cache,
                     cursor, calls, unbound, torn, forkDepth, joined,
                     strayed>>
      /\ UNCHANGED memory
  BY DEF CountDrop, Runs, history
<1>2. memory' \in [Loggers \X Chunks \X Slots
                     -> (Processes \X Nat) \cup {Zero}]
  BY <1>1 DEF ContextInv, TypeOK
<1> QED
  BY <1>1, <1>2, EndStep

-----------------------------------------------------------------------------
LEMMA InitContext == Init => ContextInv
<1> SUFFICES ASSUME Init
             PROVE  ContextInv
  OBVIOUS
<1>1. TypeOK
  <2>1. /\ state \in [Processes -> {"none", "running", "forked"}]
        /\ env \in [Processes -> Nat]
        /\ root \in [Loggers -> Nat \cup {NotCreated}]
        /\ active \in [Processes -> Loggers \cup {NoLogger}]
        /\ corr \in [Processes -> Nat]
        /\ cursor \in [Loggers -> Nat]
        /\ calls \in [Processes -> Nat]
        /\ unbound \in [Processes -> Nat]
        /\ forkDepth \in Nat /\ joined \in Nat
    BY ContextAssumption DEF Init
  <2>2. detached \in [Processes -> BOOLEAN]
    BY DEF Init
  <2>3. torn \in BOOLEAN /\ strayed \in BOOLEAN
    BY DEF Init
  <2>4. \A S : <<>> \in Seq(S)
    BY EmptySeq
  <2>5. /\ binds \in [Processes -> Seq(Loggers \cup {NoLogger})]
        /\ corrs \in [Processes -> Seq(Nat)]
        /\ frames \in [Processes -> Seq(Frames)]
    BY <2>4 DEF Init
  <2>6. NoCache \in [owner : Loggers \cup {NoLogger}, chunk : Nat, next : Nat]
    BY DEF NoCache
  <2>7. cache \in [Processes -> [owner : Loggers \cup {NoLogger},
                                chunk : Nat, next : Nat]]
    BY <2>6 DEF Init
  <2>8. memory \in [Loggers \X Chunks \X Slots
                      -> (Processes \X Nat) \cup {Zero}]
    BY DEF Init
  <2>9. ledger \subseteq [id : Processes \X Nat, log : Loggers,
                          dropped : BOOLEAN, handler : BOOLEAN]
    BY DEF Init
  <2> QED
    BY <2>1, <2>2, <2>3, <2>5, <2>7, <2>8, <2>9 DEF TypeOK
<1>2. FramesInv /\ UnbornInv /\ ~strayed
  BY DEF Init, FramesInv, UnbornInv, Processes
<1>3. RootsInv
  BY ContextAssumption DEF Init, RootsInv, Processes, Loggers
<1>4. BindsInv
  BY ContextAssumption DEF Init, BindsInv, Processes, Loggers
<1>5. LedgerInv
  <2>1. ChildEntries = {}
    BY DEF Init, ChildEntries
  <2>2. IsFiniteSet({}) /\ Cardinality({}) = 0
    BY FS_EmptySet
  <2> QED
    BY <2>1, <2>2 DEF Init, LedgerInv, Processes
<1> QED
  BY <1>1, <1>2, <1>3, <1>4, <1>5 DEF ContextInv

LEMMA StutterStep ==
  ASSUME ContextInv, UNCHANGED vars
  PROVE  ContextInv'
<1>1. TypeOK' /\ FramesInv' /\ RootsInv' /\ BindsInv' /\ UnbornInv' /\ ~strayed'
  BY DEF ContextInv, TypeOK, FramesInv, Under, RootsInv, BindsInv, UnbornInv,
         vars, scopeVars, history
<1>2. LedgerInv'
  BY SameLedger DEF vars
<1> QED
  BY <1>1, <1>2 DEF ContextInv

LEMMA NextContext == ContextInv /\ [Next]_vars => ContextInv'
<1> SUFFICES ASSUME ContextInv, [Next]_vars
             PROVE  ContextInv'
  OBVIOUS
<1>1. ASSUME NEW p \in Processes, Emission(p)
      PROVE  ContextInv'
  BY <1>1, ReservingStep, CommitStep, CountDropStep DEF Emission, Reserving
<1> QED
  BY <1>1, EnterBindStep, LeaveBindStep, EnterScopeStep, LeaveScopeStep,
     CallStep, InterruptStep, ForkStep, SpawnStep, CreateStep, StutterStep
     DEF Next

(* The invariant of binds, scopes, emissions and the ledger, for any       *)
(* number of Loggers, chunks and ids and any depth of scopes (ScopedBind,  *)
(* CorrelationScope, detachForFork, emitRecord).                           *)
THEOREM ContextInvariance == Spec => []ContextInv
BY InitContext, NextContext, PTL DEF Spec

(* A forked child writes into its parent's segment only when it was forked *)
(* inside nested ScopedBinds, and every other emission it makes is its own *)
(* Logger's or counted as unbound (detachForFork, ScopedBind).             *)
THEOREM ForkIsolation == Spec => []ForkStaysOut
<1>1. ContextInv => ForkStaysOut
  <2> SUFFICES ASSUME ContextInv
               PROVE  ForkStaysOut
    OBVIOUS
  <2>1. ASSUME NEW k \in DOMAIN frames["child"],
               frames["child"][k].log \in Shared
        PROVE  forkDepth >= 2
    <3>1. frames["child"] \in Seq(Frames) /\ "child" \in Processes
      BY DEF ContextInv, TypeOK, Processes
    <3>2. k \in 1..Len(frames["child"])
      BY <3>1
    <3>3. frames["child"] # <<>>
      BY <3>1, <3>2, EmptyFrames
    <3>4. active["child"] \in Shared
      BY <2>1, <3>1, <3>2, <3>3 DEF ContextInv, FramesInv
    <3> QED
      BY <3>4 DEF ContextInv, BindsInv
  <2>2. Intruded => forkDepth >= 2
    BY <2>1 DEF Intruded, ContextInv, BindsInv
  <2>3. calls["child"] = unbound["child"] + Len(frames["child"])
                         + Cardinality({e \in ledger : e.id[1] = "child"})
    BY DEF ContextInv, LedgerInv, ChildEntries
  <2> QED
    BY <2>2, <2>3 DEF ForkStaysOut
<1> QED
  BY <1>1, ContextInvariance, PTL

(* Every record carries the activity of its call, under any handler, and a *)
(* spawned process starts in the activity it was given (CorrelationScope,  *)
(* emitRecord, spawn, finishCreate).                                       *)
THEOREM ActivityKept == Spec => []ActivityIsKept
<1>1. ContextInv => ActivityIsKept
  BY DEF ContextInv, RootsInv, ActivityIsKept
<1> QED
  BY <1>1, ContextInvariance, PTL

-----------------------------------------------------------------------------
(* The records.  While no handler broke an update of the WriterCache and   *)
(* the child kept out of its parent's segments, every segment has one      *)
(* thread that writes to it.                                               *)

Writer(l) == IF l \in Shared THEN "parent" ELSE "child"

(* The emission has reserved the slot and not yet committed.               *)
Opens(f, l, c, i) ==
  f.pc = "commit" /\ f.log = l /\ f.chunk = c /\ f.at = i

OpenIn(s, l, c, i) == \E k \in 1..Len(s) : Opens(s[k], l, c, i)

(* A slot that a walk of the chunk gets past: a record, or a reservation.  *)
Filled(l, c, i) ==
  \/ memory[<<l, c, i>>] # Zero
  \/ \E p \in Processes : OpenIn(frames[p], l, c, i)

Blank(l, c) == \A i \in Slots : ~Filled(l, c, i)

(* Chunks fill from their front, and only claimed ones.                    *)
FillInv ==
  \A l \in Loggers : \A c \in Chunks : \A i \in Slots :
    Filled(l, c, i) => /\ c <= cursor[l]
                       /\ \A j \in 1..(i - 1) : Filled(l, c, j)

(* The WriterCache of the process is not between two stores of a new       *)
(* writer.                                                                 *)
Settled(p) ==
  \A k \in 1..Len(frames[p]) :
    frames[p][k].pc = "assign" => frames[p][k].left = Cached

(* The writer stands behind the last filled slot of its chunk.             *)
WriterInv(p) ==
  /\ cache[p].next >= 1
  /\ p = "parent" => cache[p].owner # Own
  /\ Settled(p) /\ cache[p].chunk # 0 =>
       \A l \in Loggers : cache[p].owner = l /\ Writer(l) = p =>
         /\ cache[p].chunk \in Chunks /\ cache[p].chunk <= cursor[l]
         /\ \A i \in Slots : Filled(l, cache[p].chunk, i) <=> i < cache[p].next

(* What an emission under way knows of its writer and its chunk.           *)
AssignInv(p, f) ==
  /\ "owner" \notin f.left => cache[p].owner = f.log
  /\ "chunk" \notin f.left => cache[p].chunk = f.chunk
  /\ "next" \notin f.left => cache[p].next = 1
  /\ f.chunk # 0 =>
       /\ f.chunk \in Chunks /\ f.chunk <= cursor[f.log]
       /\ Blank(f.log, f.chunk)
       /\ Settled(p) /\ cache[p].owner = f.log => cache[p].chunk # f.chunk

EmissionInv(p, f) ==
  /\ f.pc \in {"load", "bump"} => cache[p].owner = f.log
  /\ f.pc = "assign" => AssignInv(p, f)
  /\ f.pc = "bump" => /\ f.chunk = cache[p].chunk /\ f.chunk # 0
                      /\ f.at = cache[p].next /\ f.at \in Slots
  /\ f.pc = "commit" => /\ f.chunk \in Chunks /\ f.at \in Slots
                        /\ memory[<<f.log, f.chunk, f.at>>] = Zero

(* An emission and the handler's over it.                                  *)
PairInv(f, g) ==
  /\ f.pc # "bump"
  /\ f.pc = "assign" => f.left = Cached
  /\ f.pc = "commit" /\ g.pc = "commit" =>
       ~(f.chunk = g.chunk /\ f.at = g.at)
  /\ f.pc = "assign" /\ g.pc = "assign" /\ f.chunk # 0 => f.chunk # g.chunk

ProcessInv(p) ==
  /\ WriterInv(p)
  /\ \A k \in 1..Len(frames[p]) : EmissionInv(p, frames[p][k])
  /\ Len(frames[p]) = 2 => PairInv(frames[p][1], frames[p][2])

(* Every record reported written is in its segment.                        *)
StoredInv ==
  \A e \in ledger : ~e.dropped =>
    \E c \in Chunks, i \in Slots : memory[<<e.log, c, i>>] = e.id

RecordsInv ==
  /\ \A l \in Loggers : cursor[l] <= ChunkCount
  /\ FillInv
  /\ \A p \in Processes : ProcessInv(p)
  /\ StoredInv

KeptInv == ~torn /\ ~Intruded => RecordsInv

(* The emissions of a process go to segments that only it writes.          *)
LEMMA Writers ==
  ASSUME ContextInv, ~Intruded, NEW p \in Processes,
         NEW k \in 1..Len(frames[p])
  PROVE  /\ frames[p][k] \in Frames
         /\ frames[p][k].log = active[p]
         /\ active[p] \in Loggers
         /\ Writer(active[p]) = p
<1>1. frames[p] \in Seq(Frames) /\ frames[p] # <<>>
  BY DEF ContextInv, TypeOK
<1>2. frames[p][k].log = active[p] /\ active[p] \in Loggers
  BY <1>1 DEF ContextInv, FramesInv
<1>3. CASE p = "parent"
  <2>1. active[p] \in Shared
    BY <1>2, <1>3, ContextAssumption DEF ContextInv, BindsInv
  <2> QED
    BY <1>1, <1>2, <1>3, <2>1 DEF Writer
<1>4. CASE p = "child"
  <2>1. k \in DOMAIN frames["child"]
    BY <1>1, <1>4
  <2>2. frames[p][k].log \notin Shared
    BY <1>4, <2>1 DEF Intruded
  <2> QED
    BY <1>1, <1>2, <1>4, <2>2 DEF Writer
<1> QED
  BY <1>3, <1>4 DEF Processes

(* A record has a call.                                                    *)
LEMMA CallsAreNotZero ==
  ASSUME NEW i \in Processes \X Nat
  PROVE  i # Zero
BY DEF Zero, Processes

(* What the step of one process leaves true of the other.                  *)
LEMMA OtherProcess ==
  ASSUME ContextInv, ~Intruded, RecordsInv, NEW q \in Processes,
         frames'[q] = frames[q], cache'[q] = cache[q],
         cursor' \in [Loggers -> Nat],
         \A l \in Loggers : cursor'[l] >= cursor[l],
         \A l \in Loggers : Writer(l) = q =>
           \A c \in Chunks : \A i \in Slots :
             /\ Filled(l, c, i)' <=> Filled(l, c, i)
             /\ memory'[<<l, c, i>>] = memory[<<l, c, i>>]
  PROVE  ProcessInv(q)'
<1>1. ProcessInv(q) /\ Settled(q)' = Settled(q)
  BY DEF RecordsInv, Settled
<1>2. \A l \in Loggers : cursor[l] \in Nat /\ cursor'[l] \in Nat
  BY DEF ContextInv, TypeOK
<1>3. WriterInv(q)'
  <2>1. \A l \in Loggers : cache[q].chunk \in Nat /\ cursor[l] \in Nat
    BY DEF ContextInv, TypeOK
  <2>2. WriterInv(q)
    BY <1>1 DEF ProcessInv
  <2>3. ASSUME Settled(q), cache[q].chunk # 0, NEW l \in Loggers,
               cache[q].owner = l, Writer(l) = q
        PROVE  /\ cache[q].chunk \in Chunks /\ cache[q].chunk <= cursor'[l]
               /\ \A i \in Slots :
                    Filled(l, cache[q].chunk, i)' <=> i < cache[q].next
    <3>1. PICK c \in Nat : c = cache[q].chunk
      BY <2>1
    <3>2. /\ c \in Chunks /\ c <= cursor[l]
          /\ \A i \in Slots : Filled(l, c, i) <=> i < cache[q].next
      BY <2>2, <2>3, <3>1 DEF WriterInv
    <3>3. \A i \in Slots : Filled(l, c, i)' <=> i < cache[q].next
      BY <2>3, <3>2
    <3>4. c <= cursor'[l]
      BY <1>2, <3>2
    <3>5. \A i \in Slots : Filled(l, cache[q].chunk, i)' <=> Filled(l, c, i)'
      BY <3>1 DEF Filled
    <3> QED
      BY <3>1, <3>2, <3>3, <3>4, <3>5
  <2> QED
    BY <1>1, <2>2, <2>3 DEF WriterInv
<1>4. ASSUME NEW k \in 1..Len(frames[q])
      PROVE  EmissionInv(q, frames[q][k])'
  <2>1. PICK f \in Frames, l \in Loggers :
          f = frames[q][k] /\ f.log = l /\ Writer(l) = q
    BY Writers
  <2>2. EmissionInv(q, f)
    BY <1>1, <2>1 DEF ProcessInv
  <2>3. f.pc = "assign" => AssignInv(q, f)'
    <3> SUFFICES ASSUME f.pc = "assign", AssignInv(q, f)
                 PROVE  AssignInv(q, f)'
      BY <2>2 DEF EmissionInv
    <3>1. f.chunk \in Chunks => Blank(l, f.chunk)' = Blank(l, f.chunk)
      BY <2>1 DEF Blank
    <3>2. f.chunk \in Nat
      BY DEF Frames
    <3> QED
      BY <1>1, <1>2, <2>1, <3>1, <3>2 DEF AssignInv
  <2>4. EmissionInv(q, f)'
    BY <2>1, <2>2, <2>3 DEF EmissionInv
  <2> QED
    BY <2>1, <2>4
<1> QED
  BY <1>1, <1>3, <1>4 DEF ProcessInv

(* The open reservations after a step of the emission on top, after one has*)
(* begun over it and after it has returned.                                *)
LEMMA OpenOnTop ==
  ASSUME NEW s \in Seq(Frames), NEW t \in Seq(Frames), NEW n \in Nat \ {0},
         Len(s) = n, Len(t) = n, \A k \in 1..(n - 1) : t[k] = s[k],
         s[n].pc # "commit", NEW l, NEW c, NEW i
  PROVE  OpenIn(t, l, c, i) <=> OpenIn(s, l, c, i) \/ Opens(t[n], l, c, i)
<1>1. 1..n = 1..(n - 1) \cup {n}
  OBVIOUS
<1>2. ~Opens(s[n], l, c, i)
  BY DEF Opens
<1> QED
  BY <1>1, <1>2 DEF OpenIn

LEMMA OpenBegun ==
  ASSUME NEW s \in Seq(Frames), NEW t \in Seq(Frames),
         Len(t) = Len(s) + 1, \A k \in 1..Len(s) : t[k] = s[k],
         t[Len(s) + 1].pc # "commit", NEW l, NEW c, NEW i
  PROVE  OpenIn(t, l, c, i) <=> OpenIn(s, l, c, i)
<1>1. Len(s) \in Nat /\ 1..Len(t) = 1..Len(s) \cup {Len(s) + 1}
  OBVIOUS
<1>2. ~Opens(t[Len(s) + 1], l, c, i)
  BY DEF Opens
<1> QED
  BY <1>1, <1>2 DEF OpenIn

LEMMA OpenReturned ==
  ASSUME NEW s \in Seq(Frames), NEW t \in Seq(Frames), NEW n \in Nat \ {0},
         Len(s) = n, Len(t) = n - 1, \A k \in 1..(n - 1) : t[k] = s[k],
         NEW l, NEW c, NEW i
  PROVE  OpenIn(s, l, c, i) <=> OpenIn(t, l, c, i) \/ Opens(s[n], l, c, i)
<1>1. 1..n = 1..(n - 1) \cup {n}
  OBVIOUS
<1> QED
  BY <1>1 DEF OpenIn

LEMMA FilledOnTop ==
  ASSUME TypeOK, NEW p \in Processes, frames[p] # <<>>, NEW g \in Frames,
         OnTop(p, g), Top(p).pc # "commit", UNCHANGED memory,
         NEW l, NEW c, NEW i
  PROVE  Filled(l, c, i)' <=> Filled(l, c, i) \/ Opens(g, l, c, i)
<1>1. PICK n \in Nat \ {0} : n = Len(frames[p])
  BY TopFacts
<1>2. /\ frames[p] \in Seq(Frames) /\ frames'[p] \in Seq(Frames)
      /\ Len(frames'[p]) = n /\ frames'[p][n] = g
      /\ \A k \in 1..(n - 1) : frames'[p][k] = frames[p][k]
      /\ \A q \in Processes : q # p => frames'[q] = frames[q]
  BY <1>1, OnTopFacts DEF TypeOK
<1>3. frames[p][n].pc # "commit"
  BY <1>1, TopFacts
<1>4. OpenIn(frames'[p], l, c, i) <=>
        OpenIn(frames[p], l, c, i) \/ Opens(g, l, c, i)
  BY <1>1, <1>2, <1>3, OpenOnTop
<1>5. \A q \in Processes : q # p =>
        (OpenIn(frames'[q], l, c, i) <=> OpenIn(frames[q], l, c, i))
  BY <1>2
<1>6. Filled(l, c, i)' <=> \/ memory[<<l, c, i>>] # Zero
                           \/ \E q \in Processes : OpenIn(frames'[q], l, c, i)
  BY DEF Filled, OpenIn, Opens
<1>7. Filled(l, c, i) <=> \/ memory[<<l, c, i>>] # Zero
                          \/ \E q \in Processes : OpenIn(frames[q], l, c, i)
  BY DEF Filled
<1> QED
  BY <1>4, <1>5, <1>6, <1>7, Zenon

(* What is left to show of a step of the emission on top.                  *)
LEMMA TopStep ==
  ASSUME ContextInv, ~Intruded, RecordsInv, NEW p \in Processes,
         frames[p] # <<>>, NEW g \in Frames, OnTop(p, g),
         UNCHANGED <<memory, ledger>>,
         \A q \in Processes : q # p => cache'[q] = cache[q],
         cursor' \in [Loggers -> Nat],
         \A l \in Loggers : cursor'[l] >= cursor[l] /\ cursor'[l] <= ChunkCount,
         \A l \in Loggers : Writer(l) # p =>
           \A c \in Chunks : \A i \in Slots :
             Filled(l, c, i)' <=> Filled(l, c, i),
         FillInv', WriterInv(p)', EmissionInv(p, g)',
         \A f \in Frames : Len(frames[p]) = 2 /\ f = frames[p][1] =>
           EmissionInv(p, f)' /\ PairInv(f, g)
  PROVE  RecordsInv'
<1>1. /\ frames[p] \in Seq(Frames)
      /\ Len(frames[p]) \in {1, 2}
      /\ Len(frames'[p]) = Len(frames[p])
      /\ frames'[p][Len(frames[p])] = g
      /\ \A k \in 1..(Len(frames[p]) - 1) : frames'[p][k] = frames[p][k]
      /\ \A q \in Processes : q # p => frames'[q] = frames[q]
  BY OnTopFacts DEF ContextInv, FramesInv, TypeOK
<1>2. ProcessInv(p)'
  <2>1. CASE Len(frames[p]) = 1
    <3>1. Len(frames'[p]) = 1 /\ frames'[p][1] = g
      BY <1>1, <2>1
    <3>2. \A k \in 1..Len(frames'[p]) : frames'[p][k] = g
      BY <3>1
    <3>3. \A k \in 1..Len(frames'[p]) : EmissionInv(p, frames[p][k])'
      BY <3>2
    <3> QED
      BY <3>1, <3>3 DEF ProcessInv
  <2>2. CASE Len(frames[p]) = 2
    <3>1. /\ Len(frames'[p]) = 2 /\ frames'[p][2] = g
          /\ frames'[p][1] = frames[p][1] /\ frames[p][1] \in Frames
      BY <1>1, <2>2
    <3>2. PICK f \in Frames : f = frames[p][1]
      BY <3>1
    <3>3. EmissionInv(p, f)' /\ PairInv(f, g)
      BY <2>2, <3>2
    <3>4. /\ EmissionInv(p, frames[p][1])'
          /\ EmissionInv(p, frames[p][2])'
      BY <3>1, <3>2, <3>3
    <3>5. \A k \in 1..Len(frames'[p]) : EmissionInv(p, frames[p][k])'
      <4>1. 1..Len(frames'[p]) = {1, 2}
        BY <3>1
      <4> QED
        BY <3>4, <4>1
    <3>6. PairInv(frames[p][1], frames[p][2])'
      BY <3>1, <3>2, <3>3 DEF PairInv
    <3> QED
      BY <3>5, <3>6 DEF ProcessInv
  <2> QED
    BY <1>1, <2>1, <2>2
<1>3. ASSUME NEW q \in Processes, q # p
      PROVE  ProcessInv(q)'
  <2>1. \A l \in Loggers : Writer(l) = q =>
          \A c \in Chunks : \A i \in Slots :
            /\ Filled(l, c, i)' <=> Filled(l, c, i)
            /\ memory'[<<l, c, i>>] = memory[<<l, c, i>>]
    BY <1>3
  <2> QED
    BY <1>1, <1>3, <2>1, OtherProcess
<1>4. StoredInv'
  BY DEF RecordsInv, StoredInv
<1>5. \A l \in Loggers : cursor'[l] <= ChunkCount
  OBVIOUS
<1>6. \A q \in Processes : ProcessInv(q)'
  BY <1>2, <1>3
<1> QED
  BY <1>4, <1>5, <1>6 DEF RecordsInv

(* What is known of the emission on top, and of the one below it.          *)
LEMMA TopKnown ==
  ASSUME ContextInv, ~Intruded, RecordsInv, NEW p \in Processes,
         frames[p] # <<>>
  PROVE  /\ Top(p) \in Frames
         /\ Top(p).log \in Loggers /\ Writer(Top(p).log) = p
         /\ WriterInv(p) /\ EmissionInv(p, Top(p))
         /\ \A b \in Frames : Len(frames[p]) = 2 /\ b = frames[p][1] =>
              /\ b.log = Top(p).log
              /\ EmissionInv(p, b) /\ PairInv(b, Top(p))
         /\ Settled(p) <=> (Top(p).pc = "assign" => Top(p).left = Cached)
<1>1. /\ Top(p) \in Frames /\ Top(p) = frames[p][Len(frames[p])]
      /\ Len(frames[p]) \in {1, 2} /\ ProcessInv(p)
  BY TopFacts DEF ContextInv, FramesInv, RecordsInv
<1>2. \A k \in 1..Len(frames[p]) :
        /\ frames[p][k].log = active[p] /\ active[p] \in Loggers
        /\ Writer(active[p]) = p
  BY Writers
<1>3. Top(p).log = active[p] /\ active[p] \in Loggers /\ Writer(active[p]) = p
  BY <1>1, <1>2
<1>4. WriterInv(p) /\ EmissionInv(p, Top(p))
  BY <1>1 DEF ProcessInv
<1>5. ASSUME NEW b \in Frames, Len(frames[p]) = 2, b = frames[p][1]
      PROVE  /\ b.log = Top(p).log
             /\ EmissionInv(p, b) /\ PairInv(b, Top(p))
  <2>1. EmissionInv(p, frames[p][1]) /\ PairInv(frames[p][1], frames[p][2])
    BY <1>1, <1>5 DEF ProcessInv
  <2> QED
    BY <1>1, <1>2, <1>3, <1>5, <2>1
<1>6. Settled(p) <=> (Top(p).pc = "assign" => Top(p).left = Cached)
  <2>1. CASE Len(frames[p]) = 1
    BY <1>1, <2>1 DEF Settled
  <2>2. CASE Len(frames[p]) = 2
    <3>1. frames[p][1].pc = "assign" => frames[p][1].left = Cached
      BY <1>1, <2>2 DEF ProcessInv, PairInv
    <3>2. 1..Len(frames[p]) = {1, 2}
      BY <2>2
    <3> QED
      BY <1>1, <2>2, <3>1, <3>2 DEF Settled
  <2> QED
    BY <1>1, <2>1, <2>2
<1> QED
  BY <1>1, <1>3, <1>4, <1>5, <1>6

LEMMA SettledOnTop ==
  ASSUME ContextInv, ~Intruded, RecordsInv, NEW p \in Processes,
         frames[p] # <<>>, NEW g \in Frames, OnTop(p, g)
  PROVE  Settled(p)' <=> (g.pc = "assign" => g.left = Cached)
<1>1. /\ Len(frames[p]) \in {1, 2}
      /\ Len(frames'[p]) = Len(frames[p])
      /\ frames'[p][Len(frames[p])] = g
      /\ \A k \in 1..(Len(frames[p]) - 1) : frames'[p][k] = frames[p][k]
  BY OnTopFacts DEF ContextInv, FramesInv, TypeOK
<1>2. CASE Len(frames[p]) = 1
  BY <1>1, <1>2 DEF Settled
<1>3. CASE Len(frames[p]) = 2
  <2>1. frames[p][1].pc = "assign" => frames[p][1].left = Cached
    BY <1>3 DEF RecordsInv, ProcessInv, PairInv
  <2>2. /\ 1..Len(frames'[p]) = {1, 2} /\ frames'[p][1] = frames[p][1]
        /\ frames'[p][2] = g
    BY <1>1, <1>3
  <2> QED
    BY <2>1, <2>2 DEF Settled
<1> QED
  BY <1>1, <1>2, <1>3

(* Nothing was reserved: what is filled stays as it is.                    *)
LEMMA SameFilled ==
  ASSUME ContextInv, RecordsInv, cursor' \in [Loggers -> Nat],
         \A l \in Loggers : cursor'[l] >= cursor[l],
         \A l \in Loggers : \A c \in Chunks : \A i \in Slots :
           Filled(l, c, i)' <=> Filled(l, c, i)
  PROVE  /\ FillInv'
         /\ \A l \in Loggers : \A c \in Chunks : Blank(l, c)' <=> Blank(l, c)
<1>1. \A l \in Loggers : \A c \in Chunks : \A i \in Slots :
        Filled(l, c, i) => /\ c <= cursor[l]
                           /\ \A j \in 1..(i - 1) : Filled(l, c, j)
  BY DEF RecordsInv, FillInv
<1>2. \A l \in Loggers : cursor[l] \in Nat /\ cursor'[l] \in Nat
  BY DEF ContextInv, TypeOK
<1>3. \A i \in Slots : 1..(i - 1) \subseteq Slots
  BY ContextAssumption DEF Slots
<1>4. FillInv'
  <2> SUFFICES ASSUME NEW l \in Loggers, NEW c \in Chunks, NEW i \in Slots,
                      Filled(l, c, i)'
               PROVE  /\ c <= cursor'[l]
                      /\ \A j \in 1..(i - 1) : Filled(l, c, j)'
    BY DEF FillInv
  <2>1. c <= cursor[l] /\ \A j \in 1..(i - 1) : Filled(l, c, j)
    BY <1>1
  <2>2. c <= cursor'[l]
    BY <1>2, <2>1 DEF Chunks
  <2>3. \A j \in 1..(i - 1) : Filled(l, c, j)'
    BY <1>3, <2>1
  <2> QED
    BY <2>2, <2>3
<1>5. \A l \in Loggers : \A c \in Chunks : Blank(l, c)' <=> Blank(l, c)
  BY DEF Blank
<1> QED
  BY <1>4, <1>5

LEMMA LoadKeeps ==
  ASSUME ContextInv, ~Intruded, RecordsInv, NEW p \in Processes, Load(p)
  PROVE  RecordsInv'
<1>0. /\ frames[p] # <<>> /\ Top(p).pc = "load"
      /\ UNCHANGED <<cursor, cache, memory, ledger>>
  BY DEF Load
<1>1. /\ Top(p) \in Frames /\ Top(p).log \in Loggers
      /\ Writer(Top(p).log) = p /\ WriterInv(p) /\ EmissionInv(p, Top(p))
      /\ \A b \in Frames : Len(frames[p]) = 2 /\ b = frames[p][1] =>
           EmissionInv(p, b) /\ PairInv(b, Top(p))
      /\ Settled(p)
  BY <1>0, TopKnown
<1>2. PICK g \in Frames :
        /\ OnTop(p, g) /\ g.log = Top(p).log
        /\ g.chunk = cache[p].chunk /\ g.at = cache[p].next
        /\ \/ /\ g.pc = "bump" /\ cache[p].chunk # 0
              /\ cache[p].next <= ChunkSlots
           \/ g.pc \in {"claim", "drop"}
  <2> DEFINE fits == cache[p].chunk # 0 /\ cache[p].next <= ChunkSlots
             b == Top(p).refilled \/ ~fits
             step == IF fits THEN "bump"
                     ELSE IF Top(p).refilled THEN "drop" ELSE "claim"
  <2>1. OnTop(p, [Top(p) EXCEPT !.chunk = cache[p].chunk,
                                !.at = cache[p].next,
                                !.refilled = b, !.pc = step])
    BY Zenon DEF Load
  <2>2. b \in BOOLEAN
    BY Zenon
  <2>3. step \in Steps
    BY DEF Steps
  <2>4. \/ step = "bump" /\ cache[p].chunk # 0 /\ cache[p].next <= ChunkSlots
        \/ step \in {"claim", "drop"}
    OBVIOUS
  <2>5. cache[p].chunk \in Nat /\ cache[p].next \in Nat
    BY DEF ContextInv, TypeOK
  <2> HIDE DEF b, step
  <2>6. PICK f : f = [Top(p) EXCEPT !.chunk = cache[p].chunk,
                                    !.at = cache[p].next,
                                    !.refilled = b, !.pc = step]
    OBVIOUS
  <2>7. /\ f \in Frames /\ f.log = Top(p).log
        /\ f.chunk = cache[p].chunk /\ f.at = cache[p].next
        /\ f.pc = step
    BY <1>1, <2>2, <2>3, <2>5, <2>6 DEF Frames
  <2> QED
    BY <2>1, <2>4, <2>6, <2>7
<1>3. \A l \in Loggers : \A c \in Chunks : \A i \in Slots :
        Filled(l, c, i)' <=> Filled(l, c, i)
  <2> SUFFICES ASSUME NEW l \in Loggers, NEW c \in Chunks, NEW i \in Slots
               PROVE  Filled(l, c, i)' <=> Filled(l, c, i)
    OBVIOUS
  <2>1. ~Opens(g, l, c, i)
    BY <1>2 DEF Opens
  <2>2. Filled(l, c, i)' <=> Filled(l, c, i) \/ Opens(g, l, c, i)
    BY <1>0, <1>2, FilledOnTop DEF ContextInv
  <2> QED
    BY <2>1, <2>2
<1>4. Settled(p)'
  BY <1>0, <1>2, SettledOnTop
<1>5. /\ cursor' \in [Loggers -> Nat]
      /\ \A l \in Loggers : cursor'[l] >= cursor[l] /\ cursor'[l] <= ChunkCount
      /\ \A q \in Processes : q # p => cache'[q] = cache[q]
  BY <1>0 DEF RecordsInv, ContextInv, TypeOK
<1>6. /\ FillInv'
      /\ \A l \in Loggers : \A c \in Chunks : Blank(l, c)' <=> Blank(l, c)
  BY <1>3, <1>5, SameFilled
<1>7. WriterInv(p)'
  <2>1. \A l \in Loggers : cache[p].chunk \in Chunks => \A i \in Slots :
          Filled(l, cache[p].chunk, i)' <=> Filled(l, cache[p].chunk, i)
    BY <1>0, <1>3 DEF Filled
  <2> QED
    BY <1>0, <1>1, <1>4, <2>1 DEF WriterInv
<1>8. EmissionInv(p, g)'
  <2>1. cache[p].owner = g.log /\ cache[p].next >= 1 /\ cache[p].next \in Nat
    BY <1>0, <1>1, <1>2 DEF EmissionInv, WriterInv, ContextInv, TypeOK
  <2>2. g.pc = "bump" => g.at \in Slots
    BY <1>2, <2>1, ContextAssumption DEF Slots
  <2> QED
    BY <1>0, <1>2, <2>1, <2>2 DEF EmissionInv
<1>9. ASSUME NEW b \in Frames, Len(frames[p]) = 2, b = frames[p][1]
      PROVE  EmissionInv(p, b)' /\ PairInv(b, g)
  <2>1. EmissionInv(p, b) /\ PairInv(b, Top(p)) /\ b.log \in Loggers
    BY <1>1, <1>9 DEF Frames
  <2>2. b.pc = "assign" => AssignInv(p, b)'
    <3> SUFFICES ASSUME b.pc = "assign", AssignInv(p, b)
                 PROVE  AssignInv(p, b)'
      BY <2>1 DEF EmissionInv
    <3> QED
      BY <1>0, <1>1, <1>6, <2>1 DEF AssignInv
  <2> QED
    BY <1>0, <1>2, <2>1, <2>2 DEF EmissionInv, PairInv
<1> QED
  BY <1>0, <1>2, <1>3, <1>5, <1>6, <1>7, <1>8, <1>9, TopStep

LEMMA ClaimKeeps ==
  ASSUME ContextInv, ~Intruded, RecordsInv, NEW p \in Processes, Claim(p)
  PROVE  RecordsInv'
<1>0. /\ frames[p] # <<>> /\ Top(p).pc = "claim"
      /\ UNCHANGED <<cache, memory, ledger>>
  BY DEF Claim
<1>1. /\ Top(p) \in Frames /\ Top(p).log \in Loggers
      /\ Writer(Top(p).log) = p /\ WriterInv(p)
      /\ \A b \in Frames : Len(frames[p]) = 2 /\ b = frames[p][1] =>
           b.log = Top(p).log /\ EmissionInv(p, b) /\ PairInv(b, Top(p))
      /\ Settled(p)
  BY <1>0, TopKnown
<1>2. PICK m \in Loggers : m = Top(p).log
  BY <1>1
<1>3. /\ cursor \in [Loggers -> Nat] /\ ChunkCount \in Nat
      /\ \A l \in Loggers : cursor[l] <= ChunkCount
  BY ContextAssumption DEF RecordsInv, ContextInv, TypeOK
<1>4. PICK k \in Nat : k = IF cursor[m] < ChunkCount THEN cursor[m] + 1 ELSE 0
  BY <1>3
<1>5. PICK g \in Frames :
        /\ OnTop(p, g) /\ g.log = m /\ g.chunk = k
        /\ g.pc = "assign" /\ g.left = Cached
  <2>1. PICK f : f = [Top(p) EXCEPT !.pc = "assign", !.chunk = k,
                                    !.left = Cached]
    OBVIOUS
  <2>2. /\ f \in Frames /\ f.log = m /\ f.chunk = k
        /\ f.pc = "assign" /\ f.left = Cached
    BY <1>1, <1>2, <2>1 DEF Frames, Steps
  <2>3. OnTop(p, f)
    BY <1>2, <1>4, <2>1, Zenon DEF Claim
  <2> QED
    BY <2>2, <2>3
<1>6. cursor' = [cursor EXCEPT ![m] = IF @ < ChunkCount THEN @ + 1 ELSE @]
  BY <1>2 DEF Claim
<1>7. /\ cursor' \in [Loggers -> Nat]
      /\ \A l \in Loggers : cursor'[l] >= cursor[l] /\ cursor'[l] <= ChunkCount
      /\ \A q \in Processes : q # p => cache'[q] = cache[q]
      /\ k # 0 => k = cursor[m] + 1 /\ cursor'[m] = k /\ k <= ChunkCount
  BY <1>0, <1>3, <1>4, <1>6
<1>8. \A l \in Loggers : \A c \in Chunks : \A i \in Slots :
        Filled(l, c, i)' <=> Filled(l, c, i)
  <2> SUFFICES ASSUME NEW l \in Loggers, NEW c \in Chunks, NEW i \in Slots
               PROVE  Filled(l, c, i)' <=> Filled(l, c, i)
    OBVIOUS
  <2>1. ~Opens(g, l, c, i)
    BY <1>5 DEF Opens
  <2>2. Filled(l, c, i)' <=> Filled(l, c, i) \/ Opens(g, l, c, i)
    BY <1>0, <1>5, FilledOnTop DEF ContextInv
  <2> QED
    BY <2>1, <2>2
<1>9. /\ FillInv'
      /\ \A l \in Loggers : \A c \in Chunks : Blank(l, c)' <=> Blank(l, c)
  BY <1>7, <1>8, SameFilled
<1>10. k # 0 => k \in Chunks /\ Blank(m, k)'
  <2> SUFFICES ASSUME k # 0
               PROVE  k \in Chunks /\ Blank(m, k)'
    OBVIOUS
  <2>1. k \in Chunks
    BY <1>3, <1>7 DEF Chunks
  <2>2. Blank(m, k)
    <3> SUFFICES ASSUME NEW i \in Slots, Filled(m, k, i)
                 PROVE  FALSE
      BY DEF Blank
    <3>1. k <= cursor[m]
      BY <2>1 DEF RecordsInv, FillInv
    <3> QED
      BY <1>3, <1>7, <3>1
  <2> QED
    BY <1>9, <2>1, <2>2
<1>11. cache[p].chunk \in Nat /\ \A l \in Loggers : cursor[l] \in Nat
  BY <1>3 DEF ContextInv, TypeOK
<1>12. WriterInv(p)'
  <2>1. \A l \in Loggers : cache[p].chunk \in Chunks => \A i \in Slots :
          Filled(l, cache[p].chunk, i)' <=> Filled(l, cache[p].chunk, i)
    BY <1>0, <1>8 DEF Filled
  <2>2. ASSUME NEW l \in Loggers, cache[p].chunk <= cursor[l]
        PROVE  cache[p].chunk <= cursor'[l]
    BY <1>7, <1>11, <2>2
  <2> QED
    BY <1>0, <1>1, <2>1, <2>2 DEF WriterInv
<1>13. cache[p].owner = m /\ k # 0 => cache[p].chunk # k
  <2>1. cache[p].owner = m /\ cache[p].chunk # 0 => cache[p].chunk <= cursor[m]
    BY <1>1, <1>2 DEF WriterInv
  <2> QED
    BY <1>3, <1>7, <1>11, <2>1
<1>14. EmissionInv(p, g)'
  <2>1. AssignInv(p, g)'
    BY <1>0, <1>5, <1>7, <1>10, <1>13 DEF AssignInv, Cached
  <2> QED
    BY <1>5, <2>1 DEF EmissionInv
<1>15. ASSUME NEW b \in Frames, Len(frames[p]) = 2, b = frames[p][1]
       PROVE  EmissionInv(p, b)' /\ PairInv(b, g)
  <2>1. EmissionInv(p, b) /\ PairInv(b, Top(p)) /\ b.log = m
    BY <1>1, <1>2, <1>15
  <2>2. b.pc = "assign" => AssignInv(p, b)' /\ (b.chunk # 0 => b.chunk # k)
    <3> SUFFICES ASSUME b.pc = "assign", AssignInv(p, b)
                 PROVE  AssignInv(p, b)' /\ (b.chunk # 0 => b.chunk # k)
      BY <2>1 DEF EmissionInv
    <3>1. b.chunk # 0 => b.chunk \in Chunks /\ b.chunk <= cursor[m]
      BY <2>1 DEF AssignInv
    <3>2. b.chunk # 0 => b.chunk # k /\ b.chunk <= cursor'[m]
      BY <1>3, <1>7, <3>1 DEF Chunks
    <3>3. Settled(p)' => Settled(p)
      BY <1>1
    <3> QED
      BY <1>0, <1>9, <2>1, <3>2, <3>3 DEF AssignInv
  <2> QED
    BY <1>0, <1>5, <2>1, <2>2 DEF EmissionInv, PairInv
<1> QED
  BY <1>0, <1>5, <1>7, <1>8, <1>9, <1>12, <1>14, <1>15, TopStep

LEMMA BumpKeeps ==
  ASSUME ContextInv, ~Intruded, RecordsInv, NEW p \in Processes, Bump(p)
  PROVE  RecordsInv'
<1>0. /\ frames[p] # <<>> /\ Top(p).pc = "bump"
      /\ cache' = [cache EXCEPT ![p].next = Top(p).at + 1]
      /\ UNCHANGED <<cursor, memory, ledger>>
  BY DEF Bump
<1>1. /\ Top(p) \in Frames /\ Top(p).log \in Loggers
      /\ Writer(Top(p).log) = p /\ WriterInv(p) /\ EmissionInv(p, Top(p))
      /\ \A b \in Frames : Len(frames[p]) = 2 /\ b = frames[p][1] =>
           b.log = Top(p).log /\ EmissionInv(p, b) /\ PairInv(b, Top(p))
      /\ Settled(p)
  BY <1>0, TopKnown
<1>2. PICK m \in Loggers, d \in Nat, n \in Nat :
        m = Top(p).log /\ d = Top(p).chunk /\ n = Top(p).at
  BY <1>1 DEF Frames
<1>3. /\ cache[p].owner = m /\ cache[p].chunk = d /\ cache[p].next = n
      /\ d # 0 /\ n \in Slots
      /\ d \in Chunks /\ d <= cursor[m] /\ Writer(m) = p
      /\ \A i \in Slots : Filled(m, d, i) <=> i < n
  BY <1>0, <1>1, <1>2 DEF EmissionInv, WriterInv
<1>4. PICK g \in Frames :
        /\ OnTop(p, g) /\ g.log = m /\ g.chunk = d /\ g.at = n
        /\ g.pc = "commit"
  <2>1. PICK f : f = [Top(p) EXCEPT !.pc = "commit"]
    OBVIOUS
  <2>2. f \in Frames /\ f.log = m /\ f.chunk = d /\ f.at = n /\ f.pc = "commit"
    BY <1>1, <1>2, <2>1 DEF Frames, Steps
  <2>3. OnTop(p, f)
    BY <2>1, Zenon DEF Bump
  <2> QED
    BY <2>2, <2>3
<1>5. /\ cache'[p].owner = m /\ cache'[p].chunk = d /\ cache'[p].next = n + 1
      /\ \A q \in Processes : q # p => cache'[q] = cache[q]
  <2>1. cache \in [Processes -> [owner : Loggers \cup {NoLogger},
                                 chunk : Nat, next : Nat]]
    BY DEF ContextInv, TypeOK
  <2>2. cache' = [cache EXCEPT ![p] = [cache[p] EXCEPT !.next = n + 1]]
    BY <1>0, <1>2
  <2> QED
    BY <1>3, <2>1, <2>2
<1>6. \A l \in Loggers : \A c \in Chunks : \A i \in Slots :
        Filled(l, c, i)' <=> Filled(l, c, i) \/ (l = m /\ c = d /\ i = n)
  <2> SUFFICES ASSUME NEW l \in Loggers, NEW c \in Chunks, NEW i \in Slots
               PROVE  Filled(l, c, i)' <=>
                        Filled(l, c, i) \/ (l = m /\ c = d /\ i = n)
    OBVIOUS
  <2>1. Opens(g, l, c, i) <=> l = m /\ c = d /\ i = n
    BY <1>4 DEF Opens
  <2>2. Filled(l, c, i)' <=> Filled(l, c, i) \/ Opens(g, l, c, i)
    BY <1>0, <1>4, FilledOnTop DEF ContextInv
  <2> QED
    BY <2>1, <2>2
<1>7. Settled(p)'
  BY <1>0, <1>4, SettledOnTop
<1>8. /\ cursor' \in [Loggers -> Nat]
      /\ \A l \in Loggers : cursor'[l] >= cursor[l] /\ cursor'[l] <= ChunkCount
  BY <1>0 DEF RecordsInv, ContextInv, TypeOK
<1>9. FillInv'
  <2> SUFFICES ASSUME NEW l \in Loggers, NEW c \in Chunks, NEW i \in Slots,
                      Filled(l, c, i)'
               PROVE  /\ c <= cursor[l]
                      /\ \A j \in 1..(i - 1) : Filled(l, c, j)'
    BY <1>0 DEF FillInv
  <2>1. 1..(i - 1) \subseteq Slots /\ \A j \in 1..(i - 1) : j < i
    BY ContextAssumption DEF Slots
  <2>2. CASE Filled(l, c, i)
    <3>1. c <= cursor[l] /\ \A j \in 1..(i - 1) : Filled(l, c, j)
      BY <2>2 DEF RecordsInv, FillInv
    <3> QED
      BY <1>6, <2>1, <3>1
  <2>3. CASE l = m /\ c = d /\ i = n
    <3>1. \A j \in 1..(i - 1) : Filled(m, d, j)
      BY <1>3, <2>1, <2>3
    <3> QED
      BY <1>3, <1>6, <2>1, <2>3, <3>1
  <2> QED
    BY <1>6, <2>2, <2>3
<1>10. WriterInv(p)'
  <2>1. \A i \in Slots : Filled(m, d, i)' <=> i < n + 1
    <3> SUFFICES ASSUME NEW i \in Slots
                 PROVE  Filled(m, d, i)' <=> i < n + 1
      OBVIOUS
    <3>1. i < n + 1 <=> i < n \/ i = n
      BY DEF Slots
    <3> QED
      BY <1>3, <1>6, <3>1
  <2>2. p = "parent" => m # Own
    BY <1>1, <1>3 DEF WriterInv
  <2>3. n + 1 >= 1
    OBVIOUS
  <2>4. \A i \in Slots : Filled(m, cache[p].chunk, i)' <=> Filled(m, d, i)'
    BY <1>5 DEF Filled
  <2> QED
    BY <1>0, <1>3, <1>5, <2>1, <2>2, <2>3, <2>4 DEF WriterInv
<1>11. memory[<<m, d, n>>] = Zero
  <2>1. ~Filled(m, d, n)
    BY <1>3
  <2> QED
    BY <2>1 DEF Filled
<1>12. EmissionInv(p, g)'
  BY <1>0, <1>3, <1>4, <1>11 DEF EmissionInv
<1>13. ASSUME NEW b \in Frames, Len(frames[p]) = 2, b = frames[p][1]
       PROVE  EmissionInv(p, b)' /\ PairInv(b, g)
  <2>1. EmissionInv(p, b) /\ PairInv(b, Top(p)) /\ b.log = m
    BY <1>1, <1>2, <1>13
  <2>2. b.pc = "assign" => AssignInv(p, b)'
    <3> SUFFICES ASSUME b.pc = "assign", AssignInv(p, b), b.left = Cached
                 PROVE  AssignInv(p, b)'
      BY <2>1 DEF EmissionInv, PairInv
    <3>1. ASSUME b.chunk # 0
          PROVE  /\ b.chunk \in Chunks /\ b.chunk <= cursor[m]
                 /\ Blank(m, b.chunk) /\ d # b.chunk
      BY <1>1, <1>3, <2>1, <3>1 DEF AssignInv
    <3>2. b.chunk # 0 => Blank(m, b.chunk)'
      BY <1>6, <3>1 DEF Blank
    <3> QED
      BY <1>0, <1>5, <2>1, <3>1, <3>2 DEF AssignInv, Cached
  <2>3. ~(b.pc = "commit" /\ b.chunk = d /\ b.at = n)
    <3> SUFFICES ASSUME b.pc = "commit", b.chunk = d, b.at = n
                 PROVE  FALSE
      OBVIOUS
    <3>1. Opens(b, m, d, n)
      BY <2>1 DEF Opens
    <3>2. 1 \in 1..Len(frames[p])
      BY <1>13
    <3>3. OpenIn(frames[p], m, d, n)
      BY <1>13, <3>1, <3>2 DEF OpenIn
    <3>4. Filled(m, d, n)
      BY <3>3 DEF Filled
    <3> QED
      BY <1>3, <3>4
  <2> QED
    BY <1>0, <1>4, <1>5, <2>1, <2>2, <2>3 DEF EmissionInv, PairInv
<1>14. \A l \in Loggers : Writer(l) # p =>
         \A c \in Chunks : \A i \in Slots :
           Filled(l, c, i)' <=> Filled(l, c, i)
  BY <1>3, <1>6
<1> QED
  BY <1>0, <1>4, <1>5, <1>8, <1>9, <1>10, <1>12, <1>13, <1>14, TopStep


LEMMA AssignKeeps ==
  ASSUME ContextInv, ~Intruded, RecordsInv, NEW p \in Processes,
         NEW field \in Cached, Assign(p, field)
  PROVE  RecordsInv'
<1>0. /\ frames[p] # <<>> /\ Top(p).pc = "assign" /\ field \in Top(p).left
      /\ UNCHANGED <<cursor, memory, ledger>>
  BY DEF Assign
<1>1. /\ Top(p) \in Frames /\ Top(p).log \in Loggers
      /\ Writer(Top(p).log) = p /\ WriterInv(p) /\ EmissionInv(p, Top(p))
      /\ \A b \in Frames : Len(frames[p]) = 2 /\ b = frames[p][1] =>
           b.log = Top(p).log /\ EmissionInv(p, b) /\ PairInv(b, Top(p))
  BY <1>0, TopKnown
<1>2. PICK m \in Loggers, d \in Nat : m = Top(p).log /\ d = Top(p).chunk
  BY <1>1 DEF Frames
<1>3. PICK before \in SUBSET Cached : before = Top(p).left
  BY <1>1 DEF Frames
<1>4. PICK g \in Frames :
        /\ OnTop(p, g) /\ g.log = m /\ g.chunk = d
        /\ g.left = before \ {field}
        /\ \/ g.pc = "load" /\ before = {field}
           \/ g.pc = "assign" /\ before # {field}
  <2>1. PICK step \in Steps :
          step = IF before = {field} THEN "load" ELSE "assign"
    BY DEF Steps
  <2>2. PICK rest \in SUBSET Cached : rest = before \ {field}
    OBVIOUS
  <2>3. PICK f : f = [Top(p) EXCEPT !.left = rest, !.pc = step]
    OBVIOUS
  <2>4. f \in Frames /\ f.log = m /\ f.chunk = d /\ f.left = rest /\ f.pc = step
    BY <1>1, <1>2, <2>3 DEF Frames
  <2>5. OnTop(p, f)
    <3>1. OnTop(p, [Top(p) EXCEPT
            !.left = Top(p).left \ {field},
            !.pc = IF Top(p).left = {field} THEN "load" ELSE "assign"])
      BY Zenon DEF Assign
    <3> QED
      BY <1>3, <2>1, <2>2, <2>3, <3>1, Zenon
  <2> QED
    BY <2>1, <2>2, <2>4, <2>5
<1>5. /\ cache'[p].owner = IF field = "owner" THEN m ELSE cache[p].owner
      /\ cache'[p].chunk = IF field = "chunk" THEN d ELSE cache[p].chunk
      /\ cache'[p].next = IF field = "next" THEN 1 ELSE cache[p].next
      /\ \A q \in Processes : q # p => cache'[q] = cache[q]
  <2>1. cache \in [Processes -> [owner : Loggers \cup {NoLogger},
                                 chunk : Nat, next : Nat]]
    BY DEF ContextInv, TypeOK
  <2>2. CASE field = "chunk"
    <3>1. cache' = [cache EXCEPT ![p] = [cache[p] EXCEPT !.chunk = d]]
      BY <1>2, <2>2 DEF Assign
    <3> QED
      BY <2>1, <2>2, <3>1
  <2>3. CASE field = "next"
    <3>1. cache' = [cache EXCEPT ![p] = [cache[p] EXCEPT !.next = 1]]
      BY <2>3 DEF Assign
    <3> QED
      BY <2>1, <2>3, <3>1
  <2>4. CASE field = "owner"
    <3>1. cache' = [cache EXCEPT ![p] = [cache[p] EXCEPT !.owner = m]]
      BY <1>2, <2>4 DEF Assign
    <3> QED
      BY <2>1, <2>4, <3>1
  <2> QED
    BY <2>2, <2>3, <2>4 DEF Cached
<1>6. \A l \in Loggers : \A c \in Chunks : \A i \in Slots :
        Filled(l, c, i)' <=> Filled(l, c, i)
  <2> SUFFICES ASSUME NEW l \in Loggers, NEW c \in Chunks, NEW i \in Slots
               PROVE  Filled(l, c, i)' <=> Filled(l, c, i)
    OBVIOUS
  <2>1. ~Opens(g, l, c, i)
    BY <1>4 DEF Opens
  <2>2. Filled(l, c, i)' <=> Filled(l, c, i) \/ Opens(g, l, c, i)
    BY <1>0, <1>4, FilledOnTop DEF ContextInv
  <2> QED
    BY <2>1, <2>2
<1>7. /\ cursor' \in [Loggers -> Nat]
      /\ \A l \in Loggers : cursor'[l] >= cursor[l] /\ cursor'[l] <= ChunkCount
  BY <1>0 DEF RecordsInv, ContextInv, TypeOK
<1>8. /\ FillInv'
      /\ \A l \in Loggers : \A c \in Chunks : Blank(l, c)' <=> Blank(l, c)
  BY <1>6, <1>7, SameFilled
<1>9. Settled(p)' => g.pc = "load" /\ before = {field}
  <2>1. field \notin g.left /\ g.left # Cached
    BY <1>4
  <2> QED
    BY <1>0, <1>4, <2>1, SettledOnTop
<1>10. /\ "owner" \notin g.left => cache'[p].owner = m
       /\ "chunk" \notin g.left => cache'[p].chunk = d
       /\ "next" \notin g.left => cache'[p].next = 1
       /\ d # 0 => d \in Chunks /\ d <= cursor[m] /\ Blank(m, d)
  <2>1. AssignInv(p, Top(p))
    BY <1>0, <1>1 DEF EmissionInv
  <2> QED
    BY <1>2, <1>3, <1>4, <1>5, <2>1 DEF AssignInv
<1>11. Settled(p)' => /\ cache'[p].owner = m /\ cache'[p].chunk = d
                      /\ cache'[p].next = 1
  BY <1>4, <1>9, <1>10
<1>12. WriterInv(p)'
  <2>1. cache'[p].next >= 1
    BY <1>1, <1>5 DEF WriterInv
  <2>2. p = "parent" => cache'[p].owner # Own
    BY <1>1, <1>2, <1>5, ContextAssumption DEF WriterInv, Writer
  <2>3. ASSUME Settled(p)', d # 0
        PROVE  \A i \in Slots : Filled(m, d, i)' <=> i < 1
    BY <1>8, <1>10, <2>3, ContextAssumption DEF Blank, Slots
  <2>4. ASSUME cache'[p].chunk = d
        PROVE  \A i \in Slots : Filled(m, cache[p].chunk, i)' <=> Filled(m, d, i)'
    BY <2>4 DEF Filled
  <2> QED
    BY <1>0, <1>10, <1>11, <2>1, <2>2, <2>3, <2>4 DEF WriterInv
<1>13. EmissionInv(p, g)'
  <2>1. g.pc = "load" => cache'[p].owner = m
    BY <1>4, <1>10
  <2>2. g.pc = "assign" => AssignInv(p, g)'
    BY <1>0, <1>4, <1>8, <1>9, <1>10 DEF AssignInv
  <2> QED
    BY <1>4, <2>1, <2>2 DEF EmissionInv
<1>14. ASSUME NEW b \in Frames, Len(frames[p]) = 2, b = frames[p][1]
       PROVE  EmissionInv(p, b)' /\ PairInv(b, g)
  <2>1. EmissionInv(p, b) /\ PairInv(b, Top(p)) /\ b.log = m
    BY <1>1, <1>2, <1>14
  <2>2. b.pc = "assign" => AssignInv(p, b)'
    <3> SUFFICES ASSUME b.pc = "assign", AssignInv(p, b), b.left = Cached,
                        b.chunk # 0 => b.chunk # d
                 PROVE  AssignInv(p, b)'
      BY <1>0, <1>2, <2>1 DEF EmissionInv, PairInv
    <3>1. b.chunk # 0 => /\ b.chunk \in Chunks /\ b.chunk <= cursor[m]
                         /\ Blank(m, b.chunk)
      BY <2>1 DEF AssignInv
    <3> QED
      BY <1>0, <1>8, <1>11, <2>1, <3>1 DEF AssignInv, Cached
  <2>3. b.pc = "load" => cache'[p].owner = m
    BY <1>5, <2>1 DEF EmissionInv
  <2> QED
    BY <1>0, <1>2, <1>4, <1>5, <2>1, <2>2, <2>3 DEF EmissionInv, PairInv
<1> QED
  BY <1>0, <1>4, <1>5, <1>6, <1>7, <1>8, <1>12, <1>13, <1>14, TopStep

(* An emission begins, alone or as a handler's.                            *)
LEMMA BeginKeeps ==
  ASSUME ContextInv, ~Intruded, RecordsInv, NEW p \in Processes,
         NEW n \in {0, 1}, Len(frames[p]) = n,
         NEW t \in Frames, NEW s \in Seq(Frames),
         frames' = [frames EXCEPT ![p] = s],
         Len(s) = n + 1, s[n + 1] = t, \A k \in 1..n : s[k] = frames[p][k],
         \/ t.pc = "claim"
         \/ t.pc = "load" /\ cache[p].owner = t.log,
         n = 1 => ~Updating(frames[p][1]),
         UNCHANGED <<cursor, cache, memory, ledger>>
  PROVE  RecordsInv'
<1>1. /\ frames'[p] = s /\ frames[p] \in Seq(Frames)
      /\ \A q \in Processes : q # p => frames'[q] = frames[q]
  BY DEF ContextInv, TypeOK
<1>2. \A l \in Loggers : \A c \in Chunks : \A i \in Slots :
        Filled(l, c, i)' <=> Filled(l, c, i)
  <2> SUFFICES ASSUME NEW l \in Loggers, NEW c \in Chunks, NEW i \in Slots
               PROVE  Filled(l, c, i)' <=> Filled(l, c, i)
    OBVIOUS
  <2>1. OpenIn(s, l, c, i) <=> OpenIn(frames[p], l, c, i)
    <3>1. s[n + 1].pc # "commit"
      OBVIOUS
    <3> QED
      BY <1>1, <3>1, OpenBegun
  <2>2. \A q \in Processes :
          OpenIn(frames'[q], l, c, i) <=> OpenIn(frames[q], l, c, i)
    BY <1>1, <2>1
  <2>3. Filled(l, c, i)' <=> \/ memory[<<l, c, i>>] # Zero
                             \/ \E q \in Processes : OpenIn(frames'[q], l, c, i)
    BY DEF Filled, OpenIn, Opens
  <2>4. Filled(l, c, i) <=> \/ memory[<<l, c, i>>] # Zero
                            \/ \E q \in Processes : OpenIn(frames[q], l, c, i)
    BY DEF Filled
  <2> QED
    BY <2>2, <2>3, <2>4, Zenon
<1>3. /\ cursor' \in [Loggers -> Nat]
      /\ \A l \in Loggers : cursor'[l] >= cursor[l] /\ cursor'[l] <= ChunkCount
  BY DEF RecordsInv, ContextInv, TypeOK
<1>4. /\ FillInv'
      /\ \A l \in Loggers : \A c \in Chunks : Blank(l, c)' <=> Blank(l, c)
  BY <1>2, <1>3, SameFilled
<1>5. ProcessInv(p)
  BY DEF RecordsInv
<1>6. Settled(p)' => Settled(p)
  <2> SUFFICES ASSUME Settled(p)', NEW k \in 1..Len(frames[p]),
                      frames[p][k].pc = "assign"
               PROVE  frames[p][k].left = Cached
    BY DEF Settled
  <2>1. k \in 1..Len(s) /\ s[k] = frames[p][k]
    OBVIOUS
  <2> QED
    BY <1>1, <2>1 DEF Settled
<1>7. WriterInv(p)'
  <2>1. \A l \in Loggers : cache[p].chunk \in Chunks => \A i \in Slots :
          Filled(l, cache[p].chunk, i)' <=> Filled(l, cache[p].chunk, i)
    BY <1>2 DEF Filled
  <2> QED
    BY <1>5, <1>6, <2>1 DEF ProcessInv, WriterInv
<1>8. EmissionInv(p, t)'
  BY DEF EmissionInv
<1>9. ASSUME NEW b \in Frames, n = 1, b = frames[p][1]
      PROVE  EmissionInv(p, b)' /\ PairInv(b, t)
  <2>1. EmissionInv(p, b)
    BY <1>5, <1>9 DEF ProcessInv
  <2>2. b.pc = "assign" => AssignInv(p, b)'
    <3> SUFFICES ASSUME b.pc = "assign", AssignInv(p, b)
                 PROVE  AssignInv(p, b)'
      BY <2>1 DEF EmissionInv
    <3>1. b.log \in Loggers
      BY DEF Frames
    <3> QED
      BY <1>4, <1>6, <3>1 DEF AssignInv
  <2>3. EmissionInv(p, b)'
    BY <2>1, <2>2 DEF EmissionInv
  <2>4. PairInv(b, t)
    BY <1>9 DEF PairInv, Updating
  <2> QED
    BY <2>3, <2>4
<1>10. ProcessInv(p)'
  <2>1. CASE n = 0
    <3>1. /\ Len(frames'[p]) = 1
          /\ \A k \in 1..Len(frames'[p]) : frames'[p][k] = t
      <4>1. Len(s) = 1 /\ s[1] = t
        BY <2>1
      <4>2. \A k \in 1..1 : k = 1
        OBVIOUS
      <4> QED
        BY <1>1, <4>1, <4>2
    <3>2. \A k \in 1..Len(frames'[p]) : EmissionInv(p, frames[p][k])'
      BY <1>8, <3>1
    <3> QED
      BY <1>7, <3>1, <3>2 DEF ProcessInv
  <2>2. CASE n = 1
    <3>1. /\ Len(frames'[p]) = 2 /\ frames'[p][2] = t
          /\ frames'[p][1] = frames[p][1] /\ frames[p][1] \in Frames
      BY <1>1, <2>2
    <3>2. PICK b \in Frames : b = frames[p][1]
      BY <3>1
    <3>3. EmissionInv(p, b)' /\ PairInv(b, t)
      BY <1>9, <2>2, <3>2
    <3>4. EmissionInv(p, frames[p][1])' /\ EmissionInv(p, frames[p][2])'
      BY <1>8, <3>1, <3>2, <3>3
    <3>5. \A k \in 1..Len(frames'[p]) : EmissionInv(p, frames[p][k])'
      <4>1. 1..Len(frames'[p]) = {1, 2}
        BY <3>1
      <4> QED
        BY <3>4, <4>1
    <3>6. PairInv(frames[p][1], frames[p][2])'
      BY <3>1, <3>2, <3>3 DEF PairInv
    <3> QED
      BY <1>7, <3>5, <3>6 DEF ProcessInv
  <2> QED
    BY <2>1, <2>2
<1>11. ASSUME NEW q \in Processes, q # p
       PROVE  ProcessInv(q)'
  BY <1>1, <1>2, <1>3, <1>11, OtherProcess
<1>12. StoredInv'
  BY DEF RecordsInv, StoredInv
<1>13. \A q \in Processes : ProcessInv(q)'
  BY <1>10, <1>11
<1> QED
  BY <1>3, <1>4, <1>12, <1>13 DEF RecordsInv

LEMMA FrameStart ==
  ASSUME ContextInv, NEW p \in Processes, active[p] \in Loggers,
         NEW id \in Nat
  PROVE  \/ Frame(p, id).pc = "claim"
         \/ Frame(p, id).pc = "load" /\ cache[p].owner = Frame(p, id).log
<1>1. Frame(p, id).pc = IF cache[p].owner = active[p] THEN "load" ELSE "claim"
  BY DEF Frame
<1> QED
  BY <1>1, FrameFacts

LEMMA InterruptKeeps ==
  ASSUME ContextInv, ~Intruded, RecordsInv, NEW p \in Processes,
         NEW id \in ScopeIds \cup {0}, Interrupt(p, id), ~torn'
  PROVE  RecordsInv'
<1>1. /\ frames[p] \in Seq(Frames) /\ Len(frames[p]) = 1 /\ id \in Nat
      /\ UNCHANGED <<cursor, cache, memory, ledger>>
  BY ContextAssumption DEF Interrupt, ContextInv, TypeOK
<1>2. frames[p] # <<>>
  <2> SUFFICES ASSUME frames[p] = <<>>
               PROVE  Len(frames[p]) = 0
    BY <1>1
  <2> QED
    BY EmptySeq
<1>3. active[p] \in Loggers
  BY <1>2 DEF ContextInv, FramesInv
<1>4. PICK t \in Frames : t = Frame(p, id)
  BY <1>1, <1>3, FrameFacts
<1>5. PICK s \in Seq(Frames) :
        /\ s = Append(frames[p], t) /\ Len(s) = 1 + 1 /\ s[1 + 1] = t
        /\ \A k \in 1..1 : s[k] = frames[p][k]
  <2>1. PICK s \in Seq(Frames) : s = Append(frames[p], t)
    BY <1>1, AppendFacts
  <2>2. /\ Len(s) = Len(frames[p]) + 1 /\ s[Len(frames[p]) + 1] = t
        /\ \A k \in 1..Len(frames[p]) : s[k] = frames[p][k]
    BY <1>1, <2>1, AppendFacts
  <2> QED
    BY <1>1, <2>1, <2>2
<1>6. frames' = [frames EXCEPT ![p] = s]
  BY <1>4, <1>5, Zenon DEF Interrupt
<1>7. ~Updating(frames[p][1])
  <2>1. Top(p) = frames[p][1]
    BY <1>1, <1>2, TopFacts DEF ContextInv
  <2>2. ~Updating(Top(p))
    BY Zenon DEF Interrupt
  <2> QED
    BY <2>1, <2>2
<1>8. \/ t.pc = "claim"
      \/ t.pc = "load" /\ cache[p].owner = t.log
  BY <1>1, <1>3, <1>4, FrameStart
<1> QED
  <2>1. PICK n \in {0, 1} : n = 1
    OBVIOUS
  <2>2. /\ Len(frames[p]) = n /\ Len(s) = n + 1 /\ s[n + 1] = t
        /\ \A k \in 1..n : s[k] = frames[p][k]
    BY <1>1, <1>5, <2>1
  <2> QED
    BY <1>1, <1>6, <1>7, <1>8, <2>2, BeginKeeps

LEMMA CallKeeps ==
  ASSUME ContextInv, ~Intruded, RecordsInv, NEW p \in Processes, Call(p),
         active[p] # NoLogger
  PROVE  RecordsInv'
<1>1. /\ frames[p] = <<>> /\ Len(frames[p]) = 0 /\ corr[p] \in Nat
      /\ active[p] \in Loggers
      /\ UNCHANGED <<cursor, cache, memory, ledger>>
  BY DEF Call, Idle, ContextInv, TypeOK
<1>2. PICK t \in Frames : t = Frame(p, corr[p])
  BY <1>1, FrameFacts
<1>3. PICK s \in Seq(Frames) : s = <<t>>
  <2>1. <<t>> \in Seq(Frames)
    OBVIOUS
  <2> QED
    BY <2>1, Zenon
<1>4. frames' = [frames EXCEPT ![p] = s]
  BY <1>2, <1>3 DEF Call
<1>5. \/ t.pc = "claim"
      \/ t.pc = "load" /\ cache[p].owner = t.log
  BY <1>1, <1>2, FrameStart
<1> QED
  <2>1. PICK n \in {0, 1} : n = 0
    OBVIOUS
  <2>2. /\ Len(frames[p]) = n /\ Len(s) = n + 1 /\ s[n + 1] = t
        /\ \A k \in 1..n : s[k] = frames[p][k]
    BY <1>1, <1>3, <2>1
  <2>3. n # 1
    BY <2>1
  <2> QED
    BY <1>1, <1>4, <1>5, <2>2, <2>3, BeginKeeps

-----------------------------------------------------------------------------
(* Returns.                                                                *)

(* The emission on top returns, its record stored or dropped.              *)
LEMMA EndKeeps ==
  ASSUME ContextInv, ~Intruded, RecordsInv, NEW p \in Processes,
         frames[p] # <<>>, NEW isDropped \in BOOLEAN, Return(p, isDropped),
         UNCHANGED <<cursor, cache>>,
         NEW m \in Loggers, m = Top(p).log, Top(p).pc # "assign",
         \A l \in Loggers : \A c \in Chunks : \A i \in Slots :
           Filled(l, c, i)' <=> Filled(l, c, i),
         \A l \in Loggers : \A c \in Chunks : \A i \in Slots :
           \/ memory'[<<l, c, i>>] = memory[<<l, c, i>>]
           \/ Opens(Top(p), l, c, i) /\ memory[<<l, c, i>>] = Zero,
         ~isDropped => \E c \in Chunks, i \in Slots :
                         memory'[<<m, c, i>>] = Top(p).id
  PROVE  RecordsInv'
<1>1. PICK n \in {1, 2} : Len(frames[p]) = n
  BY DEF ContextInv, FramesInv
<1>2. /\ frames[p] \in Seq(Frames) /\ Top(p) \in Frames
      /\ Top(p) = frames[p][n]
  BY <1>1, TopFacts DEF ContextInv
<1>3. PICK s \in Seq(Frames) :
        /\ frames' = [frames EXCEPT ![p] = s] /\ Len(s) = n - 1
        /\ \A k \in 1..(n - 1) : s[k] = frames[p][k]
  <2>1. PICK s \in Seq(Frames) : s = Front(frames[p])
    BY <1>2, FrontFacts
  <2>2. Len(s) = n - 1 /\ \A k \in 1..(n - 1) : s[k] = frames[p][k]
    BY <1>1, <1>2, <2>1, FrontFacts
  <2> QED
    BY <2>1, <2>2 DEF Return
<1>4. /\ frames'[p] = s
      /\ \A q \in Processes : q # p => frames'[q] = frames[q]
  BY <1>3 DEF ContextInv, TypeOK
<1>5. /\ cursor' \in [Loggers -> Nat]
      /\ \A l \in Loggers : cursor'[l] >= cursor[l] /\ cursor'[l] <= ChunkCount
  BY DEF RecordsInv, ContextInv, TypeOK
<1>6. /\ FillInv'
      /\ \A l \in Loggers : \A c \in Chunks : Blank(l, c)' <=> Blank(l, c)
  BY <1>5, SameFilled
<1>7. /\ ProcessInv(p) /\ Writer(m) = p
      /\ \A b \in Frames : Len(frames[p]) = 2 /\ b = frames[p][1] =>
           b.log = m /\ EmissionInv(p, b) /\ PairInv(b, Top(p))
      /\ Settled(p)
  BY TopKnown DEF RecordsInv
<1>8. WriterInv(p)'
  <2>1. \A l \in Loggers : cache[p].chunk \in Chunks => \A i \in Slots :
          Filled(l, cache[p].chunk, i)' <=> Filled(l, cache[p].chunk, i)
    BY DEF Filled
  <2> QED
    BY <1>7, <2>1 DEF ProcessInv, WriterInv
<1>9. ASSUME NEW b \in Frames, n = 2, b = frames[p][1]
      PROVE  EmissionInv(p, b)'
  <2>1. b.log = m /\ EmissionInv(p, b) /\ PairInv(b, Top(p))
    BY <1>1, <1>7, <1>9
  <2>2. b.pc = "assign" => AssignInv(p, b)'
    <3> SUFFICES ASSUME b.pc = "assign", AssignInv(p, b)
                 PROVE  AssignInv(p, b)'
      BY <2>1 DEF EmissionInv
    <3> QED
      BY <1>6, <1>7, <2>1 DEF AssignInv
  <2>3. ASSUME b.pc = "commit"
        PROVE  /\ b.chunk \in Chunks /\ b.at \in Slots
               /\ memory'[<<b.log, b.chunk, b.at>>] = Zero
    <3>1. /\ b.chunk \in Chunks /\ b.at \in Slots
          /\ memory[<<m, b.chunk, b.at>>] = Zero
      BY <2>1, <2>3 DEF EmissionInv
    <3>2. memory'[<<m, b.chunk, b.at>>] = memory[<<m, b.chunk, b.at>>]
      BY <2>1, <2>3, <3>1 DEF PairInv, Opens
    <3> QED
      BY <2>1, <3>1, <3>2
  <2>4. b.pc # "bump"
    BY <2>1 DEF PairInv
  <2> QED
    BY <2>1, <2>2, <2>3, <2>4 DEF EmissionInv
<1>10. ProcessInv(p)'
  <2>1. ASSUME NEW k \in 1..Len(frames'[p])
        PROVE  EmissionInv(p, frames[p][k])'
    <3>1. n = 2 /\ k = 1 /\ frames'[p][k] = frames[p][1]
      BY <1>3, <1>4, <2>1
    <3>2. PICK b \in Frames : b = frames[p][1]
      BY <1>1, <1>2, <3>1
    <3>3. EmissionInv(p, b)'
      BY <1>9, <3>1, <3>2
    <3> QED
      BY <3>1, <3>2, <3>3
  <2>2. Len(frames'[p]) # 2
    <3>1. n - 1 # 2
      OBVIOUS
    <3> QED
      BY <1>3, <1>4, <3>1
  <2> QED
    BY <1>8, <2>1, <2>2 DEF ProcessInv
<1>11. ASSUME NEW q \in Processes, q # p
       PROVE  ProcessInv(q)'
  <2>1. \A l \in Loggers : Writer(l) = q =>
          \A c \in Chunks : \A i \in Slots :
            /\ Filled(l, c, i)' <=> Filled(l, c, i)
            /\ memory'[<<l, c, i>>] = memory[<<l, c, i>>]
    BY <1>7, <1>11 DEF Opens
  <2> QED
    BY <1>4, <1>5, <1>11, <2>1, OtherProcess
<1>12. StoredInv'
  <2> SUFFICES ASSUME NEW e \in ledger', ~e.dropped
               PROVE  \E c \in Chunks, i \in Slots :
                        memory'[<<e.log, c, i>>] = e.id
    BY DEF StoredInv
  <2>1. CASE e \in ledger
    <3>1. PICK c \in Chunks, i \in Slots : memory[<<e.log, c, i>>] = e.id
      BY <2>1 DEF RecordsInv, StoredInv
    <3>2. e.log \in Loggers /\ e.id \in Processes \X Nat
      BY <2>1 DEF ContextInv, TypeOK
    <3>3. memory'[<<e.log, c, i>>] = memory[<<e.log, c, i>>]
      BY <3>1, <3>2, CallsAreNotZero
    <3> QED
      BY <3>1, <3>3
  <2>2. CASE e \notin ledger
    <3>1. PICK handler \in BOOLEAN : handler = (Len(frames[p]) = 2)
      BY Zenon
    <3>2. e = [id |-> Top(p).id, log |-> Top(p).log,
               dropped |-> isDropped, handler |-> handler]
      BY <2>2, <3>1, Zenon DEF Return
    <3>3. e.id = Top(p).id /\ e.log = m /\ e.dropped = isDropped
      BY <3>2
    <3> QED
      BY <3>3
  <2> QED
    BY <2>1, <2>2
<1>13. \A q \in Processes : ProcessInv(q)'
  BY <1>10, <1>11
<1> QED
  BY <1>5, <1>6, <1>12, <1>13 DEF RecordsInv

LEMMA OpenAfterReturn ==
  ASSUME TypeOK, NEW p \in Processes, frames[p] # <<>>,
         NEW isDropped \in BOOLEAN, Return(p, isDropped),
         NEW l, NEW c, NEW i
  PROVE  /\ Filled(l, c, i) <=>
              \/ memory[<<l, c, i>>] # Zero
              \/ Opens(Top(p), l, c, i)
              \/ \E q \in Processes : OpenIn(frames'[q], l, c, i)
         /\ Filled(l, c, i)' <=>
              \/ memory'[<<l, c, i>>] # Zero
              \/ \E q \in Processes : OpenIn(frames'[q], l, c, i)
<1>1. PICK n \in Nat \ {0} : n = Len(frames[p])
  BY TopFacts
<1>2. PICK s \in Seq(Frames) :
        /\ frames' = [frames EXCEPT ![p] = s] /\ Len(s) = n - 1
        /\ \A k \in 1..(n - 1) : s[k] = frames[p][k]
  <2>1. PICK s \in Seq(Frames) : s = Front(frames[p])
    BY FrontFacts DEF TypeOK
  <2>2. frames[p] \in Seq(Frames)
    BY DEF TypeOK
  <2>3. /\ Len(s) = Len(frames[p]) - 1
        /\ \A k \in 1..(Len(frames[p]) - 1) : s[k] = frames[p][k]
    BY <2>1, <2>2, FrontFacts
  <2> QED
    BY <1>1, <2>1, <2>3 DEF Return
<1>3. /\ frames[p] \in Seq(Frames) /\ Top(p) = frames[p][n]
      /\ frames'[p] = s
      /\ \A q \in Processes : q # p => frames'[q] = frames[q]
  BY <1>1, <1>2, TopFacts DEF TypeOK
<1>4. OpenIn(frames[p], l, c, i) <=>
        OpenIn(frames'[p], l, c, i) \/ Opens(Top(p), l, c, i)
  BY <1>1, <1>2, <1>3, OpenReturned
<1>5. \A q \in Processes : q # p =>
        (OpenIn(frames'[q], l, c, i) <=> OpenIn(frames[q], l, c, i))
  BY <1>3
<1>6. Filled(l, c, i)' <=> \/ memory'[<<l, c, i>>] # Zero
                           \/ \E q \in Processes : OpenIn(frames'[q], l, c, i)
  BY DEF Filled, OpenIn, Opens
<1>7. Filled(l, c, i) <=> \/ memory[<<l, c, i>>] # Zero
                          \/ \E q \in Processes : OpenIn(frames[q], l, c, i)
  BY DEF Filled
<1> QED
  BY <1>4, <1>5, <1>6, <1>7, Zenon

LEMMA CommitKeeps ==
  ASSUME ContextInv, ~Intruded, RecordsInv, NEW p \in Processes, Commit(p)
  PROVE  RecordsInv'
<1>0. /\ frames[p] # <<>> /\ Top(p).pc = "commit" /\ Return(p, FALSE)
      /\ memory' = [memory EXCEPT ![CommitPlace(p)] = Top(p).id]
      /\ UNCHANGED <<cursor, cache>>
  BY DEF Commit
<1>1. Top(p) \in Frames /\ EmissionInv(p, Top(p))
  BY <1>0, TopKnown
<1>2. PICK m \in Loggers, d \in Chunks, n \in Slots, id \in Processes \X Nat :
        /\ m = Top(p).log /\ d = Top(p).chunk /\ n = Top(p).at
        /\ id = Top(p).id /\ memory[<<m, d, n>>] = Zero
  BY <1>0, <1>1 DEF EmissionInv, Frames
<1>3. memory' = [memory EXCEPT ![<<m, d, n>>] = id]
  BY <1>0, <1>2 DEF CommitPlace
<1>4. memory \in [Loggers \X Chunks \X Slots -> (Processes \X Nat) \cup {Zero}]
  BY DEF ContextInv, TypeOK
<1>5. memory'[<<m, d, n>>] = id /\ id # Zero
  BY <1>3, <1>4, CallsAreNotZero
<1>6. \A l \in Loggers : \A c \in Chunks : \A i \in Slots :
        \/ memory'[<<l, c, i>>] = memory[<<l, c, i>>]
        \/ l = m /\ c = d /\ i = n
  BY <1>3, <1>4
<1>7. ASSUME NEW l \in Loggers, NEW c \in Chunks, NEW i \in Slots
      PROVE  Filled(l, c, i)' <=> Filled(l, c, i)
  <2>1. Opens(Top(p), l, c, i) <=> l = m /\ c = d /\ i = n
    BY <1>0, <1>2 DEF Opens
  <2>2. /\ Filled(l, c, i) <=>
              \/ memory[<<l, c, i>>] # Zero
              \/ Opens(Top(p), l, c, i)
              \/ \E q \in Processes : OpenIn(frames'[q], l, c, i)
        /\ Filled(l, c, i)' <=>
              \/ memory'[<<l, c, i>>] # Zero
              \/ \E q \in Processes : OpenIn(frames'[q], l, c, i)
    BY <1>0, OpenAfterReturn DEF ContextInv
  <2>3. CASE l = m /\ c = d /\ i = n
    BY <1>5, <2>1, <2>2, <2>3, Zenon
  <2>4. CASE ~(l = m /\ c = d /\ i = n)
    <3>1. memory'[<<l, c, i>>] = memory[<<l, c, i>>]
      BY <1>6, <2>4
    <3> QED
      BY <2>1, <2>2, <2>4, <3>1, Zenon
  <2> QED
    BY <2>3, <2>4
<1>8. ASSUME NEW l \in Loggers, NEW c \in Chunks, NEW i \in Slots
      PROVE  \/ memory'[<<l, c, i>>] = memory[<<l, c, i>>]
             \/ Opens(Top(p), l, c, i) /\ memory[<<l, c, i>>] = Zero
  <2>1. CASE l = m /\ c = d /\ i = n
    <3>1. memory[<<l, c, i>>] = memory[<<m, d, n>>]
      BY <2>1
    <3> QED
      BY <1>0, <1>2, <2>1, <3>1, Zenon DEF Opens
  <2>2. CASE ~(l = m /\ c = d /\ i = n)
    BY <1>6, <2>2
  <2> QED
    BY <2>1, <2>2
<1>9. \E c \in Chunks, i \in Slots : memory'[<<m, c, i>>] = Top(p).id
  BY <1>2, <1>5
<1> QED
  <2>1. PICK isDropped \in BOOLEAN : isDropped = FALSE
    OBVIOUS
  <2>2. Return(p, isDropped)
    BY <1>0, <2>1
  <2>3. m = Top(p).log /\ Top(p).pc # "assign"
    BY <1>0, <1>2
  <2> QED
    BY <1>0, <1>7, <1>8, <1>9, <2>2, <2>3, EndKeeps

LEMMA CountDropKeeps ==
  ASSUME ContextInv, ~Intruded, RecordsInv, NEW p \in Processes, CountDrop(p)
  PROVE  RecordsInv'
<1>0. /\ frames[p] # <<>> /\ Top(p).pc = "drop" /\ Return(p, TRUE)
      /\ UNCHANGED <<cursor, cache, memory>>
  BY DEF CountDrop
<1>1. PICK m \in Loggers : m = Top(p).log
  BY <1>0, TopKnown
<1>2. ASSUME NEW l \in Loggers, NEW c \in Chunks, NEW i \in Slots
      PROVE  Filled(l, c, i)' <=> Filled(l, c, i)
  <2>1. ~Opens(Top(p), l, c, i)
    BY <1>0 DEF Opens
  <2>2. /\ Filled(l, c, i) <=>
              \/ memory[<<l, c, i>>] # Zero
              \/ Opens(Top(p), l, c, i)
              \/ \E q \in Processes : OpenIn(frames'[q], l, c, i)
        /\ Filled(l, c, i)' <=>
              \/ memory'[<<l, c, i>>] # Zero
              \/ \E q \in Processes : OpenIn(frames'[q], l, c, i)
    BY <1>0, OpenAfterReturn DEF ContextInv
  <2> QED
    BY <1>0, <2>1, <2>2, Zenon
<1>3. \A l \in Loggers : \A c \in Chunks : \A i \in Slots :
        memory'[<<l, c, i>>] = memory[<<l, c, i>>]
  BY <1>0
<1> QED
  <2>1. PICK isDropped \in BOOLEAN : isDropped = TRUE
    OBVIOUS
  <2>2. Return(p, isDropped)
    BY <1>0, <2>1
  <2> QED
    BY <1>0, <1>1, <1>2, <1>3, <2>1, <2>2, EndKeeps

-----------------------------------------------------------------------------
(* The other steps.                                                        *)

(* A forked child has the writer of its parent, and no segment for it.     *)
LEMMA SameRecords ==
  ASSUME ContextInv, ~Intruded, RecordsInv,
         UNCHANGED <<frames, cursor, memory, ledger>>,
         \A q \in Processes :
           \/ cache'[q] = cache[q]
           \/ /\ q = "child" /\ frames["child"] = <<>>
              /\ cache'["child"] = cache["parent"]
  PROVE  RecordsInv'
<1>1. \A l, c, i : Filled(l, c, i)' <=> Filled(l, c, i)
  BY DEF Filled
<1>2. /\ cursor' \in [Loggers -> Nat]
      /\ \A l \in Loggers : cursor'[l] >= cursor[l] /\ cursor'[l] <= ChunkCount
  BY DEF RecordsInv, ContextInv, TypeOK
<1>3. FillInv' /\ StoredInv'
  BY <1>1, <1>2, SameFilled DEF RecordsInv, StoredInv
<1>4. ASSUME NEW q \in Processes, cache'[q] = cache[q]
      PROVE  ProcessInv(q)'
  BY <1>1, <1>2, <1>4, OtherProcess
<1>5. ASSUME frames["child"] = <<>>, cache'["child"] = cache["parent"]
      PROVE  ProcessInv("child")'
  <2>1. /\ frames'["child"] = <<>> /\ Len(frames'["child"]) = 0
        /\ 1..Len(frames'["child"]) = {}
    BY <1>5
  <2>2. WriterInv("parent")
    BY DEF RecordsInv, ProcessInv, Processes
  <2>3. WriterInv("child")'
    <3>1. \A l \in Loggers : Writer(l) = "child" => l = Own
      BY DEF Writer, Loggers
    <3> QED
      BY <1>5, <2>2, <3>1 DEF WriterInv
  <2> QED
    BY <2>1, <2>3 DEF ProcessInv
<1>6. \A q \in Processes : ProcessInv(q)'
  BY <1>4, <1>5
<1> QED
  BY <1>2, <1>3, <1>6 DEF RecordsInv

LEMMA ForkKeeps ==
  ASSUME ContextInv, ~Intruded, RecordsInv, Fork
  PROVE  RecordsInv'
<1>1. /\ frames["child"] = <<>>
      /\ cache' = [cache EXCEPT !["child"] = cache["parent"]]
      /\ UNCHANGED <<frames, cursor, memory, ledger>>
  BY DEF Fork, ContextInv, UnbornInv
<1>2. /\ cache'["child"] = cache["parent"] /\ cache'["parent"] = cache["parent"]
      /\ Processes = {"parent", "child"}
  BY <1>1 DEF ContextInv, TypeOK, Processes
<1> QED
  BY <1>1, <1>2, SameRecords

LEMMA EmissionKeeps ==
  ASSUME ContextInv, ~Intruded, RecordsInv, NEW p \in Processes, Emission(p)
  PROVE  RecordsInv'
BY ClaimKeeps, LoadKeeps, BumpKeeps, AssignKeeps, CommitKeeps, CountDropKeeps
   DEF Emission

(* A step in a calm state leaves the records where they were.              *)
LEMMA NextKeeps ==
  ASSUME ContextInv, ~Intruded, RecordsInv, [Next]_vars, ~torn'
  PROVE  RecordsInv'
<1>1. ASSUME UNCHANGED <<frames, cursor, memory, ledger, cache>>
      PROVE  RecordsInv'
  BY <1>1, SameRecords
<1>2. ASSUME NEW p \in Processes, NEW l \in Loggers, EnterBind(p, l)
      PROVE  RecordsInv'
  BY <1>1, <1>2 DEF EnterBind
<1>3. ASSUME NEW p \in Processes, LeaveBind(p)
      PROVE  RecordsInv'
  BY <1>1, <1>3 DEF LeaveBind
<1>4. ASSUME NEW p \in Processes, NEW id \in ScopeIds, EnterScope(p, id)
      PROVE  RecordsInv'
  BY <1>1, <1>4 DEF EnterScope
<1>5. ASSUME NEW p \in Processes, LeaveScope(p)
      PROVE  RecordsInv'
  BY <1>1, <1>5 DEF LeaveScope
<1>6. ASSUME NEW p \in Processes, Call(p)
      PROVE  RecordsInv'
  <2>1. CASE active[p] = NoLogger
    <3>1. UNCHANGED <<frames, cursor, memory, ledger, cache>>
      BY <1>6, <2>1 DEF Call
    <3> QED
      BY <1>1, <3>1
  <2> QED
    BY <1>6, <2>1, CallKeeps
<1>7. ASSUME NEW propagate \in BOOLEAN, Spawn(propagate)
      PROVE  RecordsInv'
  <2>1. UNCHANGED <<frames, cursor, memory, ledger, cache>>
    BY <1>7, Zenon DEF Spawn
  <2> QED
    BY <1>1, <2>1
<1>8. ASSUME Create
      PROVE  RecordsInv'
  BY <1>1, <1>8 DEF Create
<1>9. ASSUME UNCHANGED vars
      PROVE  RecordsInv'
  BY <1>1, <1>9 DEF vars
<1> QED
  BY <1>2, <1>3, <1>4, <1>5, <1>6, <1>7, <1>8, <1>9, InterruptKeeps,
     EmissionKeeps, ForkKeeps DEF Next

-----------------------------------------------------------------------------
(* A torn writer and an intrusion last.                                    *)

LEMMA TornLasts ==
  ASSUME [Next]_vars, torn
  PROVE  torn'
<1>1. ASSUME NEW p \in Processes, NEW id \in ScopeIds \cup {0},
             Interrupt(p, id)
      PROVE  torn'
  BY <1>1, Zenon DEF Interrupt
<1>2. ASSUME NEW p \in Processes, Emission(p)
      PROVE  torn' = torn
  <2>1. Claim(p) => torn' = torn
    BY Zenon DEF Claim, history
  <2>2. Load(p) => torn' = torn
    BY Zenon DEF Load, history
  <2>3. Bump(p) => torn' = torn
    BY Zenon DEF Bump, history
  <2>4. Commit(p) => torn' = torn
    BY Zenon DEF Commit
  <2>5. CountDrop(p) => torn' = torn
    BY Zenon DEF CountDrop, history
  <2>6. ASSUME NEW field \in Cached, Assign(p, field)
        PROVE  torn' = torn
    BY <2>6, Zenon DEF Assign, history
  <2> QED
    BY <1>2, <2>1, <2>2, <2>3, <2>4, <2>5, <2>6, Zenon DEF Emission
<1>3. ASSUME NEW p \in Processes, Call(p)
      PROVE  torn' = torn
  BY <1>3 DEF Call, history
<1>4. ASSUME NEW p \in Processes,
             \/ \E l \in Loggers : EnterBind(p, l)
             \/ LeaveBind(p)
             \/ \E id \in ScopeIds : EnterScope(p, id)
             \/ LeaveScope(p)
      PROVE  torn' = torn
  BY <1>4 DEF EnterBind, LeaveBind, EnterScope, LeaveScope, history
<1>5. Fork => torn' = torn
  BY DEF Fork
<1>6. ASSUME NEW propagate \in BOOLEAN, Spawn(propagate)
      PROVE  torn' = torn
  BY <1>6, Zenon DEF Spawn
<1>7. Create => torn' = torn
  BY DEF Create, history
<1>8. UNCHANGED vars => torn' = torn
  BY DEF vars, history
<1>9. ASSUME Next
      PROVE  torn'
  BY <1>1, <1>2, <1>3, <1>4, <1>5, <1>6, <1>7, <1>9, Zenon DEF Next
<1> QED
  BY <1>8, <1>9, Zenon

LEMMA IntrusionLasts ==
  ASSUME ContextInv, Intruded, TypeOK', ledger \subseteq ledger',
         \A k \in 1..Len(frames["child"]) :
           \/ /\ k \in 1..Len(frames'["child"])
              /\ frames'["child"][k].log = frames["child"][k].log
           \/ \E e \in ledger' : /\ e.id[1] = "child"
                                 /\ e.log = frames["child"][k].log
  PROVE  Intruded'
<1>1. /\ frames["child"] \in Seq(Frames) /\ frames'["child"] \in Seq(Frames)
      /\ DOMAIN frames["child"] = 1..Len(frames["child"])
      /\ DOMAIN frames'["child"] = 1..Len(frames'["child"])
  BY DEF ContextInv, TypeOK, Processes
<1>2. CASE \E e \in ledger : e.id[1] = "child" /\ e.log \in Shared
  BY <1>2 DEF Intruded
<1>3. CASE \E k \in DOMAIN frames["child"] : frames["child"][k].log \in Shared
  <2>1. PICK k \in 1..Len(frames["child"]) : frames["child"][k].log \in Shared
    BY <1>1, <1>3
  <2>2. CASE /\ k \in 1..Len(frames'["child"])
             /\ frames'["child"][k].log = frames["child"][k].log
    BY <1>1, <2>1, <2>2 DEF Intruded
  <2>3. CASE \E e \in ledger' : /\ e.id[1] = "child"
                                /\ e.log = frames["child"][k].log
    BY <2>1, <2>3 DEF Intruded
  <2> QED
    BY <2>2, <2>3
<1> QED
  BY <1>2, <1>3 DEF Intruded

LEMMA IntrudedLasts ==
  ASSUME ContextInv, [Next]_vars, Intruded
  PROVE  Intruded'
<1>1. ContextInv' /\ TypeOK' /\ TypeOK
  BY NextContext DEF ContextInv
<1>2. /\ "child" \in Processes
      /\ \A q \in Processes : /\ frames[q] \in Seq(Frames)
                              /\ frames'[q] \in Seq(Frames)
  BY <1>1 DEF TypeOK, Processes
<1>3. ASSUME UNCHANGED <<frames, ledger>>
      PROVE  Intruded'
  BY <1>3 DEF Intruded
<1>4. ASSUME NEW p \in Processes, Reserving(p)
      PROVE  Intruded'
  <2>1. SameCalls /\ UNCHANGED ledger
    BY <1>1, <1>4, ReservingType, ReservingFacts DEF callVars
  <2> QED
    BY <1>1, <1>2, <2>1, IntrusionLasts DEF SameCalls, SameCall
<1>5. ASSUME NEW p \in Processes, NEW s \in Seq(Frames),
             frames' = [frames EXCEPT ![p] = s], UNCHANGED ledger,
             Len(s) >= Len(frames[p]),
             \A k \in 1..Len(frames[p]) : s[k] = frames[p][k]
      PROVE  Intruded'
  <2>1. \/ frames'["child"] = frames["child"]
        \/ p = "child" /\ frames'["child"] = s
    BY <1>1, <1>2, <1>5 DEF TypeOK
  <2>2. \A k \in 1..Len(frames["child"]) :
          k \in 1..Len(frames'["child"])
            /\ frames'["child"][k] = frames["child"][k]
    BY <1>2, <1>5, <2>1
  <2> QED
    BY <1>1, <1>5, <2>2, IntrusionLasts
<1>6. ASSUME NEW p \in Processes, Call(p)
      PROVE  Intruded'
  <2>1. frames[p] = <<>> /\ UNCHANGED ledger
    BY <1>6 DEF Call, Idle
  <2>2. CASE active[p] = NoLogger
    BY <1>3, <1>6, <2>1, <2>2 DEF Call
  <2>3. CASE active[p] # NoLogger
    <3>1. active[p] \in Loggers /\ corr[p] \in Nat
      BY <1>1, <2>3 DEF TypeOK
    <3>2. PICK t \in Frames : t = Frame(p, corr[p])
      BY <3>1, FrameFacts
    <3>3. PICK s \in Seq(Frames) : s = <<t>>
      <4>1. <<t>> \in Seq(Frames)
        OBVIOUS
      <4> QED
        BY <4>1, Zenon
    <3>4. frames' = [frames EXCEPT ![p] = s]
      BY <1>6, <2>3, <3>2, <3>3 DEF Call
    <3>5. Len(frames[p]) = 0 /\ Len(s) >= Len(frames[p])
      BY <2>1, EmptySeq
    <3>6. \A k \in 1..Len(frames[p]) : s[k] = frames[p][k]
      BY <3>5
    <3> QED
      BY <1>5, <2>1, <3>4, <3>5, <3>6
  <2> QED
    BY <2>2, <2>3
<1>7. ASSUME NEW p \in Processes, NEW id \in ScopeIds \cup {0},
             Interrupt(p, id)
      PROVE  Intruded'
  <2>1. id \in Nat /\ Len(frames[p]) = 1 /\ UNCHANGED ledger
    BY <1>7, ContextAssumption DEF Interrupt
  <2>2. frames[p] # <<>>
    <3> SUFFICES ASSUME frames[p] = <<>>
                 PROVE  Len(frames[p]) = 0
      BY <2>1
    <3> QED
      BY EmptySeq
  <2>3. active[p] \in Loggers
    BY <2>2 DEF ContextInv, FramesInv
  <2>4. PICK t \in Frames : t = Frame(p, id)
    BY <2>1, <2>3, FrameFacts
  <2>5. PICK s \in Seq(Frames) : s = Append(frames[p], t)
    BY <1>2, AppendFacts
  <2>6. /\ Len(s) >= Len(frames[p])
        /\ \A k \in 1..Len(frames[p]) : s[k] = frames[p][k]
    <3>1. Len(s) = Len(frames[p]) + 1
      BY <1>2, <2>5, AppendFacts
    <3>2. \A k \in 1..Len(frames[p]) : s[k] = frames[p][k]
      BY <1>2, <2>5, AppendFacts
    <3> QED
      BY <2>1, <3>1, <3>2
  <2>7. frames' = [frames EXCEPT ![p] = s]
    BY <1>7, <2>4, <2>5, Zenon DEF Interrupt
  <2> QED
    BY <1>5, <2>1, <2>6, <2>7
<1>8. ASSUME NEW p \in Processes, NEW isDropped \in BOOLEAN,
             frames[p] # <<>>, Return(p, isDropped)
      PROVE  Intruded'
  <2>1. PICK n \in Nat \ {0} : n = Len(frames[p]) /\ Top(p) = frames[p][n]
    BY <1>1, <1>8, TopFacts
  <2>2. PICK s \in Seq(Frames) : s = Front(frames[p])
    BY <1>2, <1>8, FrontFacts
  <2>3. /\ frames' = [frames EXCEPT ![p] = s] /\ Len(s) = n - 1
        /\ \A k \in 1..(n - 1) : s[k] = frames[p][k]
    <3>1. /\ Len(s) = Len(frames[p]) - 1
          /\ \A k \in 1..(Len(frames[p]) - 1) : s[k] = frames[p][k]
      BY <1>2, <1>8, <2>2, FrontFacts
    <3> QED
      BY <1>8, <2>1, <2>2, <3>1 DEF Return
  <2>4. ledger \subseteq ledger'
    BY <1>8, Zenon DEF Return
  <2>5. \E e \in ledger' : e.id = Top(p).id /\ e.log = Top(p).log
    <3>1. PICK handler \in BOOLEAN : handler = (Len(frames[p]) = 2)
      BY Zenon
    <3>2. PICK e : e = [id |-> Top(p).id, log |-> Top(p).log,
                        dropped |-> isDropped, handler |-> handler]
      OBVIOUS
    <3>3. e \in ledger'
      BY <1>8, <3>1, <3>2, Zenon DEF Return
    <3> QED
      BY <3>2, <3>3
  <2>6. Top(p).id[1] = p
    BY <2>1 DEF ContextInv, LedgerInv
  <2>7. CASE p # "child"
    <3>1. frames'["child"] = frames["child"]
      BY <1>1, <1>2, <2>3, <2>7 DEF TypeOK
    <3> QED
      BY <1>1, <2>4, <3>1, IntrusionLasts
  <2>8. CASE p = "child"
    <3>1. frames'["child"] = s
      BY <1>1, <1>2, <2>3, <2>8 DEF TypeOK
    <3>2. ASSUME NEW k \in 1..Len(frames["child"])
          PROVE  \/ /\ k \in 1..Len(frames'["child"])
                    /\ frames'["child"][k].log = frames["child"][k].log
                 \/ \E e \in ledger' : /\ e.id[1] = "child"
                                       /\ e.log = frames["child"][k].log
      <4>1. CASE k = n
        BY <2>1, <2>5, <2>6, <2>8, <4>1
      <4>2. CASE k # n
        <5>1. k \in 1..(n - 1)
          BY <2>1, <2>8, <4>2
        <5> QED
          BY <2>3, <2>8, <3>1, <5>1
      <4> QED
        BY <4>1, <4>2
    <3> QED
      BY <1>1, <2>4, <3>2, IntrusionLasts
  <2> QED
    BY <2>7, <2>8
<1>9. ASSUME NEW p \in Processes, Commit(p) \/ CountDrop(p)
      PROVE  Intruded'
  <2>1. frames[p] # <<>> /\ (Return(p, FALSE) \/ Return(p, TRUE))
    BY <1>9 DEF Commit, CountDrop
  <2> QED
    BY <1>8, <2>1
<1>10. ASSUME NEW p \in Processes, Emission(p)
       PROVE  Intruded'
  BY <1>4, <1>9, <1>10 DEF Emission, Reserving
<1>11. ASSUME NEW p \in Processes,
              \/ \E l \in Loggers : EnterBind(p, l)
              \/ LeaveBind(p)
              \/ \E id \in ScopeIds : EnterScope(p, id)
              \/ LeaveScope(p)
       PROVE  Intruded'
  BY <1>3, <1>11 DEF EnterBind, LeaveBind, EnterScope, LeaveScope
<1>12. Fork \/ Create \/ UNCHANGED vars => Intruded'
  BY <1>3 DEF Fork, Create, vars
<1>13. ASSUME NEW propagate \in BOOLEAN, Spawn(propagate)
       PROVE  Intruded'
  <2>1. UNCHANGED <<frames, ledger>>
    BY <1>13, Zenon DEF Spawn
  <2> QED
    BY <1>3, <2>1
<1> QED
  BY <1>6, <1>7, <1>10, <1>11, <1>12, <1>13 DEF Next

-----------------------------------------------------------------------------
LEMMA InitRecords == Init => RecordsInv
<1> SUFFICES ASSUME Init
             PROVE  RecordsInv
  OBVIOUS
<1>1. \A p \in Processes : Len(frames[p]) = 0
  BY EmptySeq DEF Init
<1>2. \A l \in Loggers : \A c \in Chunks : \A i \in Slots : ~Filled(l, c, i)
  <2> SUFFICES ASSUME NEW l \in Loggers, NEW c \in Chunks, NEW i \in Slots
               PROVE  ~Filled(l, c, i)
    OBVIOUS
  <2>1. memory[<<l, c, i>>] = Zero
    BY DEF Init
  <2>2. \A p \in Processes : ~OpenIn(frames[p], l, c, i)
    BY <1>1 DEF OpenIn
  <2> QED
    BY <2>1, <2>2 DEF Filled
<1>3. FillInv /\ StoredInv
  BY <1>2 DEF FillInv, StoredInv, Init
<1>4. \A l \in Loggers : cursor[l] <= ChunkCount
  BY ContextAssumption DEF Init
<1>5. ASSUME NEW p \in Processes
      PROVE  ProcessInv(p)
  <2>1. cache[p] = NoCache /\ NoLogger # Own
    BY ContextAssumption DEF Init, Loggers
  <2>2. /\ cache[p].next = 1 /\ cache[p].chunk = 0
        /\ cache[p].owner = NoLogger
    BY <2>1 DEF NoCache
  <2>3. WriterInv(p)
    BY <2>1, <2>2 DEF WriterInv
  <2> QED
    BY <1>1, <2>3 DEF ProcessInv
<1> QED
  BY <1>3, <1>4, <1>5 DEF RecordsInv

LEMMA NextKept == ContextInv /\ KeptInv /\ [Next]_vars => KeptInv'
<1> SUFFICES ASSUME ContextInv, KeptInv, [Next]_vars, ~torn', ~Intruded'
             PROVE  RecordsInv'
  BY Zenon DEF KeptInv
<1>1. ~torn /\ ~Intruded
  BY TornLasts, IntrudedLasts, Zenon
<1>2. RecordsInv
  BY <1>1, Zenon DEF KeptInv
<1> QED
  BY <1>1, <1>2, NextKeeps

(* A handler that interrupts no update of the WriterCache costs no record, *)
(* and a fork none either: what a call reported written stays where the    *)
(* reader gets to it, for any number of Loggers, chunks, slots and calls   *)
(* (reserve, commit, reserveRecord, detachForFork).                        *)
THEOREM RecordsAreKept == Spec => []RecordsStay
<1>1. ContextInv /\ KeptInv => RecordsStay
  <2> SUFFICES ASSUME ContextInv, RecordsInv, NEW e \in ledger, ~e.dropped
               PROVE  \E c \in Chunks, i \in Slots :
                        /\ memory[<<e.log, c, i>>] = e.id
                        /\ \A j \in 1..(i - 1) :
                             \/ memory[<<e.log, c, j>>] # Zero
                             \/ <<e.log, c, j>> \in OpenSlots
    BY Zenon DEF KeptInv, RecordsStay
  <2>1. e.log \in Loggers /\ e.id \in Processes \X Nat
    BY DEF ContextInv, TypeOK
  <2>2. PICK l \in Loggers, c \in Chunks, i \in Slots :
          l = e.log /\ memory[<<l, c, i>>] = e.id
    BY <2>1 DEF RecordsInv, StoredInv
  <2>3. Filled(l, c, i)
    BY <2>1, <2>2, CallsAreNotZero DEF Filled
  <2>4. \A j \in 1..(i - 1) : j \in Slots /\ Filled(l, c, j)
    BY <2>3, ContextAssumption DEF RecordsInv, FillInv, Slots
  <2>5. ASSUME NEW j \in 1..(i - 1), memory[<<l, c, j>>] = Zero
        PROVE  <<l, c, j>> \in OpenSlots
    <3>1. PICK p \in Processes : OpenIn(frames[p], l, c, j)
      BY <2>4, <2>5 DEF Filled
    <3>2. PICK k \in 1..Len(frames[p]) : Opens(frames[p][k], l, c, j)
      BY <3>1 DEF OpenIn
    <3>3. k \in DOMAIN frames[p]
      BY DEF ContextInv, TypeOK
    <3>4. /\ frames[p][k].pc = "commit"
          /\ <<l, c, j>> = <<frames[p][k].log, frames[p][k].chunk,
                             frames[p][k].at>>
      BY <3>2 DEF Opens
    <3>5. <<l, c, j>> \in Loggers \X Chunks \X Slots
      BY <2>4
    <3> QED
      BY <3>3, <3>4, <3>5 DEF OpenSlots
  <2> QED
    BY <2>2, <2>5
<1>2. Init => KeptInv
  BY InitRecords, Zenon DEF KeptInv
<1> QED
  BY <1>1, <1>2, NextKept, ContextInvariance, PTL DEF Spec
=============================================================================
