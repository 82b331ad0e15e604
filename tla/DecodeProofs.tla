---------------------------- MODULE DecodeProofs ----------------------------
(***************************************************************************)
(* Theorems about the decoder's two passes.  Over any stream of records a  *)
(* segment may hold, the result is the whole messages, in their order, and *)
(* the two counters say exactly what is missing.  Over the segment of a    *)
(* process that was killed, that is every message its calls had committed, *)
(* and a message whose arguments were cut says so.  Over the segment of a  *)
(* process that goes on writing, it is whole messages, among them all that *)
(* were there when the decoder began.                                      *)
(***************************************************************************)
EXTENDS KillReadInv, LiveReadInv, DecodeStream, ProducerProofs, CollectionLemmas

-----------------------------------------------------------------------------
(* Streams of records.                                                     *)

(* A finite sequence of views whose names are different.                   *)
IsStream(s) ==
  /\ Len(s) \in Nat /\ DOMAIN s = 1..Len(s)
  /\ \A i \in DOMAIN s : s[i].more \in BOOLEAN /\ s[i].ok \in BOOLEAN
  /\ \A i, j \in DOMAIN s : s[i].id = s[j].id => i = j

Ids(s) == {s[i].id : i \in DOMAIN s}
SitesOf(s) == {s[i].site : i \in DOMAIN s}

(* The decoder of a stream.                                                *)
StreamDecoder(s) ==
  [sites : SUBSET SitesOf(s), names : SUBSET SitesOf(s), messages : Nat,
   result : Seq(Seq(Ids(s))), chain : Seq(Ids(s)), damaged : BOOLEAN,
   skipped : Nat, undecodable : Nat]

(* What was read of Message i up to p is sound and not yet complete.       *)
Pending(s, i, p) == i \in 1..p /\ Sound(s, i) /\ Linked(s, i, p) /\ s[p].more

LEMMA NamesFirst ==
  ASSUME NEW s, NEW i \in Nat, NEW j \in Nat, i <= j
  PROVE  Names(s, i, j)[1] = s[i].id
<1>1. 1 \in 1..(j - i + 1) /\ i + 1 - 1 = i
  OBVIOUS
<1> QED
  BY <1>1 DEF Names

LEMMA NamesFacts ==
  ASSUME NEW s, IsStream(s), NEW i \in DOMAIN s, NEW j \in DOMAIN s, i <= j
  PROVE  /\ Names(s, i, j) \in Seq(Ids(s)) /\ Names(s, i, j) # <<>>
         /\ Names(s, i, j)[1] = s[i].id
         /\ Names(s, i, i) = <<s[i].id>>
         /\ j + 1 \in DOMAIN s =>
              Append(Names(s, i, j), s[j + 1].id) = Names(s, i, j + 1)
<1>1. i \in Nat /\ j \in Nat /\ DOMAIN s = 1..Len(s) /\ Len(s) \in Nat
  BY DEF IsStream
<1>2. PICK n : n = j - i + 1
  OBVIOUS
<1>3. n \in Nat \ {0} /\ \A k \in 1..n : i + k - 1 \in DOMAIN s
  BY <1>1, <1>2
<1>4. Names(s, i, j) \in [1..n -> Ids(s)]
  BY <1>2, <1>3 DEF Names, Ids
<1>5. Names(s, i, j) \in Seq(Ids(s)) /\ Len(Names(s, i, j)) = n
  BY <1>3, <1>4, FunctionIsSeq
<1>6. Names(s, i, j) # <<>>
  BY <1>3, <1>5, EmptySeq
<1>7. Names(s, i, j)[1] = s[i].id
  <2>1. 1 \in 1..n /\ i + 1 - 1 = i
    BY <1>1, <1>3
  <2> QED
    BY <1>2, <2>1 DEF Names
<1>8. Names(s, i, i) = <<s[i].id>>
  <2>1. i - i + 1 = 1 /\ i + 1 - 1 = i
    BY <1>1
  <2>2. \A k \in 1..1 : i + k - 1 = i
    BY <1>1
  <2> QED
    BY <2>1, <2>2 DEF Names
<1>9. ASSUME j + 1 \in DOMAIN s
      PROVE  Append(Names(s, i, j), s[j + 1].id) = Names(s, i, j + 1)
  <2>1. (j + 1) - i + 1 = n + 1
    BY <1>1, <1>2
  <2>2. \A k \in 1..(n + 1) : k \in 1..n \/ (k = n + 1 /\ i + k - 1 = j + 1)
    BY <1>1, <1>2, <1>3
  <2>3. \A k \in 1..n : Names(s, i, j)[k] = s[i + k - 1].id
    BY <1>2 DEF Names
  <2>4. /\ s[j + 1].id \in Ids(s)
        /\ Append(Names(s, i, j), s[j + 1].id) \in Seq(Ids(s))
        /\ Len(Append(Names(s, i, j), s[j + 1].id)) = n + 1
        /\ \A k \in 1..n :
             Append(Names(s, i, j), s[j + 1].id)[k] = Names(s, i, j)[k]
        /\ Append(Names(s, i, j), s[j + 1].id)[n + 1] = s[j + 1].id
    BY <1>5, <1>9, AppendProperties DEF Ids
  <2>5. Names(s, i, j + 1) = [k \in 1..(n + 1) |-> s[i + k - 1].id]
    BY <2>1 DEF Names
  <2>6. \A k \in 1..(n + 1) : i + k - 1 \in DOMAIN s
    BY <1>1, <1>3, <1>9, <2>2
  <2>7. Names(s, i, j + 1) \in [1..(n + 1) -> Ids(s)]
    BY <2>5, <2>6 DEF Ids
  <2>8. Names(s, i, j + 1) \in Seq(Ids(s)) /\ Len(Names(s, i, j + 1)) = n + 1
    BY <1>3, <2>7, FunctionIsSeq
  <2>9. \A k \in 1..(n + 1) :
          Append(Names(s, i, j), s[j + 1].id)[k] = Names(s, i, j + 1)[k]
    BY <2>2, <2>3, <2>4, <2>5
  <2> QED
    BY <2>4, <2>8, <2>9, SeqEqual
<1> QED
  BY <1>5, <1>6, <1>7, <1>8, <1>9

(* Of the Messages before a record at most one is pending.                 *)
LEMMA OnePending ==
  ASSUME NEW s, IsStream(s), NEW p \in DOMAIN s, NEW i \in 1..p, NEW j \in 1..p,
         Sound(s, i), Linked(s, i, p), Sound(s, j), Linked(s, j, p)
  PROVE  i = j
<1>1. p \in Nat /\ i \in Nat /\ j \in Nat
  BY DEF IsStream
<1>2. ~(i < j)
  <2> SUFFICES ASSUME i < j
               PROVE  FALSE
    OBVIOUS
  <2>1. j \in (i + 1)..p
    BY <1>1
  <2> QED
    BY <2>1 DEF Linked, Sound
<1>3. ~(j < i)
  <2> SUFFICES ASSUME j < i
               PROVE  FALSE
    OBVIOUS
  <2>1. i \in (j + 1)..p
    BY <1>1
  <2> QED
    BY <2>1 DEF Linked, Sound
<1> QED
  BY <1>1, <1>2, <1>3

(* What reaches the next record was pending before it.                     *)
LEMMA LinkedBack ==
  ASSUME NEW s, IsStream(s), NEW p \in Nat, p + 1 \in DOMAIN s,
         NEW i \in 1..p, Sound(s, i), Linked(s, i, p + 1)
  PROVE  Pending(s, i, p) /\ s[p + 1].kind = "cont"
<1>1. i \in Nat /\ p \in i..((p + 1) - 1) /\ p + 1 \in (i + 1)..(p + 1)
  OBVIOUS
<1>2. \A k \in i..(p - 1) : k \in i..((p + 1) - 1)
  OBVIOUS
<1>3. \A k \in (i + 1)..p : k \in (i + 1)..(p + 1)
  OBVIOUS
<1> QED
  BY <1>1, <1>2, <1>3 DEF Linked, Pending

LEMMA LinkedOn ==
  ASSUME NEW s, IsStream(s), NEW p \in Nat, p + 1 \in DOMAIN s, NEW i,
         Pending(s, i, p), s[p + 1].kind = "cont"
  PROVE  Linked(s, i, p + 1)
<1>1. i \in 1..p
  BY DEF Pending
<1>2. \A k \in i..((p + 1) - 1) : k \in i..(p - 1) \/ k = p
  BY <1>1
<1>3. \A k \in (i + 1)..(p + 1) : k \in (i + 1)..p \/ k = p + 1
  BY <1>1
<1> QED
  BY <1>1, <1>2, <1>3 DEF Linked, Pending

(* A pending Message ends where a record does not go on with it.           *)
LEMMA EndIsNext ==
  ASSUME NEW s, IsStream(s), NEW p \in DOMAIN s, NEW i, Pending(s, i, p),
         NEW j \in DOMAIN s, WholeMessage(s, i, j)
  PROVE  /\ p + 1 \in DOMAIN s /\ s[p + 1].kind = "cont"
         /\ p + 1 <= j
         /\ ~s[p + 1].more => j = p + 1
<1>1. /\ p \in Nat /\ i \in Nat /\ j \in Nat /\ i <= p /\ i <= j
      /\ DOMAIN s = 1..Len(s) /\ Len(s) \in Nat
  BY DEF IsStream, Pending, WholeMessage
<1>2. ~(j < p)
  <2> SUFFICES ASSUME j < p
               PROVE  FALSE
    OBVIOUS
  <2>1. j \in i..(p - 1)
    BY <1>1
  <2> QED
    BY <2>1 DEF Pending, Linked, WholeMessage
<1>3. j # p
  BY DEF Pending, WholeMessage
<1>4. p + 1 <= j /\ p + 1 \in (i + 1)..j /\ p + 1 \in DOMAIN s
  BY <1>1, <1>2, <1>3
<1>5. s[p + 1].kind = "cont"
  BY <1>4 DEF WholeMessage, Linked
<1>6. ASSUME ~s[p + 1].more
      PROVE  j = p + 1
  <2> SUFFICES ASSUME j # p + 1
               PROVE  FALSE
    OBVIOUS
  <2>1. p + 1 \in i..(j - 1)
    BY <1>1, <1>4
  <2> QED
    BY <1>6, <2>1 DEF WholeMessage, Linked
<1> QED
  BY <1>4, <1>5, <1>6

(* A Message that promises nothing is complete.                            *)
LEMMA WholeAlone ==
  ASSUME NEW s, IsStream(s), NEW i \in DOMAIN s, Sound(s, i)
  PROVE  /\ Linked(s, i, i)
         /\ ~s[i].more => WholeMessage(s, i, i)
         /\ s[i].more => Pending(s, i, i)
<1>1. i \in Nat /\ i..(i - 1) = {} /\ (i + 1)..i = {} /\ i \in 1..i
  BY DEF IsStream
<1> QED
  BY <1>1 DEF Linked, WholeMessage, Pending

-----------------------------------------------------------------------------
(* What the decoder has made of the first p records.                       *)

(* The Messages among them that will not be returned, but for the pending  *)
(* one, and the Continuations that join nothing.                           *)
Lost(s, p, o) ==
  {i \in 1..p : s[i].kind = "msg" /\ ~Decodable(s, i) /\ i # o}

Orphans(s, p) == {k \in 1..p : Orphan(s, k)}

(* o is the pending Message, 0 when there is none; a chain is damaged by   *)
(* an illegible record of it.                                              *)
PendingOK(s, p, o, d) ==
  /\ o = 0 <=> d.chain = <<>>
  /\ o # 0 =>
       /\ Pending(s, o, p)
       /\ d.damaged <=> \E k \in (o + 1)..p : ~s[k].ok
       /\ ~d.damaged => d.chain = Names(s, o, p)

NonePending(s, p) == \A i \in 1..p : ~Pending(s, i, p)

(* The results q are the whole Messages, in the order of the stream, all   *)
(* of them before the pending one.                                         *)
ResultOK(s, p, o, q) ==
  /\ \A k \in DOMAIN q :
       \E i, j \in 1..p : /\ WholeMessage(s, i, j)
                          /\ q[k] = Names(s, i, j)
                          /\ o # 0 => j < o
  /\ \A i, j \in 1..p :
       WholeMessage(s, i, j) => \E k \in DOMAIN q : q[k] = Names(s, i, j)
  /\ \A k, m \in DOMAIN q :
       k < m => \A a, b \in DOMAIN s :
                  s[a].id = q[k][1] /\ s[b].id = q[m][1] => a < b

TallyOK(s, p, o, d) ==
  /\ d.undecodable = Cardinality(Illegible(s)) + Cardinality(Lost(s, p, o))
  /\ d.skipped = Cardinality(Strange(s)) + Cardinality(Orphans(s, p))

SitesOK(s, d) == \A x : x \in d.sites <=> Defined(s, x)

(* The second pass after p records, with Message o pending.                *)
Reached(s, p, o, d) ==
  /\ d \in StreamDecoder(s)
  /\ SitesOK(s, d)
  /\ PendingOK(s, p, o, d)
  /\ ResultOK(s, p, o, d.result)
  /\ TallyOK(s, p, o, d)

SecondDone(s, p, d) ==
  \E o \in 0..p : Reached(s, p, o, d) /\ (o = 0 => NonePending(s, p))

-----------------------------------------------------------------------------
(* Counting.                                                               *)

LEMMA Counted ==
  ASSUME NEW n \in Nat, NEW T, T \subseteq 1..n
  PROVE  /\ IsFiniteSet(T) /\ Cardinality(T) \in Nat
         /\ \A x \in 1..n : x \notin T =>
              Cardinality(T \cup {x}) = Cardinality(T) + 1
<1>1. IsFiniteSet(1..n)
  BY FS_Interval
<1> QED
  BY <1>1, FS_Subset, FS_CardinalityType, FS_AddElement

LEMMA StreamCounts ==
  ASSUME NEW s, IsStream(s)
  PROVE  Cardinality(Illegible(s)) \in Nat /\ Cardinality(Strange(s)) \in Nat
BY Counted DEF IsStream, Illegible, Strange

(* What one more record adds to the losses.                                *)
LEMMA LossesGrow ==
  ASSUME NEW s, NEW p \in Nat, NEW o
  PROVE  /\ Lost(s, p + 1, o)
              = IF s[p + 1].kind = "msg" /\ ~Decodable(s, p + 1) /\ p + 1 # o
                THEN Lost(s, p, o) \cup {p + 1} ELSE Lost(s, p, o)
         /\ Orphans(s, p + 1) = IF Orphan(s, p + 1)
                                THEN Orphans(s, p) \cup {p + 1}
                                ELSE Orphans(s, p)
<1>1. 1..(p + 1) = 1..p \cup {p + 1} /\ p + 1 \notin 1..p
  OBVIOUS
<1>2. Lost(s, p + 1, o)
        = IF s[p + 1].kind = "msg" /\ ~Decodable(s, p + 1) /\ p + 1 # o
          THEN Lost(s, p, o) \cup {p + 1} ELSE Lost(s, p, o)
  BY <1>1 DEF Lost
<1>3. Orphans(s, p + 1) = IF Orphan(s, p + 1) THEN Orphans(s, p) \cup {p + 1}
                          ELSE Orphans(s, p)
  BY <1>1 DEF Orphans
<1> QED
  BY <1>2, <1>3

LEMMA LossCounts ==
  ASSUME NEW s, NEW p \in Nat, NEW o \in Nat
  PROVE  /\ Cardinality(Lost(s, p, o)) \in Nat
         /\ Cardinality(Orphans(s, p)) \in Nat
         /\ Cardinality(Lost(s, p, o) \cup {p + 1})
              = Cardinality(Lost(s, p, o)) + 1
         /\ Cardinality(Orphans(s, p) \cup {p + 1})
              = Cardinality(Orphans(s, p)) + 1
         /\ \A i \in 1..p : s[i].kind = "msg" /\ ~Decodable(s, i) =>
              Cardinality(Lost(s, p, 0)) = Cardinality(Lost(s, p, i)) + 1
         /\ \A i \in 1..p : Decodable(s, i) => Lost(s, p, 0) = Lost(s, p, i)
         /\ p + 1 # o => Lost(s, p, p + 1) = Lost(s, p, 0)
<1>1. /\ Lost(s, p, o) \subseteq 1..(p + 1) /\ Orphans(s, p) \subseteq 1..(p + 1)
      /\ p + 1 \in Nat /\ p + 1 \in 1..(p + 1)
      /\ p + 1 \notin Lost(s, p, o) /\ p + 1 \notin Orphans(s, p)
  BY DEF Lost, Orphans
<1>2. /\ Cardinality(Lost(s, p, o)) \in Nat
      /\ Cardinality(Orphans(s, p)) \in Nat
      /\ Cardinality(Lost(s, p, o) \cup {p + 1})
           = Cardinality(Lost(s, p, o)) + 1
      /\ Cardinality(Orphans(s, p) \cup {p + 1})
           = Cardinality(Orphans(s, p)) + 1
  BY <1>1, Counted
<1>3. ASSUME NEW i \in 1..p, s[i].kind = "msg", ~Decodable(s, i)
      PROVE  Cardinality(Lost(s, p, 0)) = Cardinality(Lost(s, p, i)) + 1
  <2>1. /\ Lost(s, p, 0) = Lost(s, p, i) \cup {i} /\ i \notin Lost(s, p, i)
        /\ Lost(s, p, i) \subseteq 1..p
    BY <1>3 DEF Lost
  <2> QED
    BY <2>1, Counted
<1>4. \A i \in 1..p : Decodable(s, i) => Lost(s, p, 0) = Lost(s, p, i)
  BY DEF Lost
<1>5. Lost(s, p, p + 1) = Lost(s, p, 0)
  BY DEF Lost
<1> QED
  BY <1>2, <1>3, <1>4, <1>5

-----------------------------------------------------------------------------
(* The results.                                                            *)

(* No Message ends at this record.                                         *)
NoneEnds(s, p) == \A i \in 1..p : ~WholeMessage(s, i, p)

LEMMA SameResults ==
  ASSUME NEW s, NEW p \in Nat, NEW o \in Nat, NEW q, ResultOK(s, p, o, q),
         NoneEnds(s, p + 1), NEW u \in {0, o, p + 1}, o = 0 \/ u # p + 1
  PROVE  ResultOK(s, p + 1, u, q)
<1>1. 1..(p + 1) = 1..p \cup {p + 1}
  OBVIOUS
<1>2. ASSUME NEW k \in DOMAIN q
      PROVE  \E i, j \in 1..(p + 1) : /\ WholeMessage(s, i, j)
                                      /\ q[k] = Names(s, i, j)
                                      /\ u # 0 => j < u
  <2>1. PICK i \in 1..p, j \in 1..p : /\ WholeMessage(s, i, j)
                                      /\ q[k] = Names(s, i, j)
                                      /\ o # 0 => j < o
    BY DEF ResultOK
  <2>2. i \in 1..(p + 1) /\ j \in 1..(p + 1) /\ (u # 0 => j < u)
    BY <2>1
  <2> QED
    BY <2>1, <2>2
<1>3. ASSUME NEW i \in 1..(p + 1), NEW j \in 1..(p + 1), WholeMessage(s, i, j)
      PROVE  \E k \in DOMAIN q : q[k] = Names(s, i, j)
  <2>1. j # p + 1
    BY <1>3 DEF NoneEnds
  <2>2. i <= j
    BY <1>3 DEF WholeMessage
  <2>3. i \in 1..p /\ j \in 1..p
    BY <2>1, <2>2
  <2> QED
    BY <1>3, <2>3 DEF ResultOK
<1> QED
  BY <1>2, <1>3 DEF ResultOK

(* The one Message that ends here is appended.                             *)
LEMMA OneMoreResult ==
  ASSUME NEW s, IsStream(s), NEW p \in Nat, p + 1 \in DOMAIN s, NEW o \in 0..p,
         NEW q \in Seq(Seq(Ids(s))), ResultOK(s, p, o, q),
         NEW i \in 1..(p + 1), WholeMessage(s, i, p + 1),
         o = i \/ (o = 0 /\ i = p + 1),
         \A a \in 1..(p + 1) : WholeMessage(s, a, p + 1) => a = i
  PROVE  /\ Append(q, Names(s, i, p + 1)) \in Seq(Seq(Ids(s)))
         /\ ResultOK(s, p + 1, 0, Append(q, Names(s, i, p + 1)))
<1>0. DOMAIN s = 1..Len(s) /\ Len(s) \in Nat /\ p + 1 <= Len(s)
  BY DEF IsStream
<1>1. i \in DOMAIN s /\ i <= p + 1
  BY <1>0
<1>2. PICK n : n = Names(s, i, p + 1)
  OBVIOUS
<1>3. n \in Seq(Ids(s)) /\ n[1] = s[i].id
  BY <1>1, <1>2, NamesFacts
<1>4. PICK r : r = Append(q, n)
  OBVIOUS
<1>5. PICK m : m = Len(q)
  OBVIOUS
<1>6. m \in Nat /\ DOMAIN q = 1..m
  BY <1>5, LenProperties
<1>7. /\ r \in Seq(Seq(Ids(s))) /\ Len(r) = m + 1
      /\ \A k \in 1..m : r[k] = q[k]
      /\ r[m + 1] = n
  BY <1>3, <1>4, <1>5, AppendProperties
<1>8. DOMAIN r = 1..(m + 1)
  BY <1>7, LenProperties
<1>9. ASSUME NEW k \in DOMAIN q
      PROVE  \E a, j \in 1..p : /\ WholeMessage(s, a, j)
                                /\ r[k] = Names(s, a, j)
                                /\ r[k][1] = s[a].id
                                /\ a < i
  <2>1. PICK a \in 1..p, j \in 1..p : /\ WholeMessage(s, a, j)
                                      /\ q[k] = Names(s, a, j)
                                      /\ o # 0 => j < o
    BY DEF ResultOK
  <2>2. a \in DOMAIN s /\ j \in DOMAIN s /\ a <= j
    BY <1>0, <2>1 DEF WholeMessage
  <2>3. r[k] = Names(s, a, j) /\ r[k][1] = s[a].id
    <3>1. Names(s, a, j)[1] = s[a].id
      BY <2>2, NamesFacts
    <3>2. r[k] = q[k]
      BY <1>6, <1>7
    <3> QED
      BY <2>1, <3>1, <3>2
  <2>4. CASE o = i
    <3>1. i # 0 /\ j < i /\ a \in Nat /\ j \in Nat /\ i \in Nat /\ a <= j
      BY <2>1, <2>2, <2>4
    <3>2. a < i
      BY <3>1
    <3> QED
      BY <2>1, <2>3, <3>2
  <2>5. CASE i = p + 1
    <3>1. a < i
      BY <2>5
    <3> QED
      BY <2>1, <2>3, <3>1
  <2> QED
    BY <2>4, <2>5
<1>10. ASSUME NEW k \in DOMAIN r
       PROVE  \E a, j \in 1..(p + 1) : /\ WholeMessage(s, a, j)
                                       /\ r[k] = Names(s, a, j)
                                       /\ 0 # 0 => j < 0
  <2>1. CASE k = m + 1
    <3>1. p + 1 \in 1..(p + 1)
      OBVIOUS
    <3> QED
      BY <1>2, <1>7, <2>1, <3>1
  <2>2. CASE k # m + 1
    <3>1. k \in DOMAIN q
      BY <1>6, <1>8, <2>2
    <3>2. PICK a \in 1..p, j \in 1..p : /\ WholeMessage(s, a, j)
                                        /\ r[k] = Names(s, a, j)
      BY <1>9, <3>1
    <3>3. a \in 1..(p + 1) /\ j \in 1..(p + 1)
      OBVIOUS
    <3> QED
      BY <3>2, <3>3
  <2> QED
    BY <2>1, <2>2
<1>11. ASSUME NEW a \in 1..(p + 1), NEW j \in 1..(p + 1), WholeMessage(s, a, j)
       PROVE  \E k \in DOMAIN r : r[k] = Names(s, a, j)
  <2>1. CASE j = p + 1
    <3>1. a = i /\ m + 1 \in DOMAIN r
      BY <1>6, <1>8, <1>11, <2>1
    <3> QED
      BY <1>2, <1>7, <2>1, <3>1
  <2>2. CASE j # p + 1
    <3>1. a <= j
      BY <1>11 DEF WholeMessage
    <3>2. a \in 1..p /\ j \in 1..p
      BY <2>2, <3>1
    <3>3. PICK k \in DOMAIN q : q[k] = Names(s, a, j)
      BY <1>11, <3>2 DEF ResultOK
    <3>4. k \in DOMAIN r /\ r[k] = q[k]
      BY <1>6, <1>7, <1>8
    <3> QED
      BY <3>3, <3>4
  <2> QED
    BY <2>1, <2>2
<1>12. ASSUME NEW k \in DOMAIN r, NEW x \in DOMAIN r, k < x,
              NEW a \in DOMAIN s, NEW b \in DOMAIN s,
              s[a].id = r[k][1], s[b].id = r[x][1]
       PROVE  a < b
  <2>1. k \in DOMAIN q
    BY <1>6, <1>8, <1>12
  <2>2. CASE x = m + 1
    <3>1. s[b].id = s[i].id
      BY <1>3, <1>7, <1>12, <2>2
    <3>2. b = i
      BY <1>1, <3>1 DEF IsStream
    <3>3. PICK e \in 1..p : r[k][1] = s[e].id /\ e < i
      BY <1>9, <2>1
    <3>4. e \in DOMAIN s
      BY <1>0
    <3>5. a = e
      BY <1>12, <3>3, <3>4 DEF IsStream
    <3> QED
      BY <3>2, <3>3, <3>5
  <2>3. CASE x # m + 1
    <3>1. x \in DOMAIN q /\ r[x] = q[x] /\ r[k] = q[k]
      BY <1>6, <1>7, <1>8, <2>1, <2>3
    <3>2. \A y, z \in DOMAIN s :
            s[y].id = q[k][1] /\ s[z].id = q[x][1] => y < z
      BY <1>12, <2>1, <3>1 DEF ResultOK
    <3> QED
      BY <1>12, <3>1, <3>2
  <2> QED
    BY <2>2, <2>3
<1>13. ResultOK(s, p + 1, 0, r)
  BY <1>10, <1>11, <1>12 DEF ResultOK
<1> QED
  BY <1>2, <1>4, <1>7, <1>13

-----------------------------------------------------------------------------
(* The decoder's steps.                                                    *)

LEMMA UndecodableIs ==
  ASSUME NEW s, NEW d \in StreamDecoder(s), NEW e, e = Undecodable(d)
  PROVE  /\ e \in StreamDecoder(s) /\ e.sites = d.sites
         /\ e.result = d.result /\ e.chain = d.chain
         /\ e.skipped = d.skipped /\ e.undecodable = d.undecodable + 1
<1>1. d.undecodable + 1 \in Nat
  BY DEF StreamDecoder
<1> QED
  BY <1>1 DEF StreamDecoder, Undecodable

LEMMA SkippedIs ==
  ASSUME NEW s, NEW d \in StreamDecoder(s), NEW e, e = Skipped(d)
  PROVE  /\ e \in StreamDecoder(s) /\ e.sites = d.sites
         /\ e.result = d.result /\ e.chain = d.chain
         /\ e.skipped = d.skipped + 1 /\ e.undecodable = d.undecodable
<1>1. d.skipped + 1 \in Nat
  BY DEF StreamDecoder
<1> QED
  BY <1>1 DEF StreamDecoder, Skipped

LEMMA FinalizeIs ==
  ASSUME NEW s, NEW d \in StreamDecoder(s), d.chain # <<>>,
         NEW e, e = FinalizePending(d)
  PROVE  /\ e \in StreamDecoder(s) /\ e.sites = d.sites
         /\ e.chain = <<>> /\ e.skipped = d.skipped
         /\ d.damaged => e.result = d.result
                         /\ e.undecodable = d.undecodable + 1
         /\ ~d.damaged => e.result = Append(d.result, d.chain)
                          /\ e.undecodable = d.undecodable
<1>1. /\ d.undecodable + 1 \in Nat
      /\ d.result \in Seq(Seq(Ids(s))) /\ d.chain \in Seq(Ids(s))
  BY DEF StreamDecoder
<1>2. <<>> \in Seq(Ids(s)) /\ Append(d.result, d.chain) \in Seq(Seq(Ids(s)))
  BY <1>1, EmptySeq, AppendProperties
<1>3. CASE d.damaged
  <2>1. e = [Undecodable(d) EXCEPT !.chain = <<>>, !.damaged = FALSE]
    BY <1>3 DEF FinalizePending
  <2> QED
    BY <1>1, <1>2, <1>3, <2>1 DEF StreamDecoder, Undecodable
<1>4. CASE ~d.damaged
  <2>1. e = [[d EXCEPT !.result = Append(@, d.chain)]
               EXCEPT !.chain = <<>>, !.damaged = FALSE]
    BY <1>4 DEF FinalizePending
  <2> QED
    BY <1>1, <1>2, <1>4, <2>1 DEF StreamDecoder
<1> QED
  BY <1>3, <1>4

(* No sound Message before the next record goes on with it.                *)
Fresh(s, p) == \A i \in 1..p : ~(Sound(s, i) /\ Linked(s, i, p + 1))

LEMMA FreshFacts ==
  ASSUME NEW s, IsStream(s), NEW p \in Nat, p + 1 \in DOMAIN s,
         NonePending(s, p) \/ s[p + 1].kind # "cont"
  PROVE  /\ Fresh(s, p)
         /\ \A i \in 1..(p + 1) : WholeMessage(s, i, p + 1) => i = p + 1
         /\ \A i \in 1..(p + 1) : Pending(s, i, p + 1) => i = p + 1
         /\ Orphan(s, p + 1) <=> s[p + 1].kind = "cont"
<1>1. Fresh(s, p)
  BY LinkedBack DEF Fresh, NonePending
<1>2. 1..(p + 1) = 1..p \cup {p + 1} /\ 1..((p + 1) - 1) = 1..p
  OBVIOUS
<1>3. \A i \in 1..(p + 1) : WholeMessage(s, i, p + 1) => i = p + 1
  BY <1>1, <1>2 DEF Fresh, WholeMessage
<1>4. \A i \in 1..(p + 1) : Pending(s, i, p + 1) => i = p + 1
  BY <1>1, <1>2 DEF Fresh, Pending
<1>5. Orphan(s, p + 1) <=> s[p + 1].kind = "cont"
  BY <1>1, <1>2 DEF Fresh, Orphan
<1> QED
  BY <1>1, <1>3, <1>4, <1>5

(* A record that is no sound Message, when none is pending.                *)
LEMMA UnheldStep ==
  ASSUME NEW s, IsStream(s), NEW p \in Nat, p + 1 \in DOMAIN s,
         NonePending(s, p) \/ s[p + 1].kind # "cont",
         NEW d, Reached(s, p, 0, d), ~Sound(s, p + 1)
  PROVE  SecondDone(s, p + 1, Unchained(d, s[p + 1]))
<1>0. /\ d \in StreamDecoder(s) /\ d.chain = <<>> /\ SitesOK(s, d)
      /\ ResultOK(s, p, 0, d.result) /\ TallyOK(s, p, 0, d)
      /\ d.undecodable \in Nat /\ d.skipped \in Nat
  BY DEF Reached, PendingOK, StreamDecoder
<1>1. PICK v : v = s[p + 1]
  OBVIOUS
<1>2. PICK e : e = Unchained(d, v)
  OBVIOUS
<1>3. NoneEnds(s, p + 1) /\ NonePending(s, p + 1)
  <2>1. /\ \A i \in 1..(p + 1) : WholeMessage(s, i, p + 1) => i = p + 1
        /\ \A i \in 1..(p + 1) : Pending(s, i, p + 1) => i = p + 1
    BY FreshFacts
  <2>2. ~WholeMessage(s, p + 1, p + 1) /\ ~Pending(s, p + 1, p + 1)
    BY DEF WholeMessage, Pending
  <2> QED
    BY <2>1, <2>2 DEF NoneEnds, NonePending
<1>4. ResultOK(s, p + 1, 0, d.result)
  BY <1>0, <1>3, SameResults
<1>5. /\ Cardinality(Lost(s, p, 0)) \in Nat
      /\ Cardinality(Orphans(s, p)) \in Nat
      /\ Cardinality(Lost(s, p, 0) \cup {p + 1})
           = Cardinality(Lost(s, p, 0)) + 1
      /\ Cardinality(Orphans(s, p) \cup {p + 1})
           = Cardinality(Orphans(s, p)) + 1
  <2>1. 0 \in Nat
    OBVIOUS
  <2> QED
    BY <2>1, LossCounts
<1>6. ~Decodable(s, p + 1)
  BY DEF Decodable, WholeMessage
<1>7. /\ Lost(s, p + 1, 0)
           = IF v.kind = "msg" THEN Lost(s, p, 0) \cup {p + 1}
             ELSE Lost(s, p, 0)
      /\ Orphans(s, p + 1) = IF v.kind = "cont" THEN Orphans(s, p) \cup {p + 1}
                             ELSE Orphans(s, p)
  <2>1. p + 1 # 0 /\ (Orphan(s, p + 1) <=> v.kind = "cont")
    BY <1>1, FreshFacts
  <2> QED
    BY <1>1, <1>6, <2>1, LossesGrow
<1>8. PICK u : u = Cardinality(Illegible(s))
  OBVIOUS
<1>9. PICK w : w = Cardinality(Strange(s))
  OBVIOUS
<1>10. /\ d.undecodable = u + Cardinality(Lost(s, p, 0))
       /\ d.skipped = w + Cardinality(Orphans(s, p))
       /\ u \in Nat /\ w \in Nat
  BY <1>0, <1>8, <1>9, StreamCounts DEF TallyOK
<1>11. /\ e \in StreamDecoder(s) /\ e.sites = d.sites
       /\ e.result = d.result /\ e.chain = d.chain
       /\ TallyOK(s, p + 1, 0, e)
  <2>1. CASE v.kind = "cont"
    <3>1. e = Skipped(d)
      BY <1>2, <2>1 DEF Unchained
    <3>2. /\ e.undecodable = d.undecodable /\ e.skipped = d.skipped + 1
          /\ e \in StreamDecoder(s) /\ e.sites = d.sites
          /\ e.result = d.result /\ e.chain = d.chain
      BY <1>0, <3>1, SkippedIs
    <3>3. /\ Lost(s, p + 1, 0) = Lost(s, p, 0)
          /\ Cardinality(Orphans(s, p + 1)) = Cardinality(Orphans(s, p)) + 1
      BY <1>5, <1>7, <2>1
    <3>4. TallyOK(s, p + 1, 0, e)
      <4>1. e.skipped = w + (Cardinality(Orphans(s, p)) + 1)
        BY <1>0, <1>5, <1>10, <3>2
      <4> QED
        BY <1>8, <1>9, <1>10, <3>2, <3>3, <4>1 DEF TallyOK
    <3> QED
      BY <3>2, <3>4
  <2>2. CASE v.kind = "msg"
    <3>1. e = Undecodable(d)
      BY <1>0, <1>1, <1>2, <2>2 DEF Unchained, OpenMessage, Sound, SitesOK
    <3>2. /\ e.undecodable = d.undecodable + 1 /\ e.skipped = d.skipped
          /\ e \in StreamDecoder(s) /\ e.sites = d.sites
          /\ e.result = d.result /\ e.chain = d.chain
      BY <1>0, <3>1, UndecodableIs
    <3>3. /\ Orphans(s, p + 1) = Orphans(s, p)
          /\ Cardinality(Lost(s, p + 1, 0)) = Cardinality(Lost(s, p, 0)) + 1
      BY <1>5, <1>7, <2>2
    <3>4. TallyOK(s, p + 1, 0, e)
      <4>1. e.undecodable = u + (Cardinality(Lost(s, p, 0)) + 1)
        BY <1>0, <1>5, <1>10, <3>2
      <4> QED
        BY <1>8, <1>9, <1>10, <3>2, <3>3, <4>1 DEF TallyOK
    <3> QED
      BY <3>2, <3>4
  <2>3. CASE v.kind \notin {"cont", "msg"}
    <3>1. e = d
      BY <1>2, <2>3 DEF Unchained
    <3>2. Orphans(s, p + 1) = Orphans(s, p) /\ Lost(s, p + 1, 0) = Lost(s, p, 0)
      BY <1>7, <2>3
    <3> QED
      BY <1>0, <3>1, <3>2 DEF TallyOK
  <2> QED
    BY <2>1, <2>2, <2>3
<1>12. Reached(s, p + 1, 0, e)
  BY <1>0, <1>4, <1>11 DEF Reached, PendingOK, SitesOK
<1>13. 0 \in 0..(p + 1)
  OBVIOUS
<1> QED
  BY <1>1, <1>2, <1>3, <1>12, <1>13 DEF SecondDone

(* A sound Message is held when it promises more, published otherwise.     *)
LEMMA SoundStep ==
  ASSUME NEW s, IsStream(s), NEW p \in Nat, p + 1 \in DOMAIN s,
         NEW d, Reached(s, p, 0, d), Sound(s, p + 1)
  PROVE  SecondDone(s, p + 1, Unchained(d, s[p + 1]))
<1>0. /\ d \in StreamDecoder(s) /\ d.chain = <<>> /\ SitesOK(s, d)
      /\ ResultOK(s, p, 0, d.result) /\ TallyOK(s, p, 0, d)
      /\ d.result \in Seq(Seq(Ids(s)))
  BY DEF Reached, PendingOK, StreamDecoder
<1>1. PICK v : v = s[p + 1]
  OBVIOUS
<1>2. PICK e : e = OpenMessage(d, v)
  OBVIOUS
<1>3. /\ v.kind = "msg" /\ v.ok /\ v.site \in d.sites
      /\ Unchained(d, v) = e
  BY <1>0, <1>1, <1>2 DEF Sound, SitesOK, Unchained
<1>4. \A a \in 1..(p + 1) : WholeMessage(s, a, p + 1) => a = p + 1
  BY <1>1, <1>3, FreshFacts
<1>5. Orphans(s, p + 1) = Orphans(s, p)
  BY <1>1, <1>3, LossesGrow DEF Orphan
<1>6. /\ <<v.id>> \in Seq(Ids(s)) /\ <<v.id>> # <<>>
      /\ Names(s, p + 1, p + 1) = <<v.id>>
  BY <1>1, NamesFacts
<1>7. p + 1 \in Nat /\ p + 1 # 0 /\ p + 1 \in 1..(p + 1) /\ 0 \in 0..(p + 1)
      /\ 0 \in Nat /\ 0 \in 0..p /\ p + 1 \in 0..(p + 1)
  OBVIOUS
<1>8. CASE v.more
  <2>1. e = [d EXCEPT !.chain = <<v.id>>, !.damaged = FALSE]
    BY <1>2, <1>3, <1>8 DEF OpenMessage
  <2>2. /\ e \in StreamDecoder(s) /\ e.sites = d.sites
        /\ e.result = d.result /\ e.chain = <<v.id>>
        /\ e.skipped = d.skipped /\ e.undecodable = d.undecodable
        /\ e.damaged = FALSE
    BY <1>0, <1>6, <2>1 DEF StreamDecoder
  <2>3. Pending(s, p + 1, p + 1)
    BY <1>1, <1>8, WholeAlone
  <2>4. NoneEnds(s, p + 1)
    BY <1>1, <1>4, <1>8 DEF NoneEnds, WholeMessage
  <2>5. ResultOK(s, p + 1, p + 1, e.result)
    BY <1>0, <1>7, <2>2, <2>4, SameResults
  <2>6. Lost(s, p + 1, p + 1) = Lost(s, p, 0)
    <3>1. Lost(s, p + 1, p + 1) = Lost(s, p, p + 1)
      BY LossesGrow
    <3>2. 1..p \cap {0, p + 1} = {}
      OBVIOUS
    <3> QED
      BY <3>1, <3>2 DEF Lost
  <2>7. TallyOK(s, p + 1, p + 1, e)
    BY <1>0, <1>5, <2>2, <2>6 DEF TallyOK
  <2>8. PendingOK(s, p + 1, p + 1, e)
    <3>1. ((p + 1) + 1)..(p + 1) = {}
      OBVIOUS
    <3>2. ~e.damaged /\ e.chain # <<>> /\ e.chain = Names(s, p + 1, p + 1)
      BY <1>6, <2>2
    <3> QED
      BY <1>7, <2>3, <3>1, <3>2 DEF PendingOK
  <2>9. Reached(s, p + 1, p + 1, e)
    BY <1>0, <2>2, <2>5, <2>7, <2>8 DEF Reached, SitesOK
  <2> QED
    BY <1>1, <1>3, <1>7, <2>9 DEF SecondDone
<1>9. CASE ~v.more
  <2>1. e = [d EXCEPT !.result = Append(@, <<v.id>>)]
    BY <1>2, <1>3, <1>9 DEF OpenMessage
  <2>2. WholeMessage(s, p + 1, p + 1)
    BY <1>1, <1>9, WholeAlone
  <2>3. /\ Append(d.result, <<v.id>>) \in Seq(Seq(Ids(s)))
        /\ ResultOK(s, p + 1, 0, Append(d.result, <<v.id>>))
    BY <1>0, <1>4, <1>6, <1>7, <2>2, OneMoreResult
  <2>4. /\ e \in StreamDecoder(s) /\ e.sites = d.sites
        /\ e.result = Append(d.result, <<v.id>>) /\ e.chain = <<>>
        /\ e.skipped = d.skipped /\ e.undecodable = d.undecodable
    BY <1>0, <2>1, <2>3 DEF StreamDecoder
  <2>5. Decodable(s, p + 1)
    BY <2>2 DEF Decodable
  <2>6. Lost(s, p + 1, 0) = Lost(s, p, 0)
    BY <2>5, LossesGrow
  <2>7. TallyOK(s, p + 1, 0, e)
    BY <1>0, <1>5, <2>4, <2>6 DEF TallyOK
  <2>8. NonePending(s, p + 1)
    <3>1. \A a \in 1..(p + 1) : Pending(s, a, p + 1) => s[p + 1].more
      BY DEF Pending
    <3> QED
      BY <1>1, <1>9, <3>1 DEF NonePending
  <2>9. Reached(s, p + 1, 0, e)
    BY <1>0, <2>3, <2>4, <2>7 DEF Reached, SitesOK, PendingOK
  <2> QED
    BY <1>1, <1>3, <1>7, <2>8, <2>9 DEF SecondDone
<1>10. v.more \in BOOLEAN
  BY <1>1 DEF IsStream
<1> QED
  BY <1>8, <1>9, <1>10

(* A pending Message that is given up.                                     *)
LEMMA AbandonStep ==
  ASSUME NEW s, IsStream(s), NEW p \in DOMAIN s, NEW o \in 1..p,
         NEW d, Reached(s, p, o, d), ~Decodable(s, o)
  PROVE  Reached(s, p, 0, FinalizePending([d EXCEPT !.damaged = TRUE]))
<1>0. /\ d \in StreamDecoder(s) /\ d.chain # <<>> /\ SitesOK(s, d)
      /\ ResultOK(s, p, o, d.result) /\ TallyOK(s, p, o, d)
      /\ Pending(s, o, p) /\ o # 0 /\ p \in Nat /\ o \in Nat /\ 0 \in Nat
  BY DEF Reached, PendingOK, IsStream
<1>1. PICK f : f = [d EXCEPT !.damaged = TRUE]
  OBVIOUS
<1>2. /\ f \in StreamDecoder(s) /\ f.sites = d.sites /\ f.damaged
      /\ f.result = d.result /\ f.chain = d.chain
      /\ f.skipped = d.skipped /\ f.undecodable = d.undecodable
  BY <1>0, <1>1 DEF StreamDecoder
<1>3. PICK e : e = FinalizePending(f)
  OBVIOUS
<1>4. /\ e \in StreamDecoder(s) /\ e.sites = d.sites
      /\ e.result = d.result /\ e.chain = <<>>
      /\ e.skipped = d.skipped /\ e.undecodable = d.undecodable + 1
  <2>1. f.chain # <<>>
    BY <1>0, <1>2
  <2> QED
    BY <1>2, <1>3, <2>1, FinalizeIs
<1>5. ResultOK(s, p, 0, d.result)
  BY <1>0 DEF ResultOK
<1>6. /\ Cardinality(Lost(s, p, 0)) = Cardinality(Lost(s, p, o)) + 1
      /\ Cardinality(Lost(s, p, o)) \in Nat
  <2>1. s[o].kind = "msg"
    BY <1>0 DEF Pending, Sound
  <2> QED
    BY <1>0, <2>1, LossCounts
<1>7. PICK u : u = Cardinality(Illegible(s))
  OBVIOUS
<1>8. u \in Nat /\ d.undecodable = u + Cardinality(Lost(s, p, o))
  BY <1>0, <1>7, StreamCounts DEF TallyOK
<1>9. e.undecodable = u + (Cardinality(Lost(s, p, o)) + 1)
  BY <1>4, <1>6, <1>8
<1>10. TallyOK(s, p, 0, e)
  BY <1>0, <1>4, <1>6, <1>7, <1>9 DEF TallyOK
<1> QED
  BY <1>0, <1>1, <1>3, <1>4, <1>5, <1>10 DEF Reached, PendingOK, SitesOK

(* A Continuation of the pending Message.                                  *)
LEMMA JoinStep ==
  ASSUME NEW s, IsStream(s), NEW p \in DOMAIN s, p + 1 \in DOMAIN s,
         NEW o \in 1..p, NEW d, Reached(s, p, o, d),
         s[p + 1].kind = "cont"
  PROVE  SecondDone(s, p + 1, JoinContinuation(d, s[p + 1]))
<1>0. /\ d \in StreamDecoder(s) /\ d.chain # <<>> /\ SitesOK(s, d)
      /\ ResultOK(s, p, o, d.result) /\ TallyOK(s, p, o, d)
      /\ Pending(s, o, p) /\ o # 0 /\ p \in Nat /\ o \in Nat /\ o \in DOMAIN s
      /\ d.damaged <=> \E k \in (o + 1)..p : ~s[k].ok
      /\ ~d.damaged => d.chain = Names(s, o, p)
      /\ d.chain \in Seq(Ids(s)) /\ d.damaged \in BOOLEAN /\ o <= p
      /\ d.result \in Seq(Seq(Ids(s)))
  <2>1. d \in StreamDecoder(s) /\ PendingOK(s, p, o, d)
    BY DEF Reached
  <2>2. /\ d.chain \in Seq(Ids(s)) /\ d.damaged \in BOOLEAN
        /\ d.result \in Seq(Seq(Ids(s)))
    BY <2>1 DEF StreamDecoder
  <2>3. p \in Nat /\ o \in Nat /\ o # 0 /\ o <= p /\ o \in DOMAIN s
    BY DEF IsStream
  <2>4. d.chain # <<>> /\ Pending(s, o, p)
    BY <2>1, <2>3 DEF PendingOK
  <2>5. /\ d.damaged <=> \E k \in (o + 1)..p : ~s[k].ok
        /\ ~d.damaged => d.chain = Names(s, o, p)
    BY <2>1, <2>3 DEF PendingOK
  <2> QED
    BY <2>1, <2>2, <2>3, <2>4, <2>5 DEF Reached
<1>1. PICK v : v = s[p + 1]
  OBVIOUS
<1>2. v.id \in Ids(s) /\ v.ok \in BOOLEAN /\ v.more \in BOOLEAN
  BY <1>1 DEF Ids, IsStream
<1>3. PICK f : f = [d EXCEPT !.damaged = @ \/ ~v.ok,
                             !.chain = IF v.ok /\ ~d.damaged
                                       THEN Append(@, v.id) ELSE @]
  OBVIOUS
<1>4. PICK q : q = IF v.ok /\ ~d.damaged THEN Append(d.chain, v.id)
                   ELSE d.chain
  OBVIOUS
<1>5. q \in Seq(Ids(s)) /\ q # <<>>
  BY <1>0, <1>2, <1>4, AppendProperties
<1>6. (d.damaged \/ ~v.ok) \in BOOLEAN
  OBVIOUS
<1>7. /\ f \in StreamDecoder(s) /\ f.sites = d.sites
      /\ f.result = d.result /\ f.chain = q
      /\ f.skipped = d.skipped /\ f.undecodable = d.undecodable
      /\ f.damaged = (d.damaged \/ ~v.ok)
  <2>1. f = [d EXCEPT !.damaged = (d.damaged \/ ~v.ok), !.chain = q]
    BY <1>0, <1>3, <1>4 DEF StreamDecoder
  <2>2. f \in StreamDecoder(s)
    <3>1. PICK b \in BOOLEAN : b = (d.damaged \/ ~v.ok)
      BY <1>6
    <3>2. d \in StreamDecoder(s) /\ f = [d EXCEPT !.damaged = b, !.chain = q]
      BY <1>0, <2>1, <3>1
    <3> QED
      BY <1>5, <3>2 DEF StreamDecoder
  <2>3. f.chain = q /\ f.damaged = (d.damaged \/ ~v.ok)
    BY <1>0, <2>1 DEF StreamDecoder
  <2>4. /\ f.sites = d.sites /\ f.result = d.result
        /\ f.skipped = d.skipped /\ f.undecodable = d.undecodable
    BY <1>0, <2>1 DEF StreamDecoder
  <2> QED
    BY <2>2, <2>3, <2>4
<1>8. f.damaged <=> \E k \in (o + 1)..(p + 1) : ~s[k].ok
  <2>0. p \in Nat /\ o \in Nat /\ o <= p
    BY <1>0
  <2>1. (o + 1)..(p + 1) = (o + 1)..p \cup {p + 1}
    BY <2>0
  <2>2. d.damaged <=> \E k \in (o + 1)..p : ~s[k].ok
    BY <1>0
  <2>3. f.damaged = (d.damaged \/ ~v.ok)
    BY <1>7
  <2> QED
    BY <1>1, <2>1, <2>2, <2>3
<1>9. ~f.damaged => f.chain = Names(s, o, p + 1)
  <2> SUFFICES ASSUME ~f.damaged
               PROVE  f.chain = Names(s, o, p + 1)
    OBVIOUS
  <2>1. ~d.damaged /\ v.ok
    BY <1>0, <1>2, <1>7
  <2>2. f.chain = Append(Names(s, o, p), v.id)
    BY <1>0, <1>4, <1>7, <2>1
  <2> QED
    BY <1>0, <1>1, <2>2, NamesFacts
<1>10. Linked(s, o, p + 1) /\ Sound(s, o)
  BY <1>0, LinkedOn DEF Pending
<1>11. \A a \in 1..(p + 1) : WholeMessage(s, a, p + 1) => a = o
  <2> SUFFICES ASSUME NEW a \in 1..(p + 1), WholeMessage(s, a, p + 1)
               PROVE  a = o
    OBVIOUS
  <2>1. Sound(s, a) /\ Linked(s, a, p + 1)
    BY DEF WholeMessage
  <2>2. a # p + 1
    BY <2>1 DEF Sound
  <2>3. a \in 1..p
    <3>1. p \in Nat
      BY <1>0
    <3> QED
      BY <2>2, <3>1
  <2>4. Pending(s, a, p)
    BY <1>0, <2>1, <2>3, LinkedBack
  <2> QED
    BY <1>0, <2>3, <2>4, OnePending DEF Pending
<1>12. /\ Orphans(s, p + 1) = Orphans(s, p)
       /\ \A x \in Nat : Lost(s, p + 1, x) = Lost(s, p, x)
  <2>1. ~Orphan(s, p + 1)
    <3>1. o \in 1..((p + 1) - 1)
      BY <1>0
    <3> QED
      BY <1>10, <3>1 DEF Orphan
  <2> QED
    BY <1>0, <2>1, LossesGrow
<1>13. CASE v.more
  <2>1. JoinContinuation(d, v) = f
    BY <1>3, <1>13 DEF JoinContinuation
  <2>2. Pending(s, o, p + 1)
    <3>1. o \in 1..(p + 1)
      BY <1>0
    <3> QED
      BY <1>1, <1>10, <1>13, <3>1 DEF Pending
  <2>3. NoneEnds(s, p + 1)
    BY <1>1, <1>13 DEF NoneEnds, WholeMessage
  <2>4. ResultOK(s, p + 1, o, f.result)
    BY <1>0, <1>7, <2>3, SameResults
  <2>5. TallyOK(s, p + 1, o, f)
    BY <1>0, <1>7, <1>12 DEF TallyOK
  <2>6. PendingOK(s, p + 1, o, f)
    BY <1>0, <1>5, <1>7, <1>8, <1>9, <2>2 DEF PendingOK
  <2>7. Reached(s, p + 1, o, f)
    BY <1>0, <1>7, <2>4, <2>5, <2>6 DEF Reached, SitesOK
  <2>8. o \in 0..(p + 1)
    BY <1>0
  <2> QED
    BY <1>0, <1>1, <2>1, <2>7, <2>8 DEF SecondDone
<1>14. CASE ~v.more
  <2>1. PICK e : e = FinalizePending(f)
    OBVIOUS
  <2>2. JoinContinuation(d, v) = e
    BY <1>3, <1>14, <2>1 DEF JoinContinuation
  <2>3. f.chain # <<>>
    BY <1>5, <1>7
  <2>4. /\ e \in StreamDecoder(s) /\ e.sites = d.sites
        /\ e.chain = <<>> /\ e.skipped = d.skipped
        /\ f.damaged => e.result = d.result
                        /\ e.undecodable = d.undecodable + 1
        /\ ~f.damaged => e.result = Append(d.result, f.chain)
                         /\ e.undecodable = d.undecodable
    BY <1>7, <2>1, <2>3, FinalizeIs
  <2>5. NonePending(s, p + 1)
    BY <1>1, <1>14 DEF NonePending, Pending
  <2>6. ASSUME f.damaged
        PROVE  Reached(s, p + 1, 0, e)
    <3>1. ~Decodable(s, o)
      <4> SUFFICES ASSUME NEW j \in DOMAIN s, WholeMessage(s, o, j)
                   PROVE  FALSE
        BY DEF Decodable
      <4>1. j = p + 1
        BY <1>0, <1>1, <1>14, EndIsNext
      <4> QED
        BY <1>8, <2>6, <4>1 DEF WholeMessage
    <3>2. NoneEnds(s, p + 1)
      BY <1>11, <3>1 DEF NoneEnds, Decodable
    <3>3. ResultOK(s, p + 1, 0, d.result)
      BY <1>0, <3>2, SameResults
    <3>4. /\ Cardinality(Lost(s, p, 0)) = Cardinality(Lost(s, p, o)) + 1
          /\ Cardinality(Lost(s, p, o)) \in Nat
      <4>1. s[o].kind = "msg"
        BY <1>10 DEF Sound
      <4> QED
        BY <1>0, <3>1, <4>1, LossCounts
    <3>5. PICK u : u = Cardinality(Illegible(s))
      OBVIOUS
    <3>6. u \in Nat /\ d.undecodable = u + Cardinality(Lost(s, p, o))
      BY <1>0, <3>5, StreamCounts DEF TallyOK
    <3>7. e.undecodable = u + (Cardinality(Lost(s, p, o)) + 1)
      BY <2>4, <2>6, <3>4, <3>6
    <3>8. Lost(s, p + 1, 0) = Lost(s, p, 0)
      BY <1>12
    <3>9. TallyOK(s, p + 1, 0, e)
      BY <1>0, <1>12, <2>4, <3>4, <3>5, <3>7, <3>8 DEF TallyOK
    <3>10. e.result = d.result
      BY <2>4, <2>6
    <3> QED
      BY <1>0, <2>4, <3>3, <3>9, <3>10 DEF Reached, PendingOK, SitesOK
  <2>7. ASSUME ~f.damaged
        PROVE  Reached(s, p + 1, 0, e)
    <3>1. WholeMessage(s, o, p + 1)
      BY <1>0, <1>1, <1>8, <1>10, <1>14, <2>7 DEF WholeMessage
    <3>2. /\ Append(d.result, Names(s, o, p + 1)) \in Seq(Seq(Ids(s)))
          /\ ResultOK(s, p + 1, 0, Append(d.result, Names(s, o, p + 1)))
      <4>1. o \in 0..p /\ o \in 1..(p + 1)
        BY <1>0
      <4> QED
        BY <1>0, <1>11, <3>1, <4>1, OneMoreResult
    <3>3. e.result = Append(d.result, Names(s, o, p + 1))
      BY <1>9, <2>4, <2>7
    <3>4. Lost(s, p + 1, 0) = Lost(s, p, o)
      <4>1. Decodable(s, o)
        BY <3>1 DEF Decodable
      <4> QED
        BY <1>0, <1>12, <4>1, LossCounts
    <3>5. TallyOK(s, p + 1, 0, e)
      BY <1>0, <1>12, <2>4, <2>7, <3>4 DEF TallyOK
    <3> QED
      BY <1>0, <2>4, <3>2, <3>3, <3>5 DEF Reached, PendingOK, SitesOK
  <2>8. Reached(s, p + 1, 0, e)
    BY <1>6, <1>7, <2>6, <2>7
  <2>9. 0 \in 0..(p + 1)
    BY <1>0
  <2> QED
    BY <1>1, <2>2, <2>5, <2>8, <2>9 DEF SecondDone
<1> QED
  BY <1>2, <1>13, <1>14

(* One record of the second pass.                                          *)
LEMMA SecondStep ==
  ASSUME NEW s, IsStream(s), NEW p \in Nat, p + 1 \in DOMAIN s,
         NEW d, SecondDone(s, p, d)
  PROVE  SecondDone(s, p + 1, SecondPass(d, s[p + 1]))
<1>1. PICK o \in 0..p : Reached(s, p, o, d) /\ (o = 0 => NonePending(s, p))
  BY DEF SecondDone
<1>2. PICK v : v = s[p + 1]
  OBVIOUS
<1>3. CASE o = 0
  <2>1. SecondPass(d, v) = Unchained(d, v)
    BY <1>1, <1>3 DEF SecondPass, Reached, PendingOK
  <2>2. Reached(s, p, 0, d) /\ NonePending(s, p)
    BY <1>1, <1>3
  <2> QED
    BY <1>2, <2>1, <2>2, UnheldStep, SoundStep
<1>4. CASE o # 0
  <2>1. d.chain # <<>> /\ o \in 1..p /\ p \in DOMAIN s /\ Pending(s, o, p)
    BY <1>1, <1>4 DEF Reached, PendingOK, IsStream
  <2>2. CASE v.kind = "cont"
    <3>1. SecondPass(d, v) = JoinContinuation(d, v)
      BY <2>1, <2>2 DEF SecondPass
    <3> QED
      BY <1>1, <1>2, <2>1, <2>2, <3>1, JoinStep
  <2>3. CASE v.kind # "cont"
    <3>1. PICK e : e = FinalizePending([d EXCEPT !.damaged = TRUE])
      OBVIOUS
    <3>2. SecondPass(d, v) = Unchained(e, v)
      BY <2>1, <2>3, <3>1 DEF SecondPass
    <3>3. ~Decodable(s, o)
      BY <1>2, <2>1, <2>3, EndIsNext DEF Decodable
    <3>4. Reached(s, p, 0, e)
      BY <1>1, <2>1, <3>1, <3>3, AbandonStep
    <3> QED
      BY <1>2, <2>3, <3>2, <3>4, UnheldStep, SoundStep
  <2> QED
    BY <2>2, <2>3
<1> QED
  BY <1>3, <1>4

(* The end of the stream: a Message that is still pending lost its tail.   *)
LEMMA LastStep ==
  ASSUME NEW s, IsStream(s), NEW d, SecondDone(s, Len(s), d)
  PROVE  Reached(s, Len(s), 0, EndOfStream(d))
<1>1. PICK p : p = Len(s)
  OBVIOUS
<1>2. PICK o \in 0..p : Reached(s, p, o, d)
  BY <1>1 DEF SecondDone
<1>3. p \in Nat /\ DOMAIN s = 1..p
  BY <1>1 DEF IsStream
<1>4. CASE o = 0
  <2>1. d.chain = <<>>
    BY <1>2, <1>4 DEF Reached, PendingOK
  <2>2. EndOfStream(d) = d
    BY <2>1 DEF EndOfStream, FinalizePending
  <2> QED
    BY <1>1, <1>2, <1>4, <2>2
<1>5. CASE o # 0
  <2>1. d.chain # <<>> /\ o \in 1..p /\ p \in DOMAIN s /\ Pending(s, o, p)
    BY <1>2, <1>3, <1>5 DEF Reached, PendingOK
  <2>2. p + 1 \notin DOMAIN s
    BY <1>3
  <2>3. ~Decodable(s, o)
    BY <2>1, <2>2, EndIsNext DEF Decodable
  <2>4. EndOfStream(d) = FinalizePending([d EXCEPT !.damaged = TRUE])
    BY <2>1 DEF EndOfStream
  <2> QED
    BY <1>1, <1>2, <2>1, <2>3, <2>4, AbandonStep
<1> QED
  BY <1>4, <1>5

-----------------------------------------------------------------------------
(* The first pass.                                                         *)

IllegibleTo(s, p) == {i \in 1..p : s[i].kind \in {"def", "sub"} /\ ~s[i].ok}

StrangeTo(s, p) ==
  {i \in 1..p : s[i].kind \notin {"def", "sub", "msg", "cont"}}

(* The first pass after p records: definitions are collected, and nothing  *)
(* is counted that the second pass will come to.                           *)
FirstDone(s, p, d) ==
  /\ d \in StreamDecoder(s)
  /\ \A x : x \in d.sites <=> \E i \in 1..p : /\ s[i].kind = "def" /\ s[i].ok
                                              /\ s[i].site = x
  /\ d.chain = <<>> /\ d.result = <<>>
  /\ d.undecodable = Cardinality(IllegibleTo(s, p))
  /\ d.skipped = Cardinality(StrangeTo(s, p))

LEMMA EmptyIsFirst ==
  ASSUME NEW s, IsStream(s)
  PROVE  FirstDone(s, 0, EmptyDecoder)
<1>1. <<>> \in Seq(Ids(s)) /\ <<>> \in Seq(Seq(Ids(s)))
  BY EmptySeq
<1>2. EmptyDecoder \in StreamDecoder(s)
  BY <1>1 DEF EmptyDecoder, StreamDecoder
<1>3. 1..0 = {} /\ IllegibleTo(s, 0) = {} /\ StrangeTo(s, 0) = {}
  BY DEF IllegibleTo, StrangeTo
<1> QED
  BY <1>2, <1>3, FS_EmptySet DEF FirstDone, EmptyDecoder

LEMMA FirstStep ==
  ASSUME NEW s, IsStream(s), NEW p \in Nat, p + 1 \in DOMAIN s,
         NEW d, FirstDone(s, p, d)
  PROVE  FirstDone(s, p + 1, FirstPass(d, s[p + 1]))
<1>1. PICK v : v = s[p + 1]
  OBVIOUS
<1>2. PICK e : e = FirstPass(d, v)
  OBVIOUS
<1>3. /\ d \in StreamDecoder(s) /\ d.chain = <<>> /\ d.result = <<>>
      /\ v.site \in SitesOf(s) /\ d.messages + 1 \in Nat /\ v.ok \in BOOLEAN
  BY <1>1 DEF FirstDone, StreamDecoder, SitesOf, IsStream
<1>4. 1..(p + 1) = 1..p \cup {p + 1} /\ p + 1 \notin 1..p
  OBVIOUS
<1>5. /\ IllegibleTo(s, p + 1)
           = IF v.kind \in {"def", "sub"} /\ ~v.ok
             THEN IllegibleTo(s, p) \cup {p + 1} ELSE IllegibleTo(s, p)
      /\ StrangeTo(s, p + 1)
           = IF v.kind \notin {"def", "sub", "msg", "cont"}
             THEN StrangeTo(s, p) \cup {p + 1} ELSE StrangeTo(s, p)
  <2>1. IllegibleTo(s, p + 1)
          = IF v.kind \in {"def", "sub"} /\ ~v.ok
            THEN IllegibleTo(s, p) \cup {p + 1} ELSE IllegibleTo(s, p)
    BY <1>1, <1>4 DEF IllegibleTo
  <2>2. StrangeTo(s, p + 1)
          = IF v.kind \notin {"def", "sub", "msg", "cont"}
            THEN StrangeTo(s, p) \cup {p + 1} ELSE StrangeTo(s, p)
    BY <1>1, <1>4 DEF StrangeTo
  <2> QED
    BY <2>1, <2>2
<1>6. /\ Cardinality(IllegibleTo(s, p) \cup {p + 1})
           = Cardinality(IllegibleTo(s, p)) + 1
      /\ Cardinality(StrangeTo(s, p) \cup {p + 1})
           = Cardinality(StrangeTo(s, p)) + 1
  <2>1. /\ IllegibleTo(s, p) \subseteq 1..(p + 1)
        /\ StrangeTo(s, p) \subseteq 1..(p + 1)
        /\ p + 1 \notin IllegibleTo(s, p) /\ p + 1 \notin StrangeTo(s, p)
        /\ p + 1 \in Nat /\ p + 1 \in 1..(p + 1)
    BY DEF IllegibleTo, StrangeTo
  <2> QED
    BY <2>1, Counted
<1>7. \A x : (\E i \in 1..(p + 1) : /\ s[i].kind = "def" /\ s[i].ok
                                    /\ s[i].site = x)
             <=> x \in d.sites \/ (v.kind = "def" /\ v.ok /\ v.site = x)
  BY <1>1, <1>4 DEF FirstDone
<1>8. CASE v.kind = "def" /\ v.ok
  <2>1. e = [d EXCEPT !.sites = @ \cup {v.site}]
    BY <1>2, <1>8 DEF FirstPass
  <2>2. /\ e \in StreamDecoder(s) /\ e.sites = d.sites \cup {v.site}
        /\ e.chain = d.chain /\ e.result = d.result
        /\ e.undecodable = d.undecodable /\ e.skipped = d.skipped
    BY <1>3, <2>1 DEF StreamDecoder
  <2> QED
    BY <1>1, <1>2, <1>5, <1>7, <1>8, <2>2 DEF FirstDone
<1>9. CASE v.kind = "sub" /\ v.ok
  <2>1. e = [d EXCEPT !.names = @ \cup {v.site}]
    BY <1>2, <1>9 DEF FirstPass
  <2>2. /\ e \in StreamDecoder(s) /\ e.sites = d.sites
        /\ e.chain = d.chain /\ e.result = d.result
        /\ e.undecodable = d.undecodable /\ e.skipped = d.skipped
    BY <1>3, <2>1 DEF StreamDecoder
  <2> QED
    BY <1>1, <1>2, <1>5, <1>7, <1>9, <2>2 DEF FirstDone
<1>10. CASE v.kind \in {"def", "sub"} /\ ~v.ok
  <2>1. e = Undecodable(d)
    BY <1>2, <1>10 DEF FirstPass
  <2>2. /\ e \in StreamDecoder(s) /\ e.sites = d.sites
        /\ e.chain = d.chain /\ e.result = d.result
        /\ e.undecodable = d.undecodable + 1 /\ e.skipped = d.skipped
    BY <1>3, <2>1, UndecodableIs
  <2> QED
    BY <1>1, <1>2, <1>5, <1>6, <1>7, <1>10, <2>2 DEF FirstDone
<1>11. CASE v.kind = "msg"
  <2>1. e = [d EXCEPT !.messages = @ + 1]
    BY <1>2, <1>11 DEF FirstPass
  <2>2. /\ e \in StreamDecoder(s) /\ e.sites = d.sites
        /\ e.chain = d.chain /\ e.result = d.result
        /\ e.undecodable = d.undecodable /\ e.skipped = d.skipped
    BY <1>3, <2>1 DEF StreamDecoder
  <2> QED
    BY <1>1, <1>2, <1>5, <1>7, <1>11, <2>2 DEF FirstDone
<1>12. CASE v.kind = "cont"
  <2>1. e = d
    BY <1>2, <1>12 DEF FirstPass
  <2> QED
    BY <1>1, <1>2, <1>5, <1>7, <1>12, <2>1 DEF FirstDone
<1>13. CASE v.kind \notin {"def", "sub", "msg", "cont"}
  <2>1. e = Skipped(d)
    BY <1>2, <1>13 DEF FirstPass
  <2>2. /\ e \in StreamDecoder(s) /\ e.sites = d.sites
        /\ e.chain = d.chain /\ e.result = d.result
        /\ e.undecodable = d.undecodable /\ e.skipped = d.skipped + 1
    BY <1>3, <2>1, SkippedIs
  <2>3. /\ v.kind # "def" /\ IllegibleTo(s, p + 1) = IllegibleTo(s, p)
        /\ StrangeTo(s, p + 1) = StrangeTo(s, p) \cup {p + 1}
    BY <1>5, <1>13
  <2>4. /\ e.undecodable = Cardinality(IllegibleTo(s, p + 1))
        /\ e.skipped = Cardinality(StrangeTo(s, p + 1))
    BY <1>6, <2>2, <2>3 DEF FirstDone
  <2>5. d.chain = <<>> /\ d.result = <<>>
    BY <1>3
  <2> QED
    BY <1>1, <1>2, <1>7, <2>2, <2>3, <2>4, <2>5 DEF FirstDone
<1>14. \/ v.kind = "def" /\ v.ok
       \/ v.kind = "sub" /\ v.ok
       \/ v.kind \in {"def", "sub"} /\ ~v.ok
       \/ v.kind = "msg" \/ v.kind = "cont"
       \/ v.kind \notin {"def", "sub", "msg", "cont"}
  OBVIOUS
<1> QED
  BY <1>8, <1>9, <1>10, <1>11, <1>12, <1>13, <1>14

(* The second pass starts from what the first collected.                   *)
LEMMA TurnStep ==
  ASSUME NEW s, IsStream(s), NEW d, FirstDone(s, Len(s), d)
  PROVE  SecondDone(s, 0, d)
<1>1. DOMAIN s = 1..Len(s) /\ 1..0 = {} /\ 0 \in 0..0 /\ DOMAIN <<>> = {}
  BY DEF IsStream
<1>2. IllegibleTo(s, Len(s)) = Illegible(s) /\ StrangeTo(s, Len(s)) = Strange(s)
  BY <1>1 DEF IllegibleTo, Illegible, StrangeTo, Strange
<1>3. Lost(s, 0, 0) = {} /\ Orphans(s, 0) = {} /\ Cardinality({}) = 0
  BY <1>1, FS_EmptySet DEF Lost, Orphans
<1>4. d.undecodable \in Nat /\ d.skipped \in Nat /\ d \in StreamDecoder(s)
      /\ d.result = <<>> /\ d.chain = <<>>
  BY DEF FirstDone, StreamDecoder
<1>5. TallyOK(s, 0, 0, d)
  <2>1. /\ d.undecodable = d.undecodable + 0 /\ d.skipped = d.skipped + 0
        /\ d.undecodable = Cardinality(Illegible(s))
        /\ d.skipped = Cardinality(Strange(s))
    BY <1>2, <1>4 DEF FirstDone
  <2> QED
    BY <1>3, <2>1 DEF TallyOK
<1>6. SitesOK(s, d)
  BY <1>1 DEF FirstDone, SitesOK, Defined
<1>7. ResultOK(s, 0, 0, d.result)
  BY <1>1, <1>4 DEF ResultOK
<1>8. NonePending(s, 0)
  BY <1>1 DEF NonePending
<1> QED
  BY <1>1, <1>4, <1>5, <1>6, <1>7, <1>8 DEF SecondDone, Reached, PendingOK

-----------------------------------------------------------------------------
(* decodeAll of any stream.                                                *)

(* What the decoder holds is what the records it has taken call for.       *)
StreamInv ==
  /\ IsStream(stream) /\ \A i \in DOMAIN stream : stream[i].id = i
  /\ position \in 0..Len(stream)
  /\ phase \in {1, 2, 3}
  /\ phase = 1 => FirstDone(stream, position, reading)
  /\ phase = 2 => SecondDone(stream, position, reading)
  /\ phase = 3 => Reached(stream, Len(stream), 0, reading)

LEMMA InitStream == StreamInit => StreamInv
<1> SUFFICES ASSUME StreamInit
             PROVE  StreamInv
  OBVIOUS
<1>0. PICK n \in 0..MaxLength : \E f \in [1..n -> Forms] :
        stream = [i \in 1..n |-> Named(f[i], i)]
  BY DEF StreamInit
<1>1. PICK f \in [1..n -> Forms] : stream = [i \in 1..n |-> Named(f[i], i)]
  BY <1>0
<1>2. n \in Nat
  BY <1>1, LengthAssumption
<1>3. Len(stream) = n /\ DOMAIN stream = 1..n
  <2>1. stream \in [1..n -> {stream[i] : i \in 1..n}]
    BY <1>1
  <2> QED
    BY <1>1, <1>2, <2>1, FunctionIsSeq
<1>4. \A i \in 1..n : /\ stream[i].id = i
                      /\ stream[i].more \in BOOLEAN /\ stream[i].ok \in BOOLEAN
  <2> SUFFICES ASSUME NEW i \in 1..n
               PROVE  /\ stream[i].id = i
                      /\ stream[i].more \in BOOLEAN
                      /\ stream[i].ok \in BOOLEAN
    OBVIOUS
  <2>1. stream[i] = Named(f[i], i)
    BY <1>1
  <2>2. f[i] \in Forms
    OBVIOUS
  <2>3. f[i].more \in BOOLEAN /\ f[i].ok \in BOOLEAN
    <3>1. PICK g : g = f[i]
      OBVIOUS
    <3> DEFINE Definitions ==
                 {[kind |-> k, more |-> FALSE, ok |-> b, site |-> s] :
                    k \in {"def", "sub"}, b \in BOOLEAN, s \in SiteIds}
               Messages ==
                 {[kind |-> "msg", more |-> m, ok |-> b, site |-> s] :
                    m \in BOOLEAN, b \in BOOLEAN, s \in SiteIds}
               Continuations ==
                 {[kind |-> "cont", more |-> m, ok |-> b, site |-> 0] :
                    m \in BOOLEAN, b \in BOOLEAN}
               Blobs ==
                 {[kind |-> "blob", more |-> FALSE, ok |-> TRUE, site |-> 0]}
    <3>2. g \in Definitions \cup Messages \cup Continuations \cup Blobs
      <4>1. Forms = Definitions \cup Messages \cup Continuations \cup Blobs
        BY DEF Forms
      <4> HIDE DEF Definitions, Messages, Continuations, Blobs
      <4> QED
        BY <2>2, <3>1, <4>1
    <3>3. g.more \in BOOLEAN /\ g.ok \in BOOLEAN
      <4>1. CASE g \in Definitions
        <5>1. PICK k \in {"def", "sub"}, b \in BOOLEAN, s \in SiteIds :
                g = [kind |-> k, more |-> FALSE, ok |-> b, site |-> s]
          BY <4>1
        <5> QED
          BY <5>1
      <4>2. CASE g \in Messages
        BY <4>2
      <4>3. CASE g \in Continuations
        BY <4>3
      <4>4. CASE g \in Blobs
        <5>1. g = [kind |-> "blob", more |-> FALSE, ok |-> TRUE, site |-> 0]
          BY <4>4
        <5> QED
          BY <5>1
      <4> HIDE DEF Definitions, Messages, Continuations, Blobs
      <4> QED
        BY <3>2, <4>1, <4>2, <4>3, <4>4
    <3> QED
      BY <3>1, <3>3
  <2> QED
    BY <2>1, <2>3 DEF Named
<1>5. IsStream(stream)
  BY <1>2, <1>3, <1>4 DEF IsStream
<1>6. FirstDone(stream, 0, reading)
  BY <1>5, EmptyIsFirst DEF StreamInit
<1> QED
  BY <1>2, <1>3, <1>4, <1>5, <1>6 DEF StreamInv, StreamInit

LEMMA StreamStep == StreamInv /\ [StreamNext]_streamVars => StreamInv'
<1> SUFFICES ASSUME StreamInv, [StreamNext]_streamVars
             PROVE  StreamInv'
  OBVIOUS
<1>0. IsStream(stream) /\ Len(stream) \in Nat /\ DOMAIN stream = 1..Len(stream)
      /\ position \in 0..Len(stream)
  BY DEF StreamInv, IsStream
<1>1. CASE PassOne
  <2>1. /\ position + 1 \in DOMAIN stream /\ position \in Nat
        /\ reading' = FirstPass(reading, stream[position + 1])
        /\ position' = position + 1 /\ stream' = stream /\ phase' = phase
        /\ phase = 1
    BY <1>0, <1>1 DEF PassOne, Take
  <2>2. FirstDone(stream, position, reading)
    BY <2>1 DEF StreamInv
  <2>3. FirstDone(stream, position', reading')
    BY <1>0, <2>1, <2>2, FirstStep
  <2>4. FirstDone(stream, position, reading)'
    BY <2>1, <2>3
  <2> QED
    BY <1>0, <2>1, <2>4 DEF StreamInv
<1>2. CASE TurnRound
  <2>1. /\ position = Len(stream) /\ reading' = reading
        /\ position' = 0 /\ stream' = stream /\ phase' = 2 /\ phase = 1
    BY <1>2 DEF TurnRound
  <2>2. FirstDone(stream, Len(stream), reading)
    BY <2>1 DEF StreamInv
  <2>3. SecondDone(stream, 0, reading)
    BY <1>0, <2>2, TurnStep
  <2>4. SecondDone(stream, position, reading)'
    BY <2>1, <2>3
  <2> QED
    BY <1>0, <2>1, <2>4 DEF StreamInv
<1>3. CASE PassTwo
  <2>1. /\ position + 1 \in DOMAIN stream /\ position \in Nat
        /\ reading' = SecondPass(reading, stream[position + 1])
        /\ position' = position + 1 /\ stream' = stream /\ phase' = phase
        /\ phase = 2
    BY <1>0, <1>3 DEF PassTwo, Take
  <2>2. SecondDone(stream, position, reading)
    BY <2>1 DEF StreamInv
  <2>3. SecondDone(stream, position', reading')
    BY <1>0, <2>1, <2>2, SecondStep
  <2>4. SecondDone(stream, position, reading)'
    BY <2>1, <2>3
  <2> QED
    BY <1>0, <2>1, <2>4 DEF StreamInv
<1>4. CASE Return
  <2>1. /\ position = Len(stream) /\ reading' = EndOfStream(reading)
        /\ position' = position /\ stream' = stream /\ phase' = 3 /\ phase = 2
    BY <1>4 DEF Return
  <2>2. SecondDone(stream, Len(stream), reading)
    BY <2>1 DEF StreamInv
  <2>3. Reached(stream, Len(stream), 0, reading')
    BY <1>0, <2>1, <2>2, LastStep
  <2>4. Reached(stream, Len(stream), 0, reading)'
    BY <2>1, <2>3
  <2> QED
    BY <1>0, <2>1, <2>4 DEF StreamInv
<1>5. CASE Returned \/ UNCHANGED streamVars
  BY <1>5 DEF Returned, streamVars, StreamInv
<1> QED
  BY <1>1, <1>2, <1>3, <1>4, <1>5 DEF StreamNext

(* The invariant of decodeAll over a stream (reader.hpp, decodeAll).       *)
THEOREM StreamInvariance == StreamSpec => []StreamInv
BY InitStream, StreamStep, PTL DEF StreamSpec

(* Whatever the stream holds, decodeAll returns its whole Messages, each   *)
(* once, joined from its own records and in file order, and nothing else   *)
(* (reader.hpp, decodeAll).                                                *)
THEOREM StreamDecodes == StreamSpec => []DecodesExactly
<1>1. StreamInv => DecodesExactly
  <2> SUFFICES ASSUME StreamInv, phase = 3
               PROVE  DecodesExactly
    BY DEF DecodesExactly
  <2>1. /\ IsStream(stream) /\ DOMAIN stream = 1..Len(stream)
        /\ \A i \in DOMAIN stream : stream[i].id = i
        /\ ResultOK(stream, Len(stream), 0, reading.result)
    BY DEF StreamInv, IsStream, Reached
  <2>2. ASSUME NEW k \in DOMAIN reading.result
        PROVE  \E i, j \in DOMAIN stream :
                 /\ WholeMessage(stream, i, j)
                 /\ reading.result[k] = Names(stream, i, j)
                 /\ reading.result[k][1] = i
    <3>0. PICK i \in 1..Len(stream), j \in 1..Len(stream) :
            /\ WholeMessage(stream, i, j)
            /\ reading.result[k] = Names(stream, i, j)
      BY <2>1 DEF ResultOK
    <3>1. /\ i \in DOMAIN stream /\ j \in DOMAIN stream
          /\ WholeMessage(stream, i, j)
          /\ reading.result[k] = Names(stream, i, j)
      BY <2>1, <3>0
    <3>2. i <= j
      BY <3>1 DEF WholeMessage
    <3>3. Names(stream, i, j)[1] = stream[i].id
      <4>1. PICK s : s = stream
        OBVIOUS
      <4>2. IsStream(s) /\ i \in DOMAIN s /\ j \in DOMAIN s
        BY <2>1, <4>1
      <4>3. Names(s, i, j)[1] = s[i].id
        <5>1. i \in Nat /\ j \in Nat /\ i <= j
          BY <2>1, <3>2 DEF IsStream
        <5> QED
          BY <5>1, NamesFirst
      <4> QED
        BY <4>1, <4>3
    <3>4. Names(stream, i, j)[1] = i
      BY <2>1, <3>3
    <3> QED
      BY <3>1, <3>4
  <2>3. ASSUME NEW k \in DOMAIN reading.result,
               NEW m \in DOMAIN reading.result, k < m
        PROVE  reading.result[k][1] < reading.result[m][1]
    <3>1. PICK a \in DOMAIN stream : reading.result[k][1] = a
      BY <2>2
    <3>2. PICK b \in DOMAIN stream : reading.result[m][1] = b
      BY <2>2
    <3>3. stream[a].id = a /\ stream[b].id = b
      BY <2>1
    <3>4. \A x, y \in DOMAIN stream :
            stream[x].id = reading.result[k][1]
            /\ stream[y].id = reading.result[m][1] => x < y
      BY <2>1, <2>3 DEF ResultOK
    <3>5. a < b
      BY <3>1, <3>2, <3>3, <3>4, Zenon
    <3> QED
      BY <3>1, <3>2, <3>5
  <2>4. \A i, j \in DOMAIN stream :
          WholeMessage(stream, i, j) =>
            \E k \in DOMAIN reading.result :
              reading.result[k] = Names(stream, i, j)
    BY <2>1 DEF ResultOK
  <2>5. \A k \in DOMAIN reading.result :
          \E i, j \in DOMAIN stream :
            /\ WholeMessage(stream, i, j)
            /\ reading.result[k] = Names(stream, i, j)
    BY <2>2
  <2> QED
    BY <2>3, <2>4, <2>5 DEF DecodesExactly
<1> QED
  BY <1>1, StreamInvariance, PTL

(* What it does not return it counts, each lost record once and as what it *)
(* is (R9.2; reader.hpp, undecodable() and skipped()).                     *)
THEOREM StreamTells == StreamSpec => []NothingSilent
<1>1. StreamInv => NothingSilent
  <2> SUFFICES ASSUME StreamInv, phase = 3
               PROVE  NothingSilent
    BY DEF NothingSilent
  <2>1. /\ DOMAIN stream = 1..Len(stream)
        /\ TallyOK(stream, Len(stream), 0, reading)
    BY DEF StreamInv, IsStream, Reached
  <2>2. Lost(stream, Len(stream), 0)
          = {i \in DOMAIN stream :
               stream[i].kind = "msg" /\ ~Decodable(stream, i)}
    BY <2>1 DEF Lost
  <2>3. Orphans(stream, Len(stream))
          = {k \in DOMAIN stream : Orphan(stream, k)}
    BY <2>1 DEF Orphans
  <2> QED
    BY <2>1, <2>2, <2>3 DEF NothingSilent, TallyOK
<1> QED
  BY <1>1, StreamInvariance, PTL

-----------------------------------------------------------------------------
(* What the calls asked for.                                               *)

(* A call in progress keeps what it was asked for.                         *)
KeepsAsking ==
  \A u \in Threads :
    pc'[u] # "idle" => /\ pc[u] # "idle"
                       /\ job'[u].shape = job[u].shape
                       /\ job'[u].log = job[u].log
                       /\ job'[u].call = job[u].call

LEMMA AdvanceKeepsAsking ==
  ASSUME IInv, NEW t \in Threads, Advance(t)
  PROVE  KeepsAsking /\ attempts' = attempts
<1>1. /\ \A u \in Threads : u # t => pc'[u] = pc[u] /\ job'[u] = job[u]
      /\ attempts' = attempts
      /\ pc'[t] # "idle" => /\ pc[t] # "idle"
                            /\ job'[t].shape = job[t].shape
                            /\ job'[t].log = job[t].log
                            /\ job'[t].call = job[t].call
  <2>1. CASE CurrentWriter(t) \/ RefillWriter(t)
    BY <2>1 DEF CurrentWriter, RefillWriter, ClaimChunk, Goto, counterVars,
                IInv, TypeOK
  <2>2. CASE StampHeader(t) \/ FillPayload(t) \/ CountDrop(t)
    BY <2>2 DEF StampHeader, FillPayload, CountDrop, Goto, counterVars, IInv,
                TypeOK
  <2>3. CASE Reserve(t)
    BY <2>3 DEF Reserve, TakeChain, TakeSlots, Goto, counterVars, IInv, TypeOK
  <2>4. CASE Retry(t)
    BY <2>4 DEF Retry, TakeChain, TakeShortDefinition, TakeFlatMessage,
                TakeSlots, Goto, counterVars, IInv, TypeOK
  <2>5. CASE Commit(t)
    BY <2>5 DEF Commit, Goto, IInv, TypeOK
  <2>6. CASE Announce(t)
    <3>1. /\ pc' = [pc EXCEPT ![t] = "current"]
          /\ job' = [job EXCEPT ![t] = [log |-> job[t].log, kind |-> "msg",
                         site |-> job[t].site, shape |-> job[t].shape,
                         call |-> job[t].call]]
          /\ attempts' = attempts /\ pc[t] = "announce"
      BY <2>6 DEF Announce, Goto, counterVars
    <3> QED
      BY <3>1 DEF IInv, TypeOK
  <2> QED
    BY <2>1, <2>2, <2>3, <2>4, <2>5, <2>6 DEF Advance
<1> QED
  BY <1>1 DEF KeepsAsking

(* The call that begins, and what it asks for.                             *)
Asks(t, l, m) ==
  /\ pc[t] = "idle" /\ job'[t] # NoJob
  /\ job'[t].log = l /\ job'[t].call = attempts[l] + 1
  /\ job'[t].shape = m /\ m \in Shape
  /\ attempts[l] < MaxEmits
  /\ attempts' = [attempts EXCEPT ![l] = @ + 1]
  /\ \A u \in Threads : u # t => pc'[u] = pc[u] /\ job'[u] = job[u]

LEMMA CallAsks ==
  ASSUME IInv, NEW t \in Threads, Call(t)
  PROVE  \E l \in Loggers, m \in Shape : Asks(t, l, m)
<1>1. PICK l \in Loggers, m \in Shape :
        \E kind, s : Start(t, l, kind, s, m)
  <2>0. Shapes \subseteq Shape /\ NameShapes \subseteq Shape
    BY SizesAssumption
  <2>1. PICK l \in Loggers :
          \/ \E s \in Sites, m \in Shapes : EmitRecord(t, l, s, m)
          \/ \E m \in NameShapes : DeclareSubsystem(t, l, m)
    BY DEF Call
  <2>2. CASE \E s \in Sites, m \in Shapes : EmitRecord(t, l, s, m)
    <3>1. PICK s \in Sites, m \in Shapes : EmitRecord(t, l, s, m)
      BY <2>2
    <3>2. Start(t, l, IF key[s] = l THEN "msg" ELSE "def", s, m)
      BY <3>1 DEF EmitRecord
    <3> QED
      BY <2>0, <3>2
  <2>3. CASE \E m \in NameShapes : DeclareSubsystem(t, l, m)
    BY <2>0, <2>3 DEF DeclareSubsystem
  <2> QED
    BY <2>1, <2>2, <2>3
<1>0. PICK kind, s : Start(t, l, kind, s, m)
  BY <1>1
<1>2. /\ job' = [job EXCEPT ![t] = [log |-> l, kind |-> kind, site |-> s,
                                    shape |-> m, call |-> attempts[l] + 1]]
      /\ pc' = [pc EXCEPT ![t] = "current"]
      /\ pc[t] = "idle" /\ attempts[l] < MaxEmits
      /\ attempts' = [attempts EXCEPT ![l] = @ + 1]
  BY <1>0 DEF Start, Goto
<1>3. DOMAIN job = Threads /\ DOMAIN pc = Threads
  BY DEF IInv, TypeOK
<1>4. job'[t] = [log |-> l, kind |-> kind, site |-> s,
                 shape |-> m, call |-> attempts[l] + 1]
  BY <1>2, <1>3
<1>5. job'[t].log = l /\ l # NoLogger
  BY <1>4, NamesAssumption
<1>6. job'[t] # NoJob
  BY <1>5 DEF NoJob
<1>7. Asks(t, l, m)
  BY <1>2, <1>3, <1>4, <1>5, <1>6 DEF Asks
<1> QED
  BY <1>7

(* A step of KillRead is a call that begins, noted under its number, or    *)
(* one that leaves the notes alone.                                        *)
LEMMA KillStepKinds ==
  ASSUME IInv, AskedInv, [KillNext]_killVars
  PROVE  \/ \E t \in Threads, l \in Loggers, m \in Shape :
              /\ Asks(t, l, m)
              /\ asked' = [asked EXCEPT ![<<l, attempts[l] + 1>>] = m]
         \/ asked' = asked /\ KeepsAsking /\ attempts' = attempts
<1>0. \A t \in Threads : pc[t] = "idle" => job[t] = NoJob
  BY DEF IInv, JobInv, JobOK
<1>1. CASE UNCHANGED killVars
  BY <1>1 DEF killVars, vars, KeepsAsking
<1>2. CASE KillNext
  <2>0. DOMAIN asked = Loggers \X (1..MaxEmits)
    BY DEF AskedInv
  <2>1. asked' = [p \in DOMAIN asked |->
                    IF \E t \in Threads :
                         BeginsCall(t) /\ p = <<job'[t].log, job'[t].call>>
                    THEN job'[CHOOSE t \in Threads : BeginsCall(t)].shape
                    ELSE asked[p]]
    BY <1>2 DEF KillNext
  <2>2. ASSUME \A t \in Threads : ~BeginsCall(t)
        PROVE  asked' = asked
    <3>1. asked' = [p \in DOMAIN asked |-> asked[p]]
      BY <2>1, <2>2
    <3> QED
      BY <3>1 DEF AskedInv
  <2>3. ASSUME NEW t \in Threads, Advance(t)
        PROVE  asked' = asked /\ KeepsAsking /\ attempts' = attempts
    <3>1. /\ KeepsAsking /\ attempts' = attempts
          /\ pc[t] # "idle"
          /\ \A u \in Threads : u # t => job'[u] = job[u]
      <4>1. KeepsAsking /\ attempts' = attempts
        BY <2>3, AdvanceKeepsAsking
      <4>2. pc[t] # "idle"
        BY <2>3 DEF Advance, CurrentWriter, RefillWriter, StampHeader,
                    Reserve, Retry, CountDrop, FillPayload, Commit, Announce
      <4>3. job' = [job EXCEPT ![t] = job'[t]]
        <5>1. job \in [Threads -> Job]
          BY DEF IInv, TypeOK
        <5> QED
          BY <2>3, <5>1
             DEF Advance, CurrentWriter, RefillWriter, StampHeader, Reserve,
                 Retry, CountDrop, FillPayload, Commit, Announce
      <4> QED
        BY <4>1, <4>2, <4>3 DEF IInv, TypeOK
    <3>2. \A u \in Threads : ~BeginsCall(u)
      BY <1>0, <3>1 DEF BeginsCall
    <3> QED
      BY <2>2, <3>1, <3>2
  <2>4. CASE Quiet
    <3>1. \A u \in Threads : ~BeginsCall(u)
      BY <1>0, <2>4 DEF BeginsCall, Quiet, vars
    <3> QED
      BY <2>2, <2>4, <3>1 DEF Quiet, vars, KeepsAsking
  <2>5. ASSUME NEW t \in Threads, Call(t)
        PROVE  \E l \in Loggers, m \in Shape :
                 /\ Asks(t, l, m)
                 /\ asked' = [asked EXCEPT ![<<l, attempts[l] + 1>>] = m]
    <3>1. PICK l \in Loggers, m \in Shape : Asks(t, l, m)
      BY <2>5, CallAsks
    <3>2. BeginsCall(t)
      BY <3>1 DEF BeginsCall, Asks
    <3>3. \A u \in Threads : BeginsCall(u) => u = t
      BY <1>0, <3>1 DEF BeginsCall, Asks
    <3>4. (CHOOSE u \in Threads : BeginsCall(u)) = t
      BY <3>2, <3>3
    <3>5. /\ job'[t].log = l /\ job'[t].call = attempts[l] + 1
          /\ job'[t].shape = m
      BY <3>1 DEF Asks
    <3>6. ASSUME NEW p \in DOMAIN asked
          PROVE  asked'[p] = IF p = <<l, attempts[l] + 1>> THEN m
                                                           ELSE asked[p]
      <4>1. (\E u \in Threads :
               BeginsCall(u) /\ p = <<job'[u].log, job'[u].call>>)
              <=> p = <<l, attempts[l] + 1>>
        BY <3>2, <3>3, <3>5
      <4> QED
        BY <2>1, <3>4, <3>5, <4>1
    <3>7. asked' = [asked EXCEPT ![<<l, attempts[l] + 1>>] = m]
      <4>1. /\ asked' = [p \in DOMAIN asked |-> asked'[p]]
            /\ asked = [p \in DOMAIN asked |-> asked[p]]
        BY <2>1 DEF AskedInv
      <4> QED
        BY <3>6, <4>1
    <3> QED
      BY <3>1, <3>7
  <2> QED
    BY <1>2, <2>3, <2>4, <2>5 DEF KillNext, Next
<1> QED
  BY <1>1, <1>2

LEMMA AskedStep ==
  ASSUME IInv, CallsInv, AskedInv, [KillNext]_killVars
  PROVE  AskedInv'
<1>1. ASSUME asked' = asked, KeepsAsking
      PROVE  AskedInv'
  BY <1>1 DEF AskedInv, KeepsAsking
<1>2. ASSUME NEW t \in Threads, NEW l \in Loggers, NEW m \in Shape,
             Asks(t, l, m),
             asked' = [asked EXCEPT ![<<l, attempts[l] + 1>>] = m]
      PROVE  AskedInv'
  <2>0. attempts[l] \in Nat /\ MaxEmits \in Nat /\ attempts[l] < MaxEmits
    BY <1>2, SizesAssumption DEF Asks, IInv, TypeOK
  <2>1. /\ asked \in [Loggers \X (1..MaxEmits) -> Shape]
        /\ <<l, attempts[l] + 1>> \in Loggers \X (1..MaxEmits)
    BY <2>0 DEF AskedInv
  <2>2. asked' \in [Loggers \X (1..MaxEmits) -> Shape]
    BY <1>2, <2>1
  <2>3. ASSUME NEW u \in Threads, pc'[u] # "idle"
        PROVE  asked'[<<job'[u].log, job'[u].call>>] = job'[u].shape
    <3>1. CASE u = t
      BY <1>2, <2>1, <3>1 DEF Asks
    <3>2. CASE u # t
      <4>1. pc'[u] = pc[u] /\ job'[u] = job[u] /\ pc[u] # "idle"
        BY <1>2, <2>3, <3>2 DEF Asks
      <4>2. job[u].log \in Loggers /\ job[u].call \in 1..attempts[job[u].log]
        BY <4>1, BusyOrIdle DEF CallsInv
      <4>3. <<job[u].log, job[u].call>> # <<l, attempts[l] + 1>>
        BY <2>0, <4>2
      <4>4. attempts[job[u].log] <= MaxEmits /\ attempts[job[u].log] \in Nat
        BY <4>2 DEF CallsInv, IInv, TypeOK
      <4>5. <<job[u].log, job[u].call>> \in Loggers \X (1..MaxEmits)
        BY <2>0, <4>2, <4>4
      <4>6. asked'[<<job[u].log, job[u].call>>]
              = asked[<<job[u].log, job[u].call>>]
        BY <1>2, <2>1, <4>3, <4>5
      <4> QED
        BY <4>1, <4>6 DEF AskedInv
    <3> QED
      BY <3>1, <3>2
  <2> QED
    BY <2>2, <2>3 DEF AskedInv
<1> QED
  BY <1>1, <1>2, KillStepKinds

-----------------------------------------------------------------------------
(* What the reservations and the Messages hold.                            *)

LEMMA ReservedStep ==
  ASSUME IInv, ReservedInv, [Next]_vars
  PROVE  ReservedInv'
<1> DEFINE Enough(h, m) ==
             h.trunc \/ (~m.lossy /\ h.count = 1 + m.conts)
<1> SUFFICES ASSUME NEW t \in Threads, HoldsSlots(t)', job'[t].kind = "msg"
             PROVE  Enough(held'[t], job'[t].shape)
  BY DEF ReservedInv
<1>0. HoldsSlots(t) /\ job[t].kind = "msg" => Enough(held[t], job[t].shape)
  BY DEF ReservedInv
<1> HIDE DEF Enough
<1>1. CASE UNCHANGED vars
  BY <1>0, <1>1 DEF vars, HoldsSlots
<1>2. ASSUME NEW u \in Threads, Call(u)
      PROVE  Enough(held'[t], job'[t].shape)
  <2>1. PICK l, kind, s, m : Start(u, l, kind, s, m)
    BY <1>2 DEF Call, EmitRecord, DeclareSubsystem
  <2>2. u # t /\ held' = held
    BY <2>1 DEF Start, Goto, HoldsSlots, IInv, TypeOK
  <2>3. pc'[t] = pc[t] /\ job'[t] = job[t]
    BY <2>1, <2>2 DEF Start, Goto, IInv, TypeOK
  <2> QED
    BY <1>0, <2>2, <2>3 DEF HoldsSlots
<1>3. ASSUME NEW u \in Threads, Advance(u)
      PROVE  Enough(held'[t], job'[t].shape)
  <2>1. CASE CurrentWriter(u) \/ RefillWriter(u)
    BY <1>0, <2>1 DEF CurrentWriter, RefillWriter, ClaimChunk, Goto,
                      HoldsSlots, IInv, TypeOK
  <2>2. CASE StampHeader(u) \/ CountDrop(u)
    BY <1>0, <2>2 DEF StampHeader, CountDrop, Goto, HoldsSlots, IInv, TypeOK
  <2>3. CASE Announce(u)
    <3>1. /\ pc' = [pc EXCEPT ![u] = "current"] /\ held' = held
          /\ \A v \in Threads : v # u => job'[v] = job[v]
      BY <2>3 DEF Announce, Goto
    <3>2. u # t /\ pc'[t] = pc[t]
      BY <3>1 DEF HoldsSlots, IInv, TypeOK
    <3> QED
      BY <1>0, <3>1, <3>2 DEF HoldsSlots
  <2>4. CASE Reserve(u) \/ Retry(u)
    <3>1. job' = job
      BY <2>4 DEF Reserve, Retry
    <3>2. CASE u # t
      <4>1. pc'[t] = pc[t] /\ held'[t] = held[t]
        BY <2>4, <3>2 DEF Reserve, Retry, TakeChain, TakeShortDefinition,
                  TakeFlatMessage, TakeSlots, Goto, IInv, TypeOK
      <4> QED
        BY <1>0, <3>1, <4>1 DEF HoldsSlots
    <3>3. CASE u = t
      <4>1. Conts(job[t]) = job[t].shape.conts /\ Lossy(job[t]) = job[t].shape.lossy
        BY <3>1 DEF Conts, Lossy, IInv, TypeOK, Job, Shape
      <4>2. CASE TakeChain(t)
        <5>1. held'[t] = [first |-> cache[t].next, count |-> 1 + Conts(job[t]),
                          units |-> HeadUnits(job[t]), trunc |-> Lossy(job[t])]
          BY <4>2 DEF TakeChain, TakeSlots, IInv, TypeOK
        <5> QED
          BY <3>1, <4>1, <5>1 DEF Enough, IInv, TypeOK, Job, Shape
      <4>3. CASE TakeFlatMessage(t)
        <5>1. held'[t] = [first |-> cache[t].next, count |-> 1,
                          units |-> job[t].shape.msg, trunc |-> TRUE]
          BY <4>3 DEF TakeFlatMessage, TakeSlots, IInv, TypeOK
        <5>2. held'[t].trunc
          BY <5>1
        <5> QED
          BY <5>2 DEF Enough
      <4>4. CASE Goto(t, "refill") \/ Goto(t, "drop")
        BY <4>4 DEF Goto, HoldsSlots, IInv, TypeOK
      <4> QED
        BY <2>4, <3>1, <3>3, <4>2, <4>3, <4>4
           DEF Reserve, Retry, TakeShortDefinition
    <3> QED
      BY <3>2, <3>3
  <2>5. CASE FillPayload(u)
    BY <1>0, <2>5 DEF FillPayload, Goto, HoldsSlots, IInv, TypeOK
  <2>6. CASE Commit(u)
    <3>1. CASE u = t
      <4>1. ~LastCommit(t)
        BY <2>6, <3>1 DEF Commit, Goto, HoldsSlots, IInv, TypeOK
      <4> QED
        BY <1>0, <2>6, <3>1, <4>1 DEF Commit, HoldsSlots
    <3>2. CASE u # t
      <4>1. pc'[t] = pc[t] /\ held'[t] = held[t] /\ job'[t] = job[t]
        BY <2>6, <3>2 DEF Commit, Goto, IInv, TypeOK
      <4> QED
        BY <1>0, <4>1 DEF HoldsSlots
    <3> QED
      BY <3>1, <3>2
  <2> QED
    BY <1>3, <2>1, <2>2, <2>3, <2>4, <2>5, <2>6 DEF Advance
<1> QED
  BY <1>1, <1>2, <1>3 DEF Next, Quiet

(* A Message counts among the calls noted so far, so no later call changes *)
(* what it was asked for.                                                  *)
LEMMA AskedStays ==
  ASSUME IInv, AskedInv, [KillNext]_killVars, NEW l \in Loggers, NEW n \in Nat,
         n <= attempts[l]
  PROVE  asked'[<<l, n>>] = asked[<<l, n>>]
<1>1. CASE asked' = asked
  BY <1>1
<1>2. ASSUME NEW t \in Threads, NEW k \in Loggers, NEW m \in Shape,
             asked' = [asked EXCEPT ![<<k, attempts[k] + 1>>] = m]
      PROVE  asked'[<<l, n>>] = asked[<<l, n>>]
  <2>1. attempts[l] \in Nat /\ attempts[k] \in Nat
    BY DEF IInv, TypeOK
  <2>2. <<l, n>> # <<k, attempts[k] + 1>>
    BY <2>1
  <2> QED
    BY <1>2, <2>2 DEF AskedInv
<1> QED
  BY <1>1, <1>2, KillStepKinds

LEMMA FlaggedStep ==
  ASSUME KillInv, [KillNext]_killVars
  PROVE  FlaggedInv'
<1> SUFFICES ASSUME NEW l \in Loggers, NEW c \in Chunks, NEW i \in Slots,
                    head'[<<l, c, i>>].kind = "msg",
                    ~head'[<<l, c, i>>].trunc,
                    NEW m, m = asked'[<<l, payload'[<<l, c, i>>].call>>]
             PROVE  ~m.lossy /\ Promises(l, c, i, m.conts)'
  BY DEF FlaggedInv, IsMessage
<1>0. /\ WriterInv /\ LedgerInv /\ IInv /\ CallsInv /\ WordsInv
      /\ AskedInv /\ ReservedInv /\ FlaggedInv
      /\ ChunkUnits \in Nat
  BY SizesAssumption DEF KillInv, WriterInv, LedgerInv
<1>1. [Next]_vars
  BY DEF KillNext, killVars
<1>2. PICK n : n = payload'[<<l, c, i>>].call
  OBVIOUS
<1>3. CASE head'[<<l, c, i>>] = head[<<l, c, i>>]
  <2>1. Committed(l, c, i) /\ IsMessage(l, c, i)
    BY <1>3 DEF Committed, IsMessage
  <2>2. payload'[<<l, c, i>>] = payload[<<l, c, i>>]
    BY <1>0, <1>1, <2>1, FinalStep
  <2>3. n \in Nat /\ n <= attempts[l] /\ payload[<<l, c, i>>].call = n
    <3>1. payload[<<l, c, i>>] \in Payload
      BY <1>0 DEF IInv, TypeOK, Places
    <3> QED
      BY <1>0, <1>2, <2>1, <2>2, <3>1 DEF WordsInv, Payload
  <2>4. asked[<<l, n>>] = m
    BY <1>0, <1>2, <2>3, AskedStays
  <2>5. ~m.lossy /\ Promises(l, c, i, m.conts)
    BY <1>0, <1>3, <2>1, <2>3, <2>4 DEF FlaggedInv
  <2>6. CASE m.conts = 0 /\ ~head[<<l, c, i>>].more
    BY <1>3, <2>5, <2>6 DEF Promises
  <2>7. CASE m.conts \in 1..ChunkUnits /\ Chain(l, c, i, m.conts)
    <3>1. PICK k \in 1..ChunkUnits : k = m.conts
      BY <2>7
    <3>2. Chain(l, c, i, k)'
      BY <1>0, <1>1, <2>1, <2>7, <3>1, ChainStays
    <3>3. head[<<l, c, i>>].more
      BY <1>0, <2>5, <2>7 DEF Promises
    <3> QED
      BY <1>3, <2>5, <3>1, <3>2, <3>3 DEF Promises
  <2> QED
    BY <2>5, <2>6, <2>7 DEF Promises
<1>4. ASSUME NEW t \in Threads, Commit(t), Stores(t, l, c, i)
      PROVE  ~m.lossy /\ Promises(l, c, i, m.conts)'
  <2>1. /\ HoldsSlots(t) /\ pc[t] # "idle"
        /\ l = job[t].log /\ l = cache[t].owner /\ c = cache[t].chunk
        /\ held[t].first \in Nat \ {0} /\ held[t].count \in Nat \ {0}
        /\ head'[<<l, c, i>>] = CommitHead(t, i)
        /\ payload' = payload /\ payload[<<l, c, i>>] = OwnPayload(t)
        /\ CommitHead(t, i).kind
              = IF i = held[t].first THEN job[t].kind ELSE "cont"
        /\ i = held[t].first <=> LastCommit(t)
    BY <1>0, <1>4, StoreFacts
  <2>2. i = held[t].first /\ job[t].kind = "msg" /\ LastCommit(t)
    BY <2>1
  <2>3. CommitHead(t, i).trunc = held[t].trunc
    BY <2>2 DEF CommitHead
  <2>4. m = job[t].shape
    <3>1. n = job[t].call
      BY <1>2, <2>1 DEF OwnPayload
    <3>2. n \in Nat /\ n <= attempts[l]
      <4>1. PICK a : a = attempts[l]
        OBVIOUS
      <4>2. a \in Nat
        BY <1>0, <4>1 DEF IInv, TypeOK
      <4>3. job[t].call \in 1..attempts[job[t].log]
        BY <1>0, <2>1 DEF CallsInv
      <4>4. n \in 1..a
        BY <2>1, <3>1, <4>1, <4>3
      <4> QED
        BY <4>1, <4>2, <4>4
    <3>3. asked'[<<l, n>>] = asked[<<l, n>>]
      BY <1>0, <3>2, AskedStays
    <3> QED
      BY <1>0, <1>2, <2>1, <3>1, <3>3 DEF AskedInv
  <2>5. ~m.lossy /\ held[t].count = 1 + m.conts
    BY <1>0, <2>1, <2>2, <2>3, <2>4 DEF ReservedInv
  <2>6. m.conts \in Nat
    BY <1>0, <2>4 DEF IInv, TypeOK, Job, Shape
  <2>7. CASE m.conts = 0
    <3>1. ~(i + 1 < held[t].first + held[t].count)
      BY <2>1, <2>2, <2>5, <2>7
    <3>2. ~head'[<<l, c, i>>].more
      BY <2>1, <3>1, MoreWord
    <3> QED
      BY <2>5, <2>7, <3>2 DEF Promises
  <2>8. CASE m.conts # 0
    <3>1. PICK k : k = held[t].count - 1
      OBVIOUS
    <3>2. held[t].count > 1 /\ k = m.conts
      BY <2>1, <2>5, <2>6, <2>8, <3>1
    <3>3. /\ k \in 1..ChunkUnits
          /\ Chain(l, c, i, k)'
          /\ head'[<<l, c, i>>].more
      BY <1>0, <1>4, <2>1, <2>2, <3>1, <3>2, LastChain
    <3> QED
      BY <2>5, <3>2, <3>3 DEF Promises
  <2> QED
    BY <2>7, <2>8
<1> QED
  BY <1>0, <1>1, <1>3, <1>4, NewWord

LEMMA KillStep == KillInv /\ [KillNext]_killVars => KillInv'
<1> SUFFICES ASSUME KillInv, [KillNext]_killVars
             PROVE  KillInv'
  OBVIOUS
<1>1. [Next]_vars
  BY DEF KillNext, killVars
<1>2. /\ WriterInv /\ IInv /\ CallsInv /\ AskedInv /\ ReservedInv
  BY DEF KillInv, WriterInv, LedgerInv
<1>3. WriterInv'
  BY <1>1, <1>2, WriterStep
<1>4. AskedInv'
  BY <1>2, AskedStep
<1>5. ReservedInv'
  BY <1>1, <1>2, ReservedStep
<1>6. FlaggedInv'
  BY FlaggedStep
<1> QED
  BY <1>3, <1>4, <1>5, <1>6 DEF KillInv

LEMMA InitKill == KillInit => KillInv
<1> SUFFICES ASSUME KillInit
             PROVE  KillInv
  OBVIOUS
<1>1. WriterInv
  BY InitWriter DEF KillInit
<1>2. AskedInv
  <2>1. Unasked \in Shape
    BY DEF Unasked, Shape
  <2> QED
    BY <2>1 DEF KillInit, Init, AskedInv
<1>3. ReservedInv
  BY DEF KillInit, Init, ReservedInv, HoldsSlots
<1>4. FlaggedInv
  BY DEF KillInit, Init, FlaggedInv, IsMessage, Places, ZeroWord
<1> QED
  BY <1>1, <1>2, <1>3, <1>4 DEF KillInv

(* The invariant of the producer with the arguments of its calls           *)
(* (detail/emit.hpp, emitChained).                                         *)
THEOREM KillInvariance == KillSpec => []KillInv
BY InitKill, KillStep, PTL DEF KillSpec

-----------------------------------------------------------------------------
(* A readable Message and its Continuations.                               *)

LEMMA PromiseIsCount ==
  ASSUME NEW l, NEW c, NEW i, NEW n, Promises(l, c, i, n)
  PROVE  n \in 0..ChunkUnits
BY SizesAssumption DEF Promises

(* What follows a readable Message is readable.                            *)
LEMMA ChainVisible ==
  ASSUME NEW l \in Loggers, NEW c \in Chunks, NEW i \in Slots,
         Visible(l, c, i), NEW n, Promises(l, c, i, n), NEW k \in 0..n
  PROVE  /\ i + k \in Slots /\ Visible(l, c, i + k)
         /\ head[<<l, c, i + k>>].more <=> k < n
         /\ k > 0 => head[<<l, c, i + k>>].kind = "cont"
         /\ payload[<<l, c, i + k>>].call = payload[<<l, c, i>>].call
<1>0. /\ n \in Nat /\ k \in Nat /\ i \in Nat \ {0} /\ ChunkUnits \in Nat
      /\ k <= n
  BY SizesAssumption, PromiseIsCount DEF Slots
<1>1. CASE k = 0
  <2>1. i + k = i
    BY <1>0, <1>1
  <2>2. head[<<l, c, i>>].more <=> 0 < n
    BY <1>0 DEF Promises
  <2> QED
    BY <1>1, <2>1, <2>2
<1>2. CASE k > 0
  <2>1. n \in 1..ChunkUnits /\ Chain(l, c, i, n)
    BY <1>0, <1>2 DEF Promises
  <2>2. ASSUME NEW j \in 1..n
        PROVE  /\ head[<<l, c, i + j>>].kind = "cont"
               /\ head[<<l, c, i + j>>].more = (j < n)
               /\ payload[<<l, c, i + j>>].call = payload[<<l, c, i>>].call
               /\ Committed(l, c, i + j)
    BY <2>1 DEF Chain, Committed
  <2>3. i + n \in Slots /\ i + k \in Slots /\ k \in 1..n
    BY <1>0, <1>2, <2>1 DEF Chain, Slots
  <2>4. ASSUME NEW j \in 1..(i + k)
        PROVE  Committed(l, c, j)
    <3>1. CASE j <= i
      <4>1. j \in 1..i
        BY <1>0, <3>1
      <4> QED
        BY <4>1 DEF Visible
    <3>2. CASE j > i
      <4>1. j - i \in 1..n /\ i + (j - i) = j
        BY <1>0, <3>2
      <4> QED
        BY <2>2, <4>1
    <3> QED
      BY <1>0, <3>1, <3>2
  <2>5. Visible(l, c, i + k)
    BY <2>4 DEF Visible
  <2> QED
    BY <1>2, <2>2, <2>3, <2>5
<1> QED
  BY <1>0, <1>1, <1>2

(* The places of a Message and the n Continuations after it.               *)
RunFrom(c, i, n) == [k \in 1..(n + 1) |-> <<c, i + k - 1>>]

LEMMA RunFromIs ==
  ASSUME NEW l \in Loggers, NEW c \in Chunks, NEW i \in Slots,
         Visible(l, c, i), IsMessage(l, c, i),
         NEW n, Promises(l, c, i, n), NEW r, r = RunFrom(c, i, n)
  PROVE  /\ r \in Seq(Place) /\ Len(r) = n + 1 /\ r[1] = <<c, i>>
         /\ RunOf(l, r, c, i)
         /\ ~head[<<l, c, LastSlot(i, r)>>].more
<1>0. n \in Nat /\ i \in Nat \ {0} /\ c \in Nat /\ n + 1 \in Nat
  BY SizesAssumption, PromiseIsCount DEF Slots, Chunks
<1>1. \A k \in 1..(n + 1) : r[k] = <<c, i + k - 1>> /\ i + k - 1 \in Nat
  BY <1>0 DEF RunFrom
<1>2. r \in [1..(n + 1) -> Place]
  BY <1>0 DEF RunFrom, Place
<1>3. r \in Seq(Place) /\ Len(r) = n + 1
  <2>1. r \in Seq(Place)
    BY <1>0, <1>2, SeqDef
  <2>2. Len(r) \in Nat /\ 1..Len(r) = 1..(n + 1)
    BY <1>2, <2>1, LenProperties
  <2> QED
    BY <1>0, <2>1, <2>2
<1>4. ASSUME NEW k \in 1..(n + 1)
      PROVE  /\ i + k - 1 \in Slots
             /\ Visible(l, c, i + k - 1)
             /\ head[<<l, c, i + k - 1>>].more <=> k < n + 1
  <2>1. PICK j : j = k - 1
    OBVIOUS
  <2>2. j \in 0..n /\ i + j = i + k - 1 /\ (j < n <=> k < n + 1)
    BY <1>0, <2>1
  <2>3. /\ i + j \in Slots /\ Visible(l, c, i + j)
        /\ head[<<l, c, i + j>>].more <=> j < n
    BY <2>2, ChainVisible
  <2> QED
    BY <2>2, <2>3
<1>5. r # <<>>
  BY <1>0, <1>3, EmptySeq
<1>6. RunOf(l, r, c, i)
  BY <1>1, <1>3, <1>4, <1>5 DEF RunOf
<1>7. ~head[<<l, c, LastSlot(i, r)>>].more
  <2>1. n + 1 \in 1..(n + 1) /\ LastSlot(i, r) = i + (n + 1) - 1
    BY <1>0, <1>3 DEF LastSlot
  <2>2. ~(n + 1 < n + 1)
    BY <1>0
  <2> QED
    BY <1>4, <2>1, <2>2
<1>8. r[1] = <<c, i>>
  <2>1. 1 \in 1..(n + 1) /\ i + 1 - 1 = i
    BY <1>0
  <2> QED
    BY <1>1, <2>1
<1> QED
  BY <1>3, <1>6, <1>7, <1>8

(* The members of such a run are all different.                            *)
LEMMA RunFromDiffers ==
  ASSUME NEW c, NEW i \in Nat, NEW n \in Nat, NEW r, r = RunFrom(c, i, n),
         NEW k \in 1..(n + 1), NEW m \in 1..(n + 1), r[k] = r[m]
  PROVE  k = m
<1>1. r[k] = <<c, i + k - 1>> /\ r[m] = <<c, i + m - 1>>
  BY DEF RunFrom
<1>2. PICK x, y : x = i + k - 1 /\ y = i + m - 1
  OBVIOUS
<1>3. <<c, x>> = <<c, y>>
  BY <1>1, <1>2
<1>4. x = y
  BY <1>3
<1> QED
  BY <1>2, <1>4

(* A Message that is followed by n Continuations has n + 1 records.        *)
LEMMA PlacesCount ==
  ASSUME WriterInv, NEW l \in Loggers, NEW c \in Chunks, NEW i \in Slots,
         Visible(l, c, i), IsMessage(l, c, i),
         NEW n, Promises(l, c, i, n),
         NEW a, a = payload[<<l, c, i>>].call
  PROVE  Cardinality(MessagePlaces(l, a)) = 1 + n
<1>0. n \in Nat /\ i \in Nat
  BY SizesAssumption, PromiseIsCount DEF Slots
<1>1. PICK r : r = RunFrom(c, i, n)
  OBVIOUS
<1>2. /\ r \in Seq(Place) /\ Len(r) = n + 1 /\ r[1] = <<c, i>>
      /\ RunOf(l, r, c, i)
      /\ ~head[<<l, c, LastSlot(i, r)>>].more
  BY <1>1, RunFromIs
<1>3. DecodedWhole(l, r)
  BY <1>2, RunIsWhole
<1>4. CallOf(l, r) = a
  BY <1>2 DEF CallOf
<1>5. DOMAIN r = 1..(n + 1)
  BY <1>2, LenProperties
<1>6. MessagePlaces(l, a) = {r[k] : k \in DOMAIN r}
  BY <1>3, <1>4 DEF DecodedWhole, ToSet
<1>7. \A k, m \in DOMAIN r : r[k] = r[m] => k = m
  BY <1>0, <1>1, <1>5, RunFromDiffers
<1>8. Cardinality({r[k] : k \in DOMAIN r}) = n + 1
  BY <1>2, <1>7, AllDifferent
<1> QED
  BY <1>0, <1>6, <1>8

(* Whenever the process is killed, a Message that does not hold all its    *)
(* call was given is flagged (cFlagTruncated, R9.2).                       *)
THEOREM CutsAreFlagged == KillSpec => []CutIsFlagged
<1>1. KillInv => CutIsFlagged
  <2> SUFFICES ASSUME KillInv,
                      NEW l \in Loggers, NEW c \in Chunks, NEW i \in Slots,
                      Visible(l, c, i), head[<<l, c, i>>].kind = "msg",
                      ~head[<<l, c, i>>].trunc,
                      NEW a, a = payload[<<l, c, i>>].call,
                      NEW m, m = asked[<<l, a>>]
               PROVE  /\ ~m.lossy
                      /\ Cardinality(MessagePlaces(l, a)) = 1 + m.conts
    BY DEF CutIsFlagged
  <2>1. IsMessage(l, c, i) /\ WriterInv
    BY DEF IsMessage, KillInv
  <2>2. ~m.lossy /\ Promises(l, c, i, m.conts)
    BY <2>1 DEF KillInv, FlaggedInv
  <2>3. PICK n : n = m.conts
    OBVIOUS
  <2>4. Cardinality(MessagePlaces(l, a)) = 1 + n
    BY <2>1, <2>2, <2>3, PlacesCount
  <2> QED
    BY <2>2, <2>3, <2>4
<1> QED
  BY <1>1, KillInvariance, PTL

-----------------------------------------------------------------------------
(* decodeAll of an image that does not change.                             *)

(* The decoders between the records, and the turns that lead to them.      *)
Turn(s, g, n) == IF n = 0 THEN EmptyDecoder ELSE TakeRecord(s, g[n - 1], n)

After(s) == CHOOSE g : g = [n \in 0..(2 * Len(s)) |-> Turn(s, g, n)]

LEMMA DecodeAllIs ==
  ASSUME NEW s
  PROVE  DecodeAll(s) = EndOfStream(After(s)[2 * Len(s)])
BY DEF DecodeAll, After, Turn

(* The recursion over the records has a solution.                          *)
LEMMA AfterExists ==
  ASSUME NEW s, NEW u \in Nat
  PROVE  \E g : g = [n \in 0..u |-> Turn(s, g, n)]
<1> DEFINE G == {v \in Nat : \E g : g = [n \in 0..v |-> Turn(s, g, n)]}
<1>1. 0 \in G
  <2>1. PICK g : g = [n \in 0..0 |-> EmptyDecoder]
    OBVIOUS
  <2>2. \A n \in 0..0 : Turn(s, g, n) = EmptyDecoder
    BY DEF Turn
  <2>3. g = [n \in 0..0 |-> Turn(s, g, n)]
    BY <2>1, <2>2
  <2> QED
    BY <2>3
<1>2. ASSUME NEW v \in Nat, v \in G
      PROVE  v + 1 \in G
  <2>1. PICK g : g = [n \in 0..v |-> Turn(s, g, n)]
    BY <1>2
  <2>2. PICK h : h = [n \in 0..(v + 1) |->
                        IF n = v + 1 THEN TakeRecord(s, g[v], v + 1)
                                     ELSE g[n]]
    OBVIOUS
  <2>3. ASSUME NEW n \in 0..(v + 1)
        PROVE  h[n] = Turn(s, h, n)
    <3>1. CASE n = v + 1
      <4>1. n # 0 /\ n - 1 = v /\ v \in 0..(v + 1) /\ v # v + 1
        BY <3>1
      <4>2. h[n] = TakeRecord(s, g[v], v + 1) /\ h[v] = g[v]
        BY <2>2, <3>1, <4>1
      <4> QED
        BY <3>1, <4>1, <4>2 DEF Turn
    <3>2. CASE n # v + 1
      <4>1. n \in 0..v /\ h[n] = g[n] /\ g[n] = Turn(s, g, n)
        BY <2>1, <2>2, <3>2
      <4>2. n # 0 => n - 1 \in 0..v /\ n - 1 \in 0..(v + 1) /\ n - 1 # v + 1
        BY <4>1
      <4>3. n # 0 => h[n - 1] = g[n - 1]
        BY <2>2, <4>2
      <4> QED
        BY <4>1, <4>3 DEF Turn
    <3> QED
      BY <3>1, <3>2
  <2>4. h = [n \in 0..(v + 1) |-> h[n]]
    BY <2>2
  <2>5. h = [n \in 0..(v + 1) |-> Turn(s, h, n)]
    BY <2>3, <2>4
  <2>6. v + 1 \in Nat
    OBVIOUS
  <2> QED
    BY <2>5, <2>6
<1> HIDE DEF G
<1>3. Nat \subseteq G
  BY <1>1, <1>2, SetInduction
<1>4. u \in G
  BY <1>3
<1> QED
  BY <1>4 DEF G

LEMMA AfterTurns ==
  ASSUME NEW s, Len(s) \in Nat, NEW g, g = After(s)
  PROVE  /\ g[0] = EmptyDecoder
         /\ \A n \in 0..(2 * Len(s)) :
              n # 0 => g[n] = TakeRecord(s, g[n - 1], n)
<1>1. PICK u \in Nat : u = 2 * Len(s)
  OBVIOUS
<1>2. \E f : f = [n \in 0..u |-> Turn(s, f, n)]
  BY AfterExists
<1>3. g = [n \in 0..u |-> Turn(s, g, n)]
  BY <1>1, <1>2 DEF After
<1>4. \A n \in 0..u : g[n] = Turn(s, g, n)
  BY <1>3
<1> QED
  BY <1>1, <1>4 DEF Turn

(* What DecodesExactly and NothingSilent say of a stream holds of any image*)
(* that is one.                                                            *)
LEMMA DecodeAllReached ==
  ASSUME NEW s, IsStream(s)
  PROVE  Reached(s, Len(s), 0, DecodeAll(s))
<1>0. Len(s) \in Nat /\ DOMAIN s = 1..Len(s)
  BY DEF IsStream
<1>1. PICK g : g = After(s)
  OBVIOUS
<1>2. /\ g[0] = EmptyDecoder
      /\ \A n \in 0..(2 * Len(s)) :
           n # 0 => g[n] = TakeRecord(s, g[n - 1], n)
  BY <1>0, <1>1, AfterTurns
<1>3. PICK u \in Nat : u = Len(s)
  BY <1>0
<1>4. u \in 0..u /\ FirstDone(s, u, g[u])
  <2> DEFINE G == {n \in Nat : n <= u => FirstDone(s, n, g[n])}
  <2>1. 0 \in G
    BY <1>2, EmptyIsFirst
  <2>2. ASSUME NEW n \in Nat, n \in G
        PROVE  n + 1 \in G
    <3>1. SUFFICES ASSUME n + 1 <= u
                   PROVE  FirstDone(s, n + 1, g[n + 1])
      BY <2>2
    <3>2. n + 1 \in 0..(2 * Len(s)) /\ n + 1 # 0 /\ (n + 1) - 1 = n
      BY <1>3, <3>1
    <3>3. g[n + 1] = TakeRecord(s, g[n], n + 1)
      BY <1>2, <3>2
    <3>4. g[n + 1] = FirstPass(g[n], s[n + 1])
      BY <1>3, <3>1, <3>3 DEF TakeRecord
    <3>5. FirstDone(s, n, g[n]) /\ n + 1 \in DOMAIN s
      BY <1>0, <1>3, <2>2, <3>1
    <3>6. PICK d : d = g[n]
      OBVIOUS
    <3>7. FirstDone(s, n + 1, FirstPass(d, s[n + 1]))
      BY <3>5, <3>6, FirstStep
    <3> QED
      BY <3>4, <3>6, <3>7
  <2> HIDE DEF G
  <2>3. Nat \subseteq G
    BY <2>1, <2>2, SetInduction
  <2> QED
    BY <2>3 DEF G
<1>5. PICK e : e = g[u]
  OBVIOUS
<1>6. SecondDone(s, 0, e)
  BY <1>3, <1>4, <1>5, TurnStep
<1>7. SecondDone(s, u, g[u + u])
  <2> DEFINE G == {n \in Nat : n <= u => SecondDone(s, n, g[u + n])}
  <2>1. 0 \in G
    <3>1. u + 0 = u
      OBVIOUS
    <3> QED
      BY <1>5, <1>6, <3>1
  <2>2. ASSUME NEW n \in Nat, n \in G
        PROVE  n + 1 \in G
    <3>1. SUFFICES ASSUME n + 1 <= u
                   PROVE  SecondDone(s, n + 1, g[u + (n + 1)])
      BY <2>2
    <3>2. PICK m : m = u + (n + 1)
      OBVIOUS
    <3>3. m \in 0..(2 * Len(s)) /\ m # 0 /\ m - 1 = u + n
          /\ ~(m <= u) /\ m - u = n + 1
      BY <1>3, <3>1, <3>2
    <3>4. g[m] = TakeRecord(s, g[u + n], m)
      BY <1>2, <3>3
    <3>5. g[m] = SecondPass(g[u + n], s[n + 1])
      BY <1>3, <3>3, <3>4 DEF TakeRecord
    <3>6. SecondDone(s, n, g[u + n]) /\ n + 1 \in DOMAIN s
      BY <1>0, <1>3, <2>2, <3>1
    <3>7. PICK d : d = g[u + n]
      OBVIOUS
    <3>8. SecondDone(s, n + 1, SecondPass(d, s[n + 1]))
      BY <3>6, <3>7, SecondStep
    <3> QED
      BY <3>2, <3>5, <3>7, <3>8
  <2> HIDE DEF G
  <2>3. Nat \subseteq G
    BY <2>1, <2>2, SetInduction
  <2> QED
    BY <2>3 DEF G
<1>8. PICK d : d = g[u + u]
  OBVIOUS
<1>9. Reached(s, Len(s), 0, EndOfStream(d))
  BY <1>3, <1>7, <1>8, LastStep
<1>10. DecodeAll(s) = EndOfStream(d)
  <2>1. 2 * Len(s) = u + u
    BY <1>3
  <2> QED
    BY <1>1, <1>8, <2>1, DecodeAllIs
<1> QED
  BY <1>9, <1>10

-----------------------------------------------------------------------------
(* The image of a segment.                                                 *)

(* What is readable of a chunk is its beginning.                           *)
LEMMA ChunkViewsIs ==
  ASSUME NEW l, NEW c
  PROVE  \E m \in 0..ChunkUnits :
           /\ ChunkViews(l, c) = [i \in 1..m |-> RecordView(l, c, i)]
           /\ \A i \in Slots : Visible(l, c, i) <=> i <= m
<1>0. ChunkUnits \in Nat
  BY SizesAssumption
<1> DEFINE V == {i \in Slots : Visible(l, c, i)}
           T == {n \in Nat : n + 1 \notin V}
<1>1. ChunkUnits \in T
  BY <1>0 DEF Slots
<1>2. T \subseteq Nat /\ T # {}
  BY <1>1
<1> HIDE DEF T
<1>3. PICK m \in T : \A y \in T : m <= y
  BY <1>2, Least
<1>4. m \in 0..ChunkUnits
  BY <1>0, <1>1, <1>2, <1>3
<1>5. ASSUME NEW i \in Slots
      PROVE  Visible(l, c, i) <=> i <= m
  <2>1. i \in Nat \ {0}
    BY DEF Slots
  <2>2. CASE i <= m
    <3>1. i - 1 \in Nat /\ ~(m <= i - 1) /\ (i - 1) + 1 = i
      BY <1>4, <2>1, <2>2
    <3>2. i - 1 \notin T
      BY <1>3, <3>1
    <3> QED
      BY <2>2, <3>1, <3>2 DEF T
  <2>3. CASE i > m
    <3> SUFFICES ASSUME Visible(l, c, i)
                 PROVE  FALSE
      BY <1>4, <2>1, <2>3
    <3>1. m + 1 \in 1..i /\ m + 1 \in Slots
      BY <1>0, <1>4, <2>1, <2>3 DEF Slots
    <3>2. \A j \in 1..(m + 1) : j \in 1..i
      BY <1>4, <2>1, <3>1
    <3>3. Visible(l, c, m + 1)
      BY <3>2 DEF Visible
    <3> QED
      BY <1>3, <3>1, <3>3 DEF T
  <2> QED
    BY <1>4, <2>1, <2>2, <2>3
<1>6. V = 1..m
  BY <1>0, <1>4, <1>5 DEF Slots
<1>7. Cardinality(V) = m
  <2>1. m \in Int /\ 1 \in Int /\ m \in Nat
    BY <1>0, <1>4
  <2>2. Cardinality(1..m) = IF 1 > m THEN 0 ELSE m - 1 + 1
    BY <2>1, FS_Interval
  <2>3. Cardinality(1..m) = m
    BY <2>1, <2>2
  <2> QED
    BY <1>6, <2>3
<1>8. ChunkViews(l, c) = [i \in 1..m |-> RecordView(l, c, i)]
  BY <1>7 DEF ChunkViews
<1> QED
  BY <1>4, <1>5, <1>8

Views(l) == {RecordView(l, p[1], p[2]) : p \in Chunks \X Slots}

LEMMA IsView ==
  ASSUME NEW l, NEW c \in Chunks, NEW i \in Slots
  PROVE  RecordView(l, c, i) \in Views(l)
<1>1. PICK p \in Chunks \X Slots : p = <<c, i>>
  OBVIOUS
<1>2. p[1] = c /\ p[2] = i
  BY <1>1
<1> QED
  BY <1>1, <1>2 DEF Views

(* The places of the views in the first n chunks: those of one chunk are   *)
(* side by side, and nothing comes twice.                                  *)
ImageTo(l, n, q) ==
  /\ q \in Seq(Views(l))
  /\ \A k \in 1..Len(q) : \E c \in 1..n, i \in Slots :
       Visible(l, c, i) /\ q[k] = RecordView(l, c, i)
  /\ \A c \in 1..n : \E b \in Nat : \A i \in Slots :
       Visible(l, c, i) =>
         b + i \in 1..Len(q) /\ q[b + i] = RecordView(l, c, i)
  /\ \A j, k \in 1..Len(q) : q[j].id = q[k].id => j = k

LEMMA ViewName ==
  ASSUME NEW l, NEW c, NEW i
  PROVE  /\ RecordView(l, c, i).id = <<c, i>>
         /\ RecordView(l, c, i).kind = head[<<l, c, i>>].kind
         /\ RecordView(l, c, i).more = head[<<l, c, i>>].more
         /\ RecordView(l, c, i).ok = payload[<<l, c, i>>].written
         /\ RecordView(l, c, i).site = payload[<<l, c, i>>].site
BY DEF RecordView

LEMMA NoChunk ==
  ASSUME NEW l, NEW q \in Seq(Views(l)), Len(q) = 0
  PROVE  ImageTo(l, 0, q)
BY DEF ImageTo

LEMMA OneMoreChunk ==
  ASSUME NEW l, NEW n \in Nat, n + 1 \in Chunks, NEW q, ImageTo(l, n, q)
  PROVE  ImageTo(l, n + 1, q \o ChunkViews(l, n + 1))
<1>0. ChunkUnits \in Nat /\ 1..(n + 1) = 1..n \cup {n + 1} /\ n + 1 \notin 1..n
  BY SizesAssumption
<1>1. PICK m \in 0..ChunkUnits :
        /\ ChunkViews(l, n + 1) = [i \in 1..m |-> RecordView(l, n + 1, i)]
        /\ \A i \in Slots : Visible(l, n + 1, i) <=> i <= m
  BY ChunkViewsIs
<1>2. PICK v : v = ChunkViews(l, n + 1)
  OBVIOUS
<1>3. /\ m \in Nat /\ \A i \in 1..m : i \in Slots
      /\ \A i \in 1..m : v[i] = RecordView(l, n + 1, i)
  BY <1>0, <1>1, <1>2 DEF Slots
<1>4. v \in [1..m -> Views(l)]
  BY <1>1, <1>2, <1>3, IsView
<1>5. v \in Seq(Views(l)) /\ Len(v) = m
  BY <1>3, <1>4, FunctionIsSeq
<1>6. PICK a \in Nat : a = Len(q)
  BY LenProperties DEF ImageTo
<1>7. PICK r : r = q \o v
  OBVIOUS
<1>8. /\ q \in Seq(Views(l)) /\ r \in Seq(Views(l)) /\ Len(r) = a + m
      /\ \A k \in 1..(a + m) : r[k] = IF k <= a THEN q[k] ELSE v[k - a]
  <2>1. q \in Seq(Views(l))
    BY DEF ImageTo
  <2>2. /\ q \o v \in Seq(Views(l))
        /\ Len(q \o v) = Len(q) + Len(v)
        /\ \A k \in 1..(Len(q) + Len(v)) :
             (q \o v)[k] = IF k <= Len(q) THEN q[k] ELSE v[k - Len(q)]
    BY <1>5, <2>1, ConcatProperties
  <2> QED
    BY <1>5, <1>6, <1>7, <2>1, <2>2
<1>9. ASSUME NEW k \in 1..(a + m)
      PROVE  \/ k \in 1..a /\ r[k] = q[k]
             \/ k - a \in 1..m /\ r[k] = RecordView(l, n + 1, k - a)
  BY <1>3, <1>8
<1>10. ASSUME NEW k \in 1..a
       PROVE  \E c \in 1..n, i \in Slots :
                Visible(l, c, i) /\ q[k] = RecordView(l, c, i)
  BY <1>6 DEF ImageTo
<1>11. ASSUME NEW k \in 1..(a + m)
       PROVE  \E c \in 1..(n + 1), i \in Slots :
                Visible(l, c, i) /\ r[k] = RecordView(l, c, i)
  <2>1. CASE k \in 1..a /\ r[k] = q[k]
    BY <1>0, <1>10, <2>1
  <2>2. CASE k - a \in 1..m /\ r[k] = RecordView(l, n + 1, k - a)
    <3>1. Visible(l, n + 1, k - a) /\ k - a \in Slots
      BY <1>1, <1>3, <2>2
    <3> QED
      BY <1>0, <2>2, <3>1
  <2> QED
    BY <1>9, <2>1, <2>2
<1>12. ASSUME NEW c \in 1..(n + 1)
       PROVE  \E b \in Nat : \A i \in Slots :
                Visible(l, c, i) =>
                  b + i \in 1..(a + m) /\ r[b + i] = RecordView(l, c, i)
  <2>1. CASE c \in 1..n
    <3>1. PICK b \in Nat : \A i \in Slots :
            Visible(l, c, i) =>
              b + i \in 1..a /\ q[b + i] = RecordView(l, c, i)
      BY <1>6, <2>1 DEF ImageTo
    <3>2. \A k \in 1..a : k \in 1..(a + m) /\ r[k] = q[k]
      BY <1>3, <1>8
    <3> QED
      BY <3>1, <3>2
  <2>2. CASE c = n + 1
    <3>1. ASSUME NEW i \in Slots, Visible(l, n + 1, i)
          PROVE  a + i \in 1..(a + m) /\ r[a + i] = RecordView(l, n + 1, i)
      <4>1. i \in 1..m /\ i \in Nat
        BY <1>1, <1>3, <3>1 DEF Slots
      <4>2. a + i \in 1..(a + m) /\ ~(a + i <= a) /\ (a + i) - a = i
        BY <1>3, <4>1
      <4> QED
        BY <1>3, <1>8, <4>1, <4>2
    <3> QED
      BY <2>2, <3>1
  <2> QED
    BY <1>0, <2>1, <2>2
<1>13. ASSUME NEW j \in 1..(a + m), NEW k \in 1..(a + m), r[j].id = r[k].id
       PROVE  j = k
  <2>1. ASSUME NEW x \in 1..a
        PROVE  q[x].id[1] \in 1..n
    <3>1. PICK c \in 1..n, i \in Slots : q[x] = RecordView(l, c, i)
      BY <1>10
    <3>2. RecordView(l, c, i).id = <<c, i>> /\ <<c, i>>[1] = c
      BY DEF RecordView
    <3> QED
      BY <3>1, <3>2
  <2>2. ASSUME NEW x \in 1..m
        PROVE  /\ RecordView(l, n + 1, x).id[1] = n + 1
               /\ RecordView(l, n + 1, x).id[2] = x
    <3>0. PICK d : d = n + 1
      OBVIOUS
    <3>1. RecordView(l, d, x).id = <<d, x>>
      BY DEF RecordView
    <3>2. <<d, x>>[1] = d /\ <<d, x>>[2] = x
      OBVIOUS
    <3> QED
      BY <3>0, <3>1, <3>2
  <2>3. CASE j \in 1..a /\ r[j] = q[j] /\ k \in 1..a /\ r[k] = q[k]
    BY <1>6, <1>13, <2>3 DEF ImageTo
  <2>4. CASE /\ j \in 1..a /\ r[j] = q[j]
             /\ k - a \in 1..m /\ r[k] = RecordView(l, n + 1, k - a)
    BY <1>0, <1>13, <2>1, <2>2, <2>4
  <2>5. CASE /\ k \in 1..a /\ r[k] = q[k]
             /\ j - a \in 1..m /\ r[j] = RecordView(l, n + 1, j - a)
    BY <1>0, <1>13, <2>1, <2>2, <2>5
  <2>6. CASE /\ k - a \in 1..m /\ r[k] = RecordView(l, n + 1, k - a)
             /\ j - a \in 1..m /\ r[j] = RecordView(l, n + 1, j - a)
    <3>1. j - a = k - a
      BY <1>13, <2>2, <2>6
    <3> QED
      BY <3>1
  <2> QED
    BY <1>9, <2>3, <2>4, <2>5, <2>6
<1>14. ImageTo(l, n + 1, r)
  <2>1. /\ \A k \in 1..Len(r) : \E c \in 1..(n + 1), i \in Slots :
             Visible(l, c, i) /\ r[k] = RecordView(l, c, i)
        /\ \A c \in 1..(n + 1) : \E b \in Nat : \A i \in Slots :
             Visible(l, c, i) =>
               b + i \in 1..Len(r) /\ r[b + i] = RecordView(l, c, i)
        /\ \A j, k \in 1..Len(r) : r[j].id = r[k].id => j = k
    <3>1. PICK u : u = a + m
      OBVIOUS
    <3>2. Len(r) = u
      BY <1>8, <3>1
    <3>3. \A j, k \in 1..u : r[j].id = r[k].id => j = k
      BY <1>13, <3>1
    <3> QED
      BY <1>11, <1>12, <3>1, <3>2, <3>3
  <2> QED
    BY <1>8, <2>1 DEF ImageTo
<1> QED
  BY <1>2, <1>7, <1>14

(* The image holds every readable record once.                             *)
LEMMA ImageIs ==
  ASSUME NEW l
  PROVE  ImageTo(l, ChunkCount, Image(l))
<1>0. ChunkCount \in Nat /\ Chunks = 1..ChunkCount
  BY SizesAssumption DEF Chunks
<1>1. PICK u \in Nat : u = ChunkCount
  BY <1>0
<1>2. PICK z : z = [c \in 1..u |-> ChunkViews(l, c)]
  OBVIOUS
<1>3. Image(l) = FlattenSeq(z)
  BY <1>0, <1>1, <1>2 DEF Image
<1>4. Len(z) = u /\ (u = 0 => z \in Seq(Views(l)))
  <2>1. PICK S : S = {z[c] : c \in 1..u} \cup Views(l)
    OBVIOUS
  <2>2. z \in [1..u -> {z[c] : c \in 1..u}]
    BY <1>2
  <2>3. Len(z) = u
    BY <2>2, FunctionIsSeq
  <2>4. u = 0 => z \in [1..u -> Views(l)]
    BY <1>2
  <2> QED
    BY <2>3, <2>4, FunctionIsSeq
<1>5. FlattenSeq(z) = IF u = 0 THEN z ELSE JointOf(z)[u]
  BY <1>4, FlattenIs
<1>6. CASE u = 0
  BY <1>1, <1>3, <1>4, <1>5, <1>6, NoChunk
<1>7. CASE u # 0
  <2>1. PICK g : g = JointOf(z)
    OBVIOUS
  <2>2. \E f : f = [i \in 1..u |-> Joint(z, f, i)]
    BY JointExists
  <2>3. g = [i \in 1..u |-> Joint(z, g, i)]
    BY <1>4, <2>1, <2>2 DEF JointOf
  <2>4. ASSUME NEW i \in 1..u
        PROVE  /\ z[i] = ChunkViews(l, i)
               /\ g[i] = IF i = 1 THEN ChunkViews(l, i)
                                  ELSE g[i - 1] \o ChunkViews(l, i)
    BY <1>2, <2>3 DEF Joint
  <2> DEFINE G == {n \in Nat : n + 1 <= u => ImageTo(l, n + 1, g[n + 1])}
  <2>5. 0 \in G
    <3>1. PICK e : e = <<>>
      OBVIOUS
    <3>2. e \in Seq(Views(l)) /\ Len(e) = 0
      BY <3>1, EmptySeq
    <3>3. 0 + 1 \in Chunks /\ 1 \in 1..u
      BY <1>0, <1>1, <1>7
    <3>4. ImageTo(l, 0 + 1, e \o ChunkViews(l, 0 + 1))
      <4>1. PICK o \in Nat : o = 0
        OBVIOUS
      <4>2. ImageTo(l, o, e) /\ o + 1 \in Chunks
        BY <3>2, <3>3, <4>1, NoChunk
      <4>3. ImageTo(l, o + 1, e \o ChunkViews(l, o + 1))
        BY <4>2, OneMoreChunk
      <4> QED
        BY <4>1, <4>3
    <3>5. e \o ChunkViews(l, 1) = ChunkViews(l, 1)
      <4>1. PICK m \in 0..ChunkUnits :
              ChunkViews(l, 1) = [i \in 1..m |-> RecordView(l, 1, i)]
        BY ChunkViewsIs
      <4>2. m \in Nat /\ \A i \in 1..m : i \in Slots
        BY SizesAssumption DEF Slots
      <4>3. ChunkViews(l, 1) \in [1..m -> Views(l)]
        BY <3>3, <4>1, <4>2, IsView
      <4>4. ChunkViews(l, 1) \in Seq(Views(l))
        BY <4>2, <4>3, FunctionIsSeq
      <4> QED
        BY <3>1, <4>4, ConcatEmptySeq
    <3>6. g[1] = ChunkViews(l, 1)
      BY <2>4, <3>3
    <3>7. 0 + 1 = 1
      OBVIOUS
    <3> QED
      BY <3>4, <3>5, <3>6, <3>7
  <2>6. ASSUME NEW n \in Nat, n \in G
        PROVE  n + 1 \in G
    <3>1. SUFFICES ASSUME (n + 1) + 1 <= u
                   PROVE  ImageTo(l, (n + 1) + 1, g[(n + 1) + 1])
      BY <2>6
    <3>2. PICK k : k = n + 1
      OBVIOUS
    <3>3. /\ k \in Nat /\ k + 1 \in Chunks /\ k + 1 \in 1..u
          /\ k + 1 # 1 /\ (k + 1) - 1 = k
      BY <1>0, <1>1, <3>1, <3>2
    <3>4. ImageTo(l, k, g[k])
      BY <2>6, <3>1, <3>2
    <3>5. PICK q : q = g[k]
      OBVIOUS
    <3>6. ImageTo(l, k + 1, q \o ChunkViews(l, k + 1))
      BY <3>3, <3>4, <3>5, OneMoreChunk
    <3>7. g[k + 1] = q \o ChunkViews(l, k + 1)
      BY <2>4, <3>3, <3>5
    <3> QED
      BY <3>2, <3>6, <3>7
  <2> HIDE DEF G
  <2>7. Nat \subseteq G
    BY <2>5, <2>6, SetInduction
  <2>8. u - 1 \in G /\ (u - 1) + 1 = u
    BY <1>7, <2>7
  <2>9. ImageTo(l, u, g[u])
    BY <2>8 DEF G
  <2> QED
    BY <1>1, <1>3, <1>5, <1>7, <2>1, <2>9
<1> QED
  BY <1>6, <1>7

-----------------------------------------------------------------------------
(* The image of a segment as a stream of records.                          *)

(* s[k] is the record at slot i of chunk c.                                *)
At(l, s, k, c, i) ==
  k \in DOMAIN s /\ Visible(l, c, i) /\ s[k] = RecordView(l, c, i)

LEMMA ImageStream ==
  ASSUME IInv, NEW l \in Loggers, NEW s, ImageTo(l, ChunkCount, s)
  PROVE  /\ IsStream(s)
         /\ \A k \in DOMAIN s : \E c \in Chunks, i \in Slots : At(l, s, k, c, i)
         /\ \A c \in Chunks : \E b \in Nat : \A i \in Slots :
              Visible(l, c, i) => At(l, s, b + i, c, i)
         /\ \A k \in DOMAIN s : /\ s[k].ok
                                /\ s[k].kind \in {"def", "sub", "msg", "cont"}
<1>0. ChunkCount \in Nat /\ Chunks = 1..ChunkCount
  BY SizesAssumption DEF Chunks
<1>1. /\ s \in Seq(Views(l)) /\ Len(s) \in Nat /\ DOMAIN s = 1..Len(s)
  BY LenProperties DEF ImageTo
<1>2. \A k \in DOMAIN s : \E c \in Chunks, i \in Slots : At(l, s, k, c, i)
  BY <1>0, <1>1 DEF ImageTo, At
<1>3. \A c \in Chunks : \E b \in Nat : \A i \in Slots :
        Visible(l, c, i) => At(l, s, b + i, c, i)
  BY <1>0, <1>1 DEF ImageTo, At
<1>4. ASSUME NEW k \in DOMAIN s
      PROVE  /\ s[k].ok = TRUE /\ s[k].more \in BOOLEAN
             /\ s[k].kind \in {"def", "sub", "msg", "cont"}
  <2>1. PICK c \in Chunks, i \in Slots : At(l, s, k, c, i)
    BY <1>2
  <2>2. Committed(l, c, i)
    BY <2>1, VisibleCommitted DEF At
  <2>3. /\ head[<<l, c, i>>] \in HeadWord /\ payload[<<l, c, i>>] \in Payload
    BY DEF IInv, TypeOK, Places
  <2>4. payload[<<l, c, i>>].written = TRUE
    BY <2>2, <2>3 DEF IInv, WrittenBeforeCommitted, Payload
  <2>5. /\ head[<<l, c, i>>].kind \in {"def", "sub", "msg", "cont"}
        /\ head[<<l, c, i>>].more \in BOOLEAN
    BY <2>2, <2>3 DEF Committed, HeadWord, Kinds
  <2>6. /\ s[k].kind = head[<<l, c, i>>].kind
        /\ s[k].more = head[<<l, c, i>>].more
        /\ s[k].ok = payload[<<l, c, i>>].written
    BY <2>1, ViewName DEF At
  <2> QED
    BY <2>4, <2>5, <2>6
<1>5. IsStream(s)
  BY <1>1, <1>4 DEF IsStream, ImageTo
<1> QED
  BY <1>2, <1>3, <1>4, <1>5

(* A place is that of one record of the image.                             *)
LEMMA AtOnce ==
  ASSUME NEW l, NEW s, IsStream(s), NEW k, NEW m, NEW c, NEW i,
         At(l, s, k, c, i), At(l, s, m, c, i)
  PROVE  k = m
BY DEF At, IsStream

(* Every site a Message of the image names is defined in it.               *)
LEMMA SoundAt ==
  ASSUME IInv, NEW l \in Loggers, NEW s, ImageTo(l, ChunkCount, s),
         NEW k, NEW c \in Chunks, NEW i \in Slots, At(l, s, k, c, i),
         IsMessage(l, c, i)
  PROVE  Sound(s, k)
<1>1. DefinitionVisible(l, payload[<<l, c, i>>].site)
  BY DEF IInv, DefinitionPrecedesMessage, IsMessage
<1>2. PICK d \in Chunks, j \in Slots :
        /\ Visible(l, d, j)
        /\ head[<<l, d, j>>].kind = "def"
        /\ payload[<<l, d, j>>].site = payload[<<l, c, i>>].site
  BY <1>1 DEF DefinitionVisible
<1>3. PICK b \in Nat : At(l, s, b + j, d, j)
  BY <1>2, ImageStream
<1>4. PICK m : m = b + j
  OBVIOUS
<1>5. /\ m \in DOMAIN s /\ s[m] = RecordView(l, d, j)
      /\ k \in DOMAIN s /\ s[k] = RecordView(l, c, i)
  BY <1>3, <1>4 DEF At
<1>6. s[m].ok /\ s[k].ok
  BY <1>5, ImageStream
<1>7. /\ s[m].kind = "def" /\ s[m].site = s[k].site /\ s[k].kind = "msg"
  BY <1>2, <1>5, ViewName DEF IsMessage
<1> QED
  BY <1>5, <1>6, <1>7 DEF Sound, Defined

LEMMA ChainExists ==
  ASSUME ChainsAreWhole, NEW l \in Loggers, NEW c \in Chunks, NEW i \in Slots,
         IsMessage(l, c, i)
  PROVE  \E n \in 0..ChunkUnits : Promises(l, c, i, n)
<1>0. ChunkUnits \in Nat /\ \A n \in 1..ChunkUnits : n \in 0..ChunkUnits
  BY SizesAssumption
<1>1. CASE head[<<l, c, i>>].more
  <2>1. \E n \in 1..ChunkUnits : Chain(l, c, i, n)
    BY <1>1 DEF ChainsAreWhole, IsMessage
  <2> QED
    BY <1>0, <1>1, <2>1 DEF Promises
<1>2. CASE ~head[<<l, c, i>>].more
  BY <1>0, <1>2 DEF Promises
<1> QED
  BY <1>1, <1>2

(* What follows a Message of the image.                                    *)
LEMMA RunAt ==
  ASSUME IInv, NEW l \in Loggers, NEW s, ImageTo(l, ChunkCount, s),
         NEW k, NEW c \in Chunks, NEW i \in Slots, At(l, s, k, c, i),
         NEW n, Promises(l, c, i, n), NEW j \in 0..n
  PROVE  /\ i + j \in Slots /\ At(l, s, k + j, c, i + j)
         /\ s[k + j].more <=> j < n
         /\ j > 0 => s[k + j].kind = "cont"
         /\ s[k + j].id = <<c, i + j>>
<1>0. /\ IsStream(s) /\ i \in Nat /\ n \in Nat /\ j \in Nat
      /\ k \in DOMAIN s /\ Visible(l, c, i)
  BY SizesAssumption, ImageStream, PromiseIsCount DEF Slots, At
<1>1. PICK b \in Nat : \A x \in Slots :
        Visible(l, c, x) => At(l, s, b + x, c, x)
  BY ImageStream
<1>2. b + i = k
  <2>1. At(l, s, b + i, c, i)
    BY <1>0, <1>1
  <2> QED
    BY <1>0, <2>1, AtOnce
<1>3. PICK x : x = i + j
  OBVIOUS
<1>4. /\ x \in Slots /\ Visible(l, c, x)
      /\ head[<<l, c, x>>].more <=> j < n
      /\ j > 0 => head[<<l, c, x>>].kind = "cont"
  BY <1>0, <1>3, ChainVisible
<1>5. At(l, s, b + x, c, x) /\ b + x = k + j
  BY <1>0, <1>1, <1>2, <1>3, <1>4
<1>6. s[k + j] = RecordView(l, c, x)
  BY <1>5 DEF At
<1> QED
  BY <1>3, <1>4, <1>5, <1>6, ViewName

(* A readable Message is a whole one of the image.                         *)
LEMMA WholeAt ==
  ASSUME WriterInv, NEW l \in Loggers, NEW s, ImageTo(l, ChunkCount, s),
         NEW k, NEW c \in Chunks, NEW i \in Slots, At(l, s, k, c, i),
         IsMessage(l, c, i), NEW n, Promises(l, c, i, n)
  PROVE  /\ k + n \in DOMAIN s /\ WholeMessage(s, k, k + n)
         /\ Names(s, k, k + n) = RunFrom(c, i, n)
<1>0. /\ IInv /\ IsStream(s) /\ n \in Nat /\ k \in DOMAIN s /\ k \in Nat
      /\ i \in Nat
  <2>1. IInv /\ IsStream(s) /\ k \in DOMAIN s
    BY ImageStream DEF WriterInv, LedgerInv, At
  <2> QED
    BY <2>1, SizesAssumption, PromiseIsCount DEF IsStream, Slots
<1>1. ASSUME NEW j \in 0..n
      PROVE  /\ k + j \in DOMAIN s
             /\ s[k + j].more <=> j < n
             /\ j > 0 => s[k + j].kind = "cont"
             /\ s[k + j].id = <<c, i + j>>
             /\ s[k + j].ok
  <2>0. IInv
    BY <1>0
  <2>1. /\ i + j \in Slots /\ At(l, s, k + j, c, i + j)
        /\ s[k + j].more <=> j < n
        /\ j > 0 => s[k + j].kind = "cont"
        /\ s[k + j].id = <<c, i + j>>
    BY <2>0, RunAt
  <2>2. k + j \in DOMAIN s
    BY <2>1 DEF At
  <2>3. s[k + j].ok
    BY <1>0, <2>2, ImageStream
  <2> QED
    BY <2>1, <2>2, <2>3
<1>2. PICK m : m = k + n
  OBVIOUS
<1>3. ASSUME NEW x \in k..m
      PROVE  /\ s[x].more <=> x < m
             /\ x > k => s[x].kind = "cont"
             /\ s[x].ok
             /\ s[x].id = <<c, i + (x - k)>>
  <2>1. PICK j : j = x - k
    OBVIOUS
  <2>2. j \in 0..n /\ k + j = x /\ (j < n <=> x < m) /\ (j > 0 <=> x > k)
    BY <1>0, <1>2, <2>1
  <2> QED
    BY <1>1, <2>1, <2>2
<1>4. m \in DOMAIN s /\ m \in Nat /\ k <= m
  BY <1>0, <1>1, <1>2
<1>5. Sound(s, k)
  BY <1>0, SoundAt
<1>6. WholeMessage(s, k, m)
  <2>1. \A x \in k..(m - 1) : s[x].more
    BY <1>0, <1>3, <1>4
  <2>2. \A x \in (k + 1)..m : s[x].kind = "cont" /\ s[x].ok
    BY <1>0, <1>3, <1>4
  <2>3. ~s[m].more
    BY <1>0, <1>3, <1>4
  <2> QED
    BY <1>4, <1>5, <2>1, <2>2, <2>3 DEF WholeMessage, Linked
<1>7. Names(s, k, m) = RunFrom(c, i, n)
  <2>1. m - k + 1 = n + 1
    BY <1>0, <1>2
  <2>2. ASSUME NEW x \in 1..(n + 1)
        PROVE  s[k + x - 1].id = <<c, i + x - 1>>
    <3>1. k + x - 1 \in k..m /\ i + ((k + x - 1) - k) = i + x - 1
      BY <1>0, <1>2
    <3> QED
      BY <1>3, <3>1
  <2> QED
    BY <2>1, <2>2 DEF Names, RunFrom
<1> QED
  BY <1>2, <1>4, <1>6, <1>7

(* A Message has one end.                                                  *)
LEMMA WholeEnd ==
  ASSUME NEW s, IsStream(s), NEW i \in DOMAIN s, NEW j \in DOMAIN s,
         NEW m \in DOMAIN s, WholeMessage(s, i, j), WholeMessage(s, i, m)
  PROVE  j = m
<1>1. i \in Nat /\ j \in Nat /\ m \in Nat
  BY DEF IsStream
<1>2. i <= j /\ i <= m /\ ~s[j].more /\ ~s[m].more
  BY DEF WholeMessage
<1>3. ~(j < m)
  <2>1. j < m => j \in i..(m - 1)
    BY <1>1, <1>2
  <2> QED
    BY <1>2, <2>1 DEF WholeMessage, Linked
<1>4. ~(m < j)
  <2>1. m < j => m \in i..(j - 1)
    BY <1>1, <1>2
  <2> QED
    BY <1>2, <2>1 DEF WholeMessage, Linked
<1> QED
  BY <1>1, <1>3, <1>4

LEMMA RunAll ==
  ASSUME IInv, NEW l \in Loggers, NEW s, ImageTo(l, ChunkCount, s),
         NEW k, NEW c \in Chunks, NEW i \in Slots, At(l, s, k, c, i),
         NEW n, Promises(l, c, i, n)
  PROVE  \A x \in 0..n : /\ At(l, s, k + x, c, i + x)
                         /\ s[k + x].more <=> x < n
                         /\ x > 0 => s[k + x].kind = "cont"
<1> SUFFICES ASSUME NEW x \in 0..n
             PROVE  /\ At(l, s, k + x, c, i + x)
                    /\ s[k + x].more <=> x < n
                    /\ x > 0 => s[k + x].kind = "cont"
  OBVIOUS
<1>1. /\ i + x \in Slots /\ At(l, s, k + x, c, i + x)
      /\ s[k + x].more <=> x < n
      /\ x > 0 => s[k + x].kind = "cont"
      /\ s[k + x].id = <<c, i + x>>
  BY RunAt
<1> QED
  BY <1>1

(* A readable Continuation belongs to a readable Message.                  *)
LEMMA NoOrphan ==
  ASSUME WriterInv, NEW l \in Loggers, NEW s, ImageTo(l, ChunkCount, s),
         NEW k \in DOMAIN s
  PROVE  ~Orphan(s, k)
<1> SUFFICES ASSUME s[k].kind = "cont"
             PROVE  \E a \in 1..(k - 1) : Sound(s, a) /\ Linked(s, a, k)
  BY DEF Orphan
<1>0. IInv /\ TailInv /\ IsStream(s) /\ k \in Nat /\ ChunkUnits \in Nat
  <2>1. IInv /\ TailInv
    BY DEF WriterInv, LedgerInv
  <2> QED
    BY <2>1, SizesAssumption, ImageStream DEF IsStream
<1>1. PICK c \in Chunks, i \in Slots : At(l, s, k, c, i)
  BY <1>0, ImageStream
<1>2. Visible(l, c, i) /\ head[<<l, c, i>>].kind = "cont" /\ i \in Nat
  BY <1>1, ViewName DEF At, Slots
<1>3. PICK j \in Slots : TailOf(l, c, i, j)
  BY <1>0, <1>2, VisibleIsReleased DEF TailInv
<1>4. PICK n \in 1..ChunkUnits : Chain(l, c, j, n) /\ j < i /\ i <= j + n
  BY <1>3 DEF TailOf
<1>5. /\ IsMessage(l, c, j) /\ Promises(l, c, j, n) /\ j \in Nat /\ n \in Nat
  BY <1>0, <1>3, <1>4 DEF TailOf, Promises, Slots
<1>6. Visible(l, c, j)
  <2>1. \A y \in 1..j : y \in 1..i
    BY <1>2, <1>4, <1>5
  <2> QED
    BY <1>2, <2>1 DEF Visible
<1>7. PICK a : At(l, s, a, c, j)
  BY <1>0, <1>6, ImageStream
<1>8. a \in Nat \ {0}
  BY <1>0, <1>7 DEF At, IsStream
<1>9. ASSUME NEW x \in 0..n
      PROVE  /\ At(l, s, a + x, c, j + x)
             /\ s[a + x].more <=> x < n
             /\ x > 0 => s[a + x].kind = "cont"
  <2>1. IInv /\ Promises(l, c, j, n) /\ At(l, s, a, c, j)
    BY <1>0, <1>5, <1>7
  <2>2. \A z \in 0..n : /\ At(l, s, a + z, c, j + z)
                        /\ s[a + z].more <=> z < n
                        /\ z > 0 => s[a + z].kind = "cont"
    BY <2>1, RunAll
  <2> QED
    BY <2>2
<1>10. PICK x \in 0..n : j + x = i
  <2>1. i - j \in 0..n /\ j + (i - j) = i
    BY <1>2, <1>4, <1>5
  <2> QED
    BY <2>1
<1>11. a + x = k
  <2>1. At(l, s, a + x, c, i)
    BY <1>9, <1>10
  <2> QED
    BY <1>0, <1>1, <2>1, AtOnce
<1>12. a \in 1..(k - 1)
  BY <1>0, <1>2, <1>4, <1>5, <1>8, <1>10, <1>11
<1>13. ASSUME NEW y \in a..k
       PROVE  /\ y < k => s[y].more
              /\ a < y => s[y].kind = "cont"
  <2>1. PICK z : z = y - a
    OBVIOUS
  <2>2. /\ z \in 0..n /\ a + z = y /\ (y < k => z < n) /\ (a < y => z > 0)
    BY <1>0, <1>5, <1>8, <1>10, <1>11, <2>1
  <2> QED
    BY <1>9, <2>2
<1>14. Linked(s, a, k)
  <2>1. \A y \in a..(k - 1) : s[y].more
    BY <1>0, <1>8, <1>12, <1>13
  <2>2. \A y \in (a + 1)..k : s[y].kind = "cont"
    BY <1>0, <1>8, <1>12, <1>13
  <2> QED
    BY <2>1, <2>2 DEF Linked
<1> QED
  BY <1>0, <1>5, <1>7, <1>12, <1>14, SoundAt

(* Nothing in a segment is counted against it.                             *)
LEMMA NothingLost ==
  ASSUME WriterInv, NEW l \in Loggers, NEW s, ImageTo(l, ChunkCount, s),
         NEW d, TallyOK(s, Len(s), 0, d)
  PROVE  d.undecodable = 0 /\ d.skipped = 0
<1>0. /\ IInv /\ ChainsAreWhole /\ IsStream(s) /\ DOMAIN s = 1..Len(s)
  <2>1. IInv /\ ChainsAreWhole
    BY DEF WriterInv, LedgerInv
  <2> QED
    BY <2>1, ImageStream DEF IsStream
<1>1. Illegible(s) = {} /\ Strange(s) = {}
  BY <1>0, ImageStream DEF Illegible, Strange
<1>2. Orphans(s, Len(s)) = {}
  BY <1>0, NoOrphan DEF Orphans
<1>3. Lost(s, Len(s), 0) = {}
  <2> SUFFICES ASSUME NEW k \in DOMAIN s, s[k].kind = "msg"
               PROVE  Decodable(s, k)
    BY <1>0 DEF Lost
  <2>1. PICK c \in Chunks, i \in Slots : At(l, s, k, c, i)
    BY <1>0, ImageStream
  <2>2. IsMessage(l, c, i)
    BY <2>1, ViewName DEF At, IsMessage
  <2>3. PICK n \in 0..ChunkUnits : Promises(l, c, i, n)
    BY <1>0, <2>2, ChainExists
  <2>4. k + n \in DOMAIN s /\ WholeMessage(s, k, k + n)
    BY <2>1, <2>2, <2>3, WholeAt
  <2> QED
    BY <2>4 DEF Decodable
<1>4. Cardinality({}) = 0 /\ 0 + 0 = 0
  BY FS_EmptySet
<1> QED
  BY <1>1, <1>2, <1>3, <1>4 DEF TallyOK

(* A result is a readable Message of the segment with all that follows it. *)
ResultAt(l, s, r, a, c, i) ==
  /\ At(l, s, a, c, i) /\ IsMessage(l, c, i)
  /\ \E n \in 0..ChunkUnits : Promises(l, c, i, n) /\ r = RunFrom(c, i, n)

LEMMA ResultIs ==
  ASSUME WriterInv, NEW l \in Loggers, NEW s, ImageTo(l, ChunkCount, s),
         NEW q, ResultOK(s, Len(s), 0, q), NEW k \in DOMAIN q
  PROVE  \E a \in DOMAIN s, c \in Chunks, i \in Slots :
           ResultAt(l, s, q[k], a, c, i)
<1>0. /\ IInv /\ ChainsAreWhole /\ IsStream(s) /\ DOMAIN s = 1..Len(s)
  <2>1. IInv /\ ChainsAreWhole
    BY DEF WriterInv, LedgerInv
  <2> QED
    BY <2>1, ImageStream DEF IsStream
<1>1. PICK a \in DOMAIN s, z \in DOMAIN s :
        WholeMessage(s, a, z) /\ q[k] = Names(s, a, z)
  <2>1. PICK a \in 1..Len(s), z \in 1..Len(s) :
          WholeMessage(s, a, z) /\ q[k] = Names(s, a, z)
    BY DEF ResultOK
  <2> QED
    BY <1>0, <2>1
<1>2. PICK c \in Chunks, i \in Slots : At(l, s, a, c, i)
  BY <1>0, ImageStream
<1>3. IsMessage(l, c, i)
  BY <1>1, <1>2, ViewName DEF At, IsMessage, WholeMessage, Sound
<1>4. PICK n \in 0..ChunkUnits : Promises(l, c, i, n)
  BY <1>0, <1>3, ChainExists
<1>5. /\ a + n \in DOMAIN s /\ WholeMessage(s, a, a + n)
      /\ Names(s, a, a + n) = RunFrom(c, i, n)
  BY <1>2, <1>3, <1>4, WholeAt
<1>6. z = a + n
  BY <1>0, <1>1, <1>5, WholeEnd
<1> QED
  BY <1>1, <1>2, <1>3, <1>4, <1>5, <1>6 DEF ResultAt

LEMMA ResultFacts ==
  ASSUME WriterInv, NEW l \in Loggers, NEW s, NEW r,
         NEW a, NEW c \in Chunks, NEW i \in Slots, ResultAt(l, s, r, a, c, i)
  PROVE  /\ r[1] = <<c, i>> /\ CallOf(l, r) = payload[<<l, c, i>>].call
         /\ DecodedWhole(l, r)
         /\ CallOf(l, r) \in {n \in 1..attempts[l] : MessageRecorded(l, n)}
<1>1. /\ Visible(l, c, i) /\ IsMessage(l, c, i)
  BY DEF ResultAt, At
<1>2. PICK n : Promises(l, c, i, n) /\ r = RunFrom(c, i, n)
  BY DEF ResultAt
<1>3. /\ r \in Seq(Place) /\ r[1] = <<c, i>>
      /\ RunOf(l, r, c, i)
      /\ ~head[<<l, c, LastSlot(i, r)>>].more
  BY <1>1, <1>2, RunFromIs
<1>4. DecodedWhole(l, r)
  BY <1>3, RunIsWhole
<1>5. CallOf(l, r) = payload[<<l, c, i>>].call
  BY <1>3 DEF CallOf
<1>6. payload[<<l, c, i>>].call \in 1..attempts[l]
  BY <1>1 DEF WriterInv, LedgerInv, WordsInv, IsMessage, Committed
<1>7. MessageRecorded(l, payload[<<l, c, i>>].call)
  BY <1>1 DEF MessageRecorded, IsMessage
<1> QED
  BY <1>3, <1>4, <1>5, <1>6, <1>7

(* Whatever state a kill leaves a segment in.                              *)
LEMMA ImageDecodes ==
  ASSUME WriterInv, NEW l \in Loggers, NEW d, d = DecodeAll(Image(l)),
         NEW R, R = {n \in 1..attempts[l] : MessageRecorded(l, n)}
  PROVE  /\ d.undecodable = 0
         /\ d.skipped = 0
         /\ \A k \in DOMAIN d.result : DecodedWhole(l, d.result[k])
         /\ {CallOf(l, d.result[k]) : k \in DOMAIN d.result} = R
         /\ Len(d.result) = Cardinality(R)
<1>1. PICK s : s = Image(l)
  OBVIOUS
<1>2. ImageTo(l, ChunkCount, s) /\ IInv /\ UniqueInv /\ ChainsAreWhole
  BY <1>1, ImageIs DEF WriterInv, LedgerInv
<1>3. IsStream(s) /\ DOMAIN s = 1..Len(s)
  BY <1>2, ImageStream DEF IsStream
<1>4. PICK q : q = d.result
  OBVIOUS
<1>5. /\ q \in Seq(Seq(Ids(s))) /\ TallyOK(s, Len(s), 0, d)
      /\ ResultOK(s, Len(s), 0, q)
  <2>1. Reached(s, Len(s), 0, d)
    BY <1>1, <1>3, DecodeAllReached
  <2> QED
    BY <1>4, <2>1 DEF Reached, StreamDecoder
<1>6. d.undecodable = 0 /\ d.skipped = 0
  BY <1>2, <1>5, NothingLost
<1>7. \A k \in DOMAIN q : \E a \in DOMAIN s, c \in Chunks, i \in Slots :
        ResultAt(l, s, q[k], a, c, i)
  BY <1>2, <1>5, ResultIs
<1>8. \A k \in DOMAIN q : DecodedWhole(l, q[k]) /\ CallOf(l, q[k]) \in R
  BY <1>7, ResultFacts
<1>9. ASSUME NEW n \in R
      PROVE  \E k \in DOMAIN q : CallOf(l, q[k]) = n
  <2>1. PICK c \in Chunks, i \in Slots :
          /\ Visible(l, c, i) /\ IsMessage(l, c, i)
          /\ payload[<<l, c, i>>].call = n
    BY DEF MessageRecorded, IsMessage
  <2>2. PICK a : At(l, s, a, c, i)
    BY <1>2, <2>1, ImageStream
  <2>3. PICK m \in 0..ChunkUnits : Promises(l, c, i, m)
    BY <1>2, <2>1, ChainExists
  <2>4. /\ a + m \in DOMAIN s /\ WholeMessage(s, a, a + m)
        /\ Names(s, a, a + m) = RunFrom(c, i, m)
    BY <1>2, <2>1, <2>2, <2>3, WholeAt
  <2>5. PICK k \in DOMAIN q : q[k] = RunFrom(c, i, m)
    <3>1. PICK z \in 1..Len(s) : z = a + m
      BY <1>3, <2>4
    <3>2. a \in 1..Len(s)
      BY <1>3, <2>2 DEF At
    <3>3. WholeMessage(s, a, z) /\ Names(s, a, z) = RunFrom(c, i, m)
      BY <2>4, <3>1
    <3> QED
      BY <1>5, <3>2, <3>3 DEF ResultOK
  <2>6. ResultAt(l, s, q[k], a, c, i)
    BY <2>1, <2>2, <2>3, <2>5 DEF ResultAt
  <2>7. CallOf(l, q[k]) = n
    BY <2>1, <2>6, ResultFacts
  <2> QED
    BY <2>7
<1>10. {CallOf(l, q[k]) : k \in DOMAIN q} = R
  BY <1>8, <1>9
<1>11. ASSUME NEW k \in DOMAIN q, NEW m \in DOMAIN q,
              CallOf(l, q[k]) = CallOf(l, q[m])
       PROVE  ~(k < m)
  <2>1. PICK a \in DOMAIN s, c \in Chunks, i \in Slots :
          ResultAt(l, s, q[k], a, c, i)
    BY <1>7
  <2>2. PICK b \in DOMAIN s, e \in Chunks, j \in Slots :
          ResultAt(l, s, q[m], b, e, j)
    BY <1>7
  <2>3. q[k][1] = <<c, i>> /\ CallOf(l, q[k]) = payload[<<l, c, i>>].call
    BY <2>1, ResultFacts
  <2>4. q[m][1] = <<e, j>> /\ CallOf(l, q[m]) = payload[<<l, e, j>>].call
    BY <2>2, ResultFacts
  <2>5. /\ IsMessage(l, c, i) /\ IsMessage(l, e, j)
        /\ payload[<<l, c, i>>].call = payload[<<l, e, j>>].call
    BY <1>11, <2>1, <2>2, <2>3, <2>4 DEF ResultAt
  <2>6. UniqueInv
    BY <1>2
  <2>7. c = e /\ i = j
    BY <2>5, <2>6 DEF UniqueInv
  <2>8. a \in Nat /\ s[a].id = <<c, i>>
    <3>1. RecordView(l, c, i).id = <<c, i>>
      BY DEF RecordView
    <3>2. s[a] = RecordView(l, c, i)
      BY <2>1 DEF ResultAt, At
    <3>3. a \in Nat
      BY <1>3, <2>1
    <3> QED
      BY <3>1, <3>2, <3>3
  <2>9. s[a].id = q[k][1] /\ s[a].id = q[m][1] /\ ~(a < a)
    BY <2>3, <2>4, <2>7, <2>8
  <2>10. k < m => \A x, y \in DOMAIN s :
                    s[x].id = q[k][1] /\ s[y].id = q[m][1] => x < y
    BY <1>5 DEF ResultOK
  <2>11. k < m => a < a
    BY <2>1, <2>9, <2>10, Zenon
  <2> QED
    BY <2>9, <2>11
<1>12. Len(q) = Cardinality(R)
  <2>1. Len(q) \in Nat /\ DOMAIN q = 1..Len(q)
    BY <1>5, LenProperties
  <2>2. PICK n \in Nat : n = Len(q)
    BY <2>1
  <2>3. PICK f : f = [k \in 1..n |-> CallOf(l, q[k])]
    OBVIOUS
  <2>4. f \in [1..n -> R]
    BY <1>8, <2>1, <2>2, <2>3
  <2>5. f \in Seq(R) /\ Len(f) = n /\ DOMAIN f = 1..n
    BY <2>3, <2>4, FunctionIsSeq
  <2>6. \A k, m \in DOMAIN f : f[k] = f[m] => k = m
    BY <1>11, <2>1, <2>2, <2>3, <2>5
  <2>7. Cardinality({f[k] : k \in DOMAIN f}) = n
    BY <2>5, <2>6, AllDifferent
  <2>8. {f[k] : k \in DOMAIN f} = R
    BY <1>10, <2>1, <2>2, <2>3, <2>5
  <2> QED
    BY <2>2, <2>7, <2>8
<1> QED
  BY <1>4, <1>6, <1>8, <1>10, <1>12

(* Whenever the process is killed, decodeAll finds in its segment the      *)
(* messages that were committed, each once and whole, and nothing that it  *)
(* cannot place (R3.1, R3.2).                                              *)
THEOREM KilledDecodes == KillSpec => []KilledImageDecodes
<1>1. KillInv => KilledImageDecodes
  BY ImageDecodes DEF KillInv, KilledImageDecodes
<1> QED
  BY <1>1, KillInvariance, PTL

-----------------------------------------------------------------------------
(* What a readable place of the watched segment says of the others.        *)

(* A chunk whose header is being stored holds nothing readable.            *)
LEMMA StampedFirst ==
  ASSUME IInv, NEW c \in Chunks, BeingStamped(c), NEW i \in Slots
  PROVE  ~Visible(Watched, c, i)
<1>1. PICK t \in Threads : /\ pc[t] \in {"stamp", "restamp"}
                           /\ cache[t].owner = Watched
                           /\ cache[t].chunk = c
  BY DEF BeingStamped
<1>2. HasChunk(t) /\ cache[t].next = 1
  BY <1>1 DEF IInv, CacheInv, CacheOK
<1>3. OwnSlotsOK(t) /\ i >= 1
  BY <1>2 DEF IInv, OwnSlotsInv, Slots
<1>4. ~Committed(Watched, c, i)
  BY <1>1, <1>2, <1>3 DEF OwnSlotsOK
<1> QED
  BY <1>4, VisibleCommitted

-----------------------------------------------------------------------------
(* The reader while the producer takes a step.                             *)

(* What the reader can read is final.                                      *)
LEMMA ReadableStays ==
  ASSUME IInv, [Next]_vars, NEW c \in Chunks, NEW i \in Slots,
         Visible(Watched, c, i)
  PROVE  /\ head'[<<Watched, c, i>>] = head[<<Watched, c, i>>]
         /\ payload'[<<Watched, c, i>>] = payload[<<Watched, c, i>>]
         /\ Visible(Watched, c, i)'
BY VisibleCommitted, VisibleStays, FinalStep, WatchedAssumption

LEMMA RunStays ==
  ASSUME IInv, [Next]_vars, NEW r \in Seq(Place), NEW c \in Chunks,
         NEW i \in Slots, Run(r, c, i)
  PROVE  /\ Run(r, c, i)'
         /\ head'[<<Watched, c, LastSlot(i, r)>>]
              = head[<<Watched, c, LastSlot(i, r)>>]
<1>1. Len(r) \in Nat \ {0} /\ i \in Nat
  BY EmptySeq DEF Run, RunOf, Slots
<1>2. ASSUME NEW k \in 1..Len(r)
      PROVE  /\ i + k - 1 \in Slots
             /\ r[k] = <<c, i + k - 1>>
             /\ Visible(Watched, c, i + k - 1)'
             /\ head'[<<Watched, c, i + k - 1>>]
                  = head[<<Watched, c, i + k - 1>>]
             /\ k < Len(r) => head[<<Watched, c, i + k - 1>>].more
  BY ReadableStays DEF Run, RunOf
<1>3. 1 \in 1..Len(r) /\ i + 1 - 1 = i /\ Len(r) \in 1..Len(r)
  BY <1>1
<1>4. head'[<<Watched, c, i>>] = head[<<Watched, c, i>>]
  BY <1>2, <1>3
<1>5. head'[<<Watched, c, i + Len(r) - 1>>] = head[<<Watched, c, i + Len(r) - 1>>]
  BY <1>2, <1>3
<1>6. r # <<>> /\ IsMessage(Watched, c, i)'
  BY <1>4 DEF Run, RunOf, IsMessage
<1>7. Run(r, c, i)'
  BY <1>2, <1>6 DEF Run, RunOf
<1> QED
  BY <1>5, <1>7 DEF LastSlot

LEMMA PromiseStays ==
  ASSUME IInv, [Next]_vars, UNCHANGED readerVars, ReaderTypeOK, WalkInv
  PROVE  Promised' <=> Promised
<1>1. at' = at /\ slot' = slot /\ chunk' = chunk
  BY DEF readerVars
<1>2. CASE InChunk /\ slot > 1
  <2>1. slot - 1 \in 1..(slot - 1)
    BY <1>2 DEF ReaderTypeOK
  <2>2. chunk \in Chunks /\ slot - 1 \in Slots
        /\ Visible(Watched, chunk, slot - 1)
    BY <1>2, <2>1 DEF WalkInv
  <2>3. head'[<<Watched, chunk, slot - 1>>] = head[<<Watched, chunk, slot - 1>>]
    BY <2>2, ReadableStays
  <2> QED
    BY <1>1, <2>3 DEF Promised, InChunk
<1>3. CASE ~(InChunk /\ slot > 1)
  BY <1>1, <1>3 DEF Promised, InChunk
<1> QED
  BY <1>2, <1>3

LEMMA ProducerStep ==
  ASSUME WriterInv, ReaderInv, [Next]_vars, UNCHANGED readerVars
  PROVE  ReaderInv'
<1>0. /\ IInv /\ ReaderTypeOK /\ WalkInv /\ ChainInv /\ ResultInv
      /\ CountInv /\ BeforeInv
  BY DEF WriterInv, LedgerInv, ReaderInv
<1>1. /\ at' = at /\ pass' = pass /\ chunk' = chunk /\ slot' = slot
      /\ tag' = tag /\ decoder' = decoder /\ before' = before
  BY DEF readerVars
<1>2. Promised' <=> Promised
  BY <1>0, PromiseStays
<1>3. /\ InChunk' <=> InChunk
      /\ \A c, i : Passed(c, i)' <=> Passed(c, i)
  BY <1>1 DEF InChunk, Passed
<1>4. ReaderTypeOK'
  BY <1>0, <1>1 DEF ReaderTypeOK
<1>5. WalkInv'
  <2>1. PICK c, i : c = chunk /\ i = slot
    OBVIOUS
  <2>2. /\ InChunk => /\ c \in Chunks
                      /\ \A j \in 1..(i - 1) :
                           j \in Slots /\ Visible(Watched, c, j)
        /\ at = "rest" => /\ i \in Slots /\ c \in Chunks
                          /\ tag => Visible(Watched, c, i)
    BY <1>0, <2>1 DEF WalkInv, InChunk
  <2>3. InChunk => \A j \in 1..(i - 1) : Visible(Watched, c, j)'
    BY <1>0, <2>2, ReadableStays
  <2>4. at = "rest" /\ tag => Visible(Watched, c, i)'
    BY <1>0, <2>2, ReadableStays
  <2>5. chunk' = c /\ slot' = i
    BY <1>1, <2>1
  <2>6. /\ at' = "off" => pass' = 1 /\ chunk' = 1 /\ before' = {}
        /\ at' = "done" => pass' = 2 /\ chunk' > ChunkCount
    BY <1>0, <1>1 DEF WalkInv
  <2> QED
    BY <1>1, <1>3, <2>2, <2>3, <2>4, <2>5, <2>6 DEF WalkInv, Visible, Stamped, Committed
<1>6. ChainInv'
  <2>1. /\ at' = "rest" /\ Promised' => tag'
        /\ ~InChunk' => decoder'.chain = <<>>
        /\ decoder'.chain # <<>> => Promised'
        /\ ~decoder'.damaged
    BY <1>0, <1>1, <1>2, <1>3 DEF ChainInv
  <2>2. ASSUME decoder.chain # <<>>
        PROVE  \E i \in Slots : /\ Run(decoder.chain, chunk, i)'
                                /\ LastSlot(i, decoder.chain)' = slot' - 1
    <3>1. PICK r : r = decoder.chain
      OBVIOUS
    <3>2. PICK i \in Slots : Run(r, chunk, i) /\ LastSlot(i, r) = slot - 1
      BY <1>0, <2>2, <3>1 DEF ChainInv
    <3>3. r \in Seq(Place) /\ chunk \in Chunks
      BY <1>0, <2>2, <3>1 DEF ReaderTypeOK, DecoderType, ChainInv, WalkInv
    <3>4. PICK c : c = chunk
      OBVIOUS
    <3>5. Run(r, c, i)'
      BY <1>0, <3>2, <3>3, <3>4, RunStays
    <3>6. decoder'.chain = r /\ chunk' = c
      BY <1>1, <3>1, <3>4
    <3> QED
      BY <1>1, <3>2, <3>5, <3>6 DEF Run, RunOf, LastSlot
  <2> QED
    BY <1>1, <2>1, <2>2 DEF ChainInv
<1>7. ResultInv'
  <2>1. ASSUME NEW k \in DOMAIN decoder.result
        PROVE  \E c \in Chunks, i \in Slots :
                 /\ Run(decoder.result[k], c, i)'
                 /\ ~head'[<<Watched, c, LastSlot(i, decoder'.result[k])>>].more
                 /\ Passed(c, i)'
    <3>1. PICK r : r = decoder.result[k]
      OBVIOUS
    <3>2. PICK c \in Chunks, i \in Slots :
            /\ Run(r, c, i)
            /\ ~head[<<Watched, c, LastSlot(i, r)>>].more
            /\ Passed(c, i)
      BY <1>0, <3>1 DEF ResultInv
    <3>3. r \in Seq(Place)
      BY <1>0, <3>1, ElementOfSeq, LenProperties
         DEF ReaderTypeOK, DecoderType
    <3>4. /\ Run(r, c, i)'
          /\ ~head'[<<Watched, c, LastSlot(i, r)>>].more
          /\ Passed(c, i)'
      BY <1>0, <1>3, <3>2, <3>3, RunStays
    <3>5. decoder'.result[k] = r
      BY <1>1, <3>1
    <3> QED
      BY <3>4, <3>5 DEF Run, RunOf
  <2> QED
    BY <1>0, <1>1, <2>1 DEF ResultInv
<1>8. CountInv'
  BY <1>0, <1>1, <1>2 DEF CountInv
<1>9. BeforeInv'
  <2>1. ASSUME NEW c \in Chunks, NEW i \in Slots, Old(c, i)
        PROVE  /\ Old(c, i)'
               /\ head'[<<Watched, c, i>>] = head[<<Watched, c, i>>]
               /\ payload'[<<Watched, c, i>>] = payload[<<Watched, c, i>>]
    BY <1>0, <1>1, <2>1, ReadableStays DEF Old
  <2>2. \A c, i : Seen(c, i)' <=> Seen(c, i)
    BY <1>1 DEF Seen
  <2>3. ASSUME NEW c \in Chunks, NEW i \in Slots,
               NEW d \in Chunks, NEW j \in Slots, Tracked(c, i, d, j)
        PROVE  /\ Tracked(c, i, d, j)'
               /\ payload'[<<Watched, c, i>>] = payload[<<Watched, c, i>>]
    <3>1. Old(c, i) /\ Old(d, j)
      BY <2>3 DEF Tracked
    <3> QED
      BY <1>1, <1>3, <2>1, <2>2, <2>3, <3>1 DEF Tracked, IsMessage
  <2> QED
    BY <1>0, <1>1, <2>3 DEF BeforeInv
<1> QED
  BY <1>4, <1>5, <1>6, <1>7, <1>8, <1>9 DEF ReaderInv

-----------------------------------------------------------------------------
(* Steps of the reader that read no record.                                *)

(* A step of the reader leaves memory alone.                               *)
LEMMA StillMemory ==
  ASSUME UNCHANGED vars
  PROVE  /\ head' = head /\ payload' = payload
         /\ \A l, c, i : Visible(l, c, i)' <=> Visible(l, c, i)
         /\ \A r, c, i : Run(r, c, i)' <=> Run(r, c, i)
         /\ \A l, c, i : IsMessage(l, c, i)' <=> IsMessage(l, c, i)
<1>1. head' = head /\ payload' = payload /\ stamp' = stamp
  BY DEF vars
<1>2. \A l, c, i : Visible(l, c, i)' <=> Visible(l, c, i)
  BY <1>1, MemoryFrame
<1> QED
  BY <1>1, <1>2 DEF Run, RunOf, IsMessage

(* The decoder has not changed and the places passed are passed still:     *)
(* results stay whole.                                                     *)
LEMMA ResultsKept ==
  ASSUME ReaderInv, UNCHANGED vars, decoder' = decoder,
         \/ decoder.result = <<>>
         \/ \A c \in Chunks, i \in Slots : Passed(c, i) => Passed(c, i)'
  PROVE  ResultInv'
<1>1. ResultInv
  BY DEF ReaderInv
<1>2. ASSUME NEW k \in DOMAIN decoder.result
      PROVE  \E c \in Chunks, i \in Slots :
               /\ Run(decoder.result[k], c, i)'
               /\ ~head'[<<Watched, c, LastSlot(i, decoder'.result[k])>>].more
               /\ Passed(c, i)'
  <2>1. PICK r : r = decoder.result[k]
    OBVIOUS
  <2>2. PICK c \in Chunks, i \in Slots :
          /\ Run(r, c, i)
          /\ ~head[<<Watched, c, LastSlot(i, r)>>].more
          /\ Passed(c, i)
    BY <1>1, <2>1 DEF ResultInv
  <2>3. decoder.result # <<>>
    OBVIOUS
  <2>4. Run(r, c, i)' /\ ~head'[<<Watched, c, LastSlot(i, r)>>].more
        /\ Passed(c, i)'
    BY <2>2, <2>3, StillMemory
  <2>5. decoder'.result[k] = r
    BY <2>1
  <2> QED
    BY <2>4, <2>5 DEF Run, RunOf
<1> QED
  BY <1>1, <1>2 DEF ResultInv

(* Nothing readable from the start is forgotten when each is kept.         *)
LEMMA BeforeKept ==
  ASSUME BeforeInv, before' = before, UNCHANGED vars,
         \A c, d \in Chunks, i, j \in Slots :
           Tracked(c, i, d, j) => Tracked(c, i, d, j)'
  PROVE  BeforeInv'
<1> SUFFICES ASSUME NEW n \in before
             PROVE  \E c, d \in Chunks, i, j \in Slots :
                      /\ payload'[<<Watched, c, i>>].call = n
                      /\ Tracked(c, i, d, j)'
  BY DEF BeforeInv
<1>1. PICK c \in Chunks, d \in Chunks, i \in Slots, j \in Slots :
        /\ payload[<<Watched, c, i>>].call = n
        /\ Tracked(c, i, d, j)
  BY DEF BeforeInv
<1>2. payload' = payload
  BY StillMemory
<1>3. Tracked(c, i, d, j)'
  BY <1>1
<1> QED
  BY <1>1, <1>2, <1>3

LEMMA BeginDecodeStep ==
  ASSUME WriterInv, ReaderInv, BeginDecode, UNCHANGED vars
  PROVE  ReaderInv'
<1>0. /\ IInv /\ ReaderTypeOK /\ WalkInv /\ ChainInv /\ ResultInv
      /\ CountInv /\ DefinitionPrecedesMessage /\ Watched \in Loggers
  BY WatchedAssumption DEF WriterInv, LedgerInv, ReaderInv, IInv
<1>1. /\ at = "off" /\ at' = "header" /\ pass' = pass /\ chunk' = chunk
      /\ slot' = slot /\ tag' = tag /\ decoder' = decoder
      /\ before' = {n \in 1..attempts[Watched] : MessageRecorded(Watched, n)}
      /\ pass = 1 /\ chunk = 1
  BY <1>0 DEF BeginDecode, WalkInv
<1>2. /\ decoder.chain = <<>> /\ decoder.result = <<>>
      /\ ~InChunk /\ ~InChunk' /\ ~Promised'
  BY <1>0, <1>1 DEF CountInv, InChunk, Promised
<1>3. ReaderTypeOK'
  <2>1. attempts[Watched] \in Nat
    BY <1>0 DEF IInv, TypeOK
  <2> QED
    BY <1>0, <1>1, <2>1 DEF ReaderTypeOK
<1>4. WalkInv' /\ ChainInv' /\ CountInv'
  BY <1>0, <1>1, <1>2 DEF WalkInv, ChainInv, CountInv
<1>5. ResultInv'
  BY <1>1, <1>2, ResultsKept
<1>6. ASSUME NEW n \in before'
      PROVE  \E c, d \in Chunks, i, j \in Slots :
               /\ payload'[<<Watched, c, i>>].call = n
               /\ Tracked(c, i, d, j)'
  <2>1. PICK c \in Chunks, i \in Slots :
          /\ Visible(Watched, c, i)
          /\ head[<<Watched, c, i>>].kind = "msg"
          /\ payload[<<Watched, c, i>>].call = n
    BY <1>1 DEF MessageRecorded
  <2>2. DefinitionVisible(Watched, payload[<<Watched, c, i>>].site)
    BY <1>0, <2>1 DEF DefinitionPrecedesMessage
  <2>3. PICK d \in Chunks, j \in Slots :
          /\ Visible(Watched, d, j)
          /\ head[<<Watched, d, j>>].kind = "def"
          /\ payload[<<Watched, d, j>>].site = payload[<<Watched, c, i>>].site
    BY <2>2 DEF DefinitionVisible
  <2>4. ~Passed(d, j)' /\ pass' # 2
    BY <1>1, <1>2 DEF Passed, Chunks
  <2>5. Tracked(c, i, d, j)'
    BY <1>1, <2>1, <2>3, <2>4, StillMemory DEF Tracked, Old, IsMessage
  <2> QED
    BY <2>1, <2>5, StillMemory
<1>7. BeforeInv'
  BY <1>6 DEF BeforeInv
<1> QED
  BY <1>3, <1>4, <1>5, <1>7 DEF ReaderInv

(* The walk leaves a chunk with nothing readable ahead in it.              *)
LEMMA NextChunkStep ==
  ASSUME WriterInv, ReaderInv, UNCHANGED vars, NEW damaged,
         NextChunk(damaged), chunk \in Chunks, decoder.chain = <<>>,
         \A i \in Slots : Old(chunk, i) => Passed(chunk, i)
  PROVE  ReaderInv'
<1>0. /\ ReaderTypeOK /\ WalkInv /\ ChainInv /\ ResultInv
      /\ CountInv /\ BeforeInv
  BY DEF ReaderInv
<1>1. /\ at' = "header" /\ chunk' = chunk + 1
      /\ pass' = pass /\ slot' = slot /\ tag' = tag /\ decoder' = decoder
      /\ before' = before
  BY DEF NextChunk
<1>2. ~InChunk' /\ ~Promised'
  BY <1>1 DEF InChunk, Promised
<1>3. chunk \in Nat \ {0} /\ \A c \in Chunks : c \in Nat
  BY DEF Chunks
<1>4. /\ \A c, i : Passed(c, i)' <=> c < chunk + 1
      /\ \A c \in Chunks, i \in Slots : Passed(c, i) => Passed(c, i)'
      /\ \A c \in Chunks, i \in Slots :
           Passed(c, i)' /\ Old(c, i) => Passed(c, i)
  <2>1. \A c, i : Passed(c, i)' <=> c < chunk + 1
    BY <1>1, <1>2 DEF Passed
  <2>2. \A c \in Chunks, i \in Slots : Passed(c, i) => c <= chunk
    BY <1>3 DEF Passed
  <2>3. \A c \in Chunks, i \in Slots : c < chunk => Passed(c, i)
    BY DEF Passed
  <2>4. \A c \in Chunks : c < chunk + 1 <=> c < chunk \/ c = chunk
    BY <1>3
  <2>5. \A c \in Chunks : c <= chunk <=> c < chunk + 1
    BY <1>3
  <2>6. \A c \in Chunks, i \in Slots :
          Passed(c, i)' /\ Old(c, i) => Passed(c, i)
    BY <2>1, <2>3, <2>4
  <2> QED
    BY <2>1, <2>2, <2>5, <2>6
<1>5. ReaderTypeOK'
  BY <1>0, <1>1, <1>3 DEF ReaderTypeOK
<1>6. WalkInv' /\ ChainInv'
  BY <1>0, <1>1, <1>2 DEF WalkInv, ChainInv
<1>7. CountInv'
  BY <1>0, <1>1, <1>2 DEF CountInv
<1>8. ResultInv'
  BY <1>1, <1>4, ResultsKept
<1>9. BeforeInv'
  <2>1. \A c, i : Old(c, i) => Old(c, i)'
    BY <1>1, StillMemory DEF Old
  <2>2. \A c, i : Seen(c, i)' <=> Seen(c, i)
    BY <1>1 DEF Seen
  <2>3. ASSUME NEW c \in Chunks, NEW i \in Slots,
               NEW d \in Chunks, NEW j \in Slots, Tracked(c, i, d, j)
        PROVE  Tracked(c, i, d, j)'
    <3>1. PICK site : site = payload[<<Watched, c, i>>].site
      OBVIOUS
    <3>2. /\ Old(c, i) /\ IsMessage(Watched, c, i)
          /\ Old(d, j) /\ head[<<Watched, d, j>>].kind = "def"
          /\ payload[<<Watched, d, j>>].site = site
          /\ pass = 2 \/ Passed(d, j) => site \in decoder.sites
          /\ pass = 2 /\ Passed(c, i) => Seen(c, i)
      BY <2>3, <3>1 DEF Tracked
    <3>3. /\ Old(c, i)' /\ Old(d, j)' /\ head' = head /\ payload' = payload
          /\ IsMessage(Watched, c, i)'
      BY <2>1, <3>2, StillMemory
    <3>4. /\ pass' = 2 \/ Passed(d, j)' => site \in decoder'.sites
          /\ pass' = 2 /\ Passed(c, i)' => Seen(c, i)'
      BY <1>1, <1>4, <2>2, <3>2
    <3> QED
      BY <3>1, <3>2, <3>3, <3>4 DEF Tracked
  <2> QED
    BY <1>0, <1>1, <2>3, BeforeKept
<1> QED
  BY <1>5, <1>6, <1>7, <1>8, <1>9 DEF ReaderInv

(* Outside the chunks nothing is pending.                                  *)
LEMMA ReadChunkHeaderStep ==
  ASSUME WriterInv, ReaderInv, ReadChunkHeader, UNCHANGED vars
  PROVE  ReaderInv'
<1>0. /\ IInv /\ ReaderTypeOK /\ WalkInv /\ ChainInv /\ ResultInv
      /\ CountInv /\ BeforeInv
  BY DEF WriterInv, LedgerInv, ReaderInv
<1>1. /\ at = "header" /\ chunk \in Chunks /\ ~InChunk
      /\ decoder.chain = <<>> /\ ~Promised
  BY <1>0 DEF ReadChunkHeader, ReaderTypeOK, Chunks, InChunk, Promised,
              ChainInv
<1>2. ASSUME NEW damaged, NextChunk(damaged),
             ~Stamped(Watched, chunk) \/ BeingStamped(chunk)
      PROVE  ReaderInv'
  <2>1. \A i \in Slots : ~Visible(Watched, chunk, i)
    BY <1>0, <1>1, <1>2, StampedFirst DEF Visible
  <2>2. \A i \in Slots : Old(chunk, i) => Passed(chunk, i)
    BY <2>1 DEF Old
  <2> QED
    BY <1>1, <1>2, <2>2, NextChunkStep
<1>3. CASE EnterBody
  <2>1. /\ at' = "tag" /\ slot' = 1 /\ chunk' = chunk /\ pass' = pass
        /\ tag' = tag /\ decoder' = decoder /\ before' = before
    BY <1>3 DEF EnterBody
  <2>2. InChunk' /\ ~Promised'
    BY <2>1 DEF InChunk, Promised
  <2>3. \A c \in Chunks, i \in Slots : Passed(c, i)' <=> Passed(c, i)
    <3>1. \A i \in Slots : ~(i < 1)
      BY DEF Slots
    <3> QED
      BY <1>1, <2>1, <2>2, <3>1 DEF Passed
  <2>4. ReaderTypeOK'
    BY <1>0, <2>1 DEF ReaderTypeOK
  <2>5. WalkInv'
    BY <1>1, <2>1 DEF WalkInv
  <2>6. ChainInv' /\ CountInv'
    BY <1>0, <1>1, <2>1, <2>2 DEF ChainInv, CountInv
  <2>7. ResultInv'
    BY <2>1, <2>3, ResultsKept
  <2>8. ASSUME NEW c \in Chunks, NEW d \in Chunks,
               NEW i \in Slots, NEW j \in Slots, Tracked(c, i, d, j)
        PROVE  Tracked(c, i, d, j)'
    <3>1. Seen(c, i)' <=> Seen(c, i)
      BY <2>1 DEF Seen
    <3>2. \A b, k : Old(b, k) => Old(b, k)'
      BY <2>1, StillMemory DEF Old
    <3> QED
      BY <2>1, <2>3, <2>8, <3>1, <3>2, StillMemory DEF Tracked
  <2>9. BeforeInv'
    BY <1>0, <2>1, <2>8, BeforeKept
  <2> QED
    BY <2>4, <2>5, <2>6, <2>7, <2>9 DEF ReaderInv
<1> QED
  BY <1>2, <1>3 DEF ReadChunkHeader

(* Whatever the walk has been promised lies before it.                     *)
LEMMA PromisedAhead ==
  ASSUME WriterInv, ReaderInv, Promised
  PROVE  /\ chunk \in Chunks /\ slot \in Slots
         /\ Visible(Watched, chunk, slot)
         /\ head[<<Watched, chunk, slot>>].kind = "cont"
<1>1. slot - 1 \in 1..(slot - 1) /\ (slot - 1) + 1 = slot
  BY DEF Promised, ReaderInv, ReaderTypeOK
<1>2. /\ chunk \in Chunks /\ slot - 1 \in Slots
      /\ Visible(Watched, chunk, slot - 1)
  BY <1>1 DEF Promised, ReaderInv, WalkInv
<1>3. head[<<Watched, chunk, slot - 1>>].more
  BY DEF Promised
<1>4. /\ (slot - 1) + 1 \in Slots
      /\ head[<<Watched, chunk, (slot - 1) + 1>>].kind = "cont"
      /\ Visible(Watched, chunk, (slot - 1) + 1)
  BY <1>2, <1>3, PromiseKept, WatchedAssumption
<1> QED
  BY <1>1, <1>2, <1>4

LEMMA ReadTagStep ==
  ASSUME WriterInv, ReaderInv, ReadTag, UNCHANGED vars
  PROVE  ReaderInv'
<1>0. /\ IInv /\ ReaderTypeOK /\ WalkInv /\ ChainInv /\ ResultInv
      /\ CountInv /\ BeforeInv /\ ChunkUnits \in Nat
  BY SizesAssumption DEF WriterInv, LedgerInv, ReaderInv
<1>1. at = "tag" /\ InChunk /\ chunk \in Chunks /\ slot \in Nat \ {0}
  BY <1>0 DEF ReadTag, InChunk, WalkInv, ReaderTypeOK
<1>2. ASSUME slot > ChunkUnits, NextChunk(FALSE)
      PROVE  ReaderInv'
  <2>1. decoder.chain = <<>>
    BY <1>0, <1>2, PromisedAhead DEF ChainInv, Slots
  <2>2. \A i \in Slots : i < slot
    BY <1>0, <1>1, <1>2 DEF Slots
  <2>3. \A i \in Slots : Passed(chunk, i)
    BY <1>1, <2>2 DEF Passed
  <2> QED
    BY <1>1, <1>2, <2>1, <2>3, NextChunkStep
<1>3. ASSUME slot <= ChunkUnits, at' = "rest",
             tag' = Committed(Watched, chunk, slot),
             UNCHANGED <<pass, chunk, slot, decoder, unreadable, before>>
      PROVE  ReaderInv'
  <2>1. slot \in Slots /\ \A i \in Slots : i < slot \/ slot \in 1..i
    BY <1>0, <1>1, <1>3 DEF Slots
  <2>2. tag' => Visible(Watched, chunk, slot)
    <3> SUFFICES ASSUME Committed(Watched, chunk, slot)
                 PROVE  Visible(Watched, chunk, slot)
      BY <1>3
    <3>1. \A j \in 1..(slot - 1) : Committed(Watched, chunk, j)
      BY <1>0, <1>1, VisibleCommitted DEF WalkInv
    <3> QED
      BY <1>0, <1>1, <2>1, <3>1, CommittedVisible, WatchedAssumption
  <2>3. ~tag' => \A i \in Slots : Visible(Watched, chunk, i) => i < slot
    BY <1>3, <2>1, VisibleCommitted
  <2>4. /\ InChunk' /\ (Promised' <=> Promised)
        /\ \A c, i : Passed(c, i)' <=> Passed(c, i)
    BY <1>1, <1>3, StillMemory DEF InChunk, Promised, Passed
  <2>5. ReaderTypeOK'
    BY <1>0, <1>3 DEF ReaderTypeOK, Committed
  <2>6. WalkInv'
    BY <1>0, <1>1, <1>3, <2>1, <2>2, StillMemory DEF WalkInv
  <2>7. ChainInv'
    <3>1. Promised => tag'
      BY <1>3, PromisedAhead, VisibleCommitted
    <3>2. decoder.chain # <<>> =>
            \E i \in Slots : /\ Run(decoder.chain, chunk, i)'
                             /\ LastSlot(i, decoder.chain)' = slot' - 1
      <4>1. PICK r, c : r = decoder.chain /\ c = chunk
        OBVIOUS
      <4>2. \A i : Run(r, c, i)' <=> Run(r, c, i)
        BY StillMemory
      <4> QED
        BY <1>0, <1>3, <4>1, <4>2 DEF ChainInv, Run, RunOf, LastSlot
    <3> QED
      BY <1>0, <1>3, <2>4, <3>1, <3>2 DEF ChainInv
  <2>8. CountInv'
    BY <1>0, <1>3, <2>4 DEF CountInv
  <2>9. ResultInv'
    BY <1>3, <2>4, ResultsKept
  <2>10. ASSUME NEW c \in Chunks, NEW d \in Chunks,
               NEW i \in Slots, NEW j \in Slots, Tracked(c, i, d, j)
        PROVE  Tracked(c, i, d, j)'
    <3>1. Seen(c, i)' <=> Seen(c, i)
      BY <1>3 DEF Seen
    <3>2. \A b, k \in Slots : Visible(Watched, b, k) => Visible(Watched, b, k)'
      BY StillMemory
    <3>3. \A b \in Chunks, k \in Slots : Old(b, k) => Old(b, k)'
      BY <1>3, <2>3, StillMemory DEF Old
    <3> QED
      BY <1>3, <2>4, <2>10, <3>1, <3>3, StillMemory DEF Tracked
  <2>11. BeforeInv'
    BY <1>0, <1>3, <2>10, BeforeKept
  <2> QED
    BY <2>5, <2>6, <2>7, <2>8, <2>9, <2>11 DEF ReaderInv
<1> QED
  BY <1>2, <1>3 DEF ReadTag

(* A head word without its tag ends the walk of the chunk.                 *)
LEMMA UntaggedStep ==
  ASSUME WriterInv, ReaderInv, UNCHANGED vars, at = "rest", ~tag,
         NEW damaged, NextChunk(damaged)
  PROVE  ReaderInv'
<1>0. WalkInv /\ ChainInv
  BY DEF ReaderInv
<1>1. chunk \in Chunks /\ decoder.chain = <<>>
  BY <1>0 DEF WalkInv, ChainInv, InChunk
<1>2. \A i \in Slots : Old(chunk, i) => Passed(chunk, i)
  BY DEF Old, Passed, InChunk
<1> QED
  BY <1>1, <1>2, NextChunkStep

LEMMA EndVisitStep ==
  ASSUME WriterInv, ReaderInv, EndVisit, UNCHANGED vars
  PROVE  ReaderInv'
<1>0. /\ ReaderTypeOK /\ WalkInv /\ ChainInv /\ ResultInv
      /\ CountInv /\ BeforeInv
  BY DEF ReaderInv
<1>1. /\ at = "header" /\ chunk > ChunkCount
      /\ slot' = slot /\ tag' = tag /\ before' = before
  BY DEF EndVisit
<1>2. ~InChunk /\ ~Promised /\ decoder.chain = <<>>
  BY <1>0, <1>1 DEF InChunk, Promised, ChainInv
<1>3. \A c \in Chunks : c < chunk /\ c >= 1
  BY <1>0, <1>1, SizesAssumption DEF ReaderTypeOK, Chunks
<1>4. \A c \in Chunks, i \in Slots : Passed(c, i)
  BY <1>3 DEF Passed
<1>5. ASSUME pass = 1, pass' = 2, chunk' = 1, at' = at, decoder' = decoder
      PROVE  ReaderInv'
  <2>1. ~InChunk' /\ ~Promised'
    BY <1>1, <1>5 DEF InChunk, Promised
  <2>2. \A c \in Chunks, i \in Slots : ~Passed(c, i)'
    BY <1>3, <1>5, <2>1 DEF Passed, Chunks
  <2>3. ReaderTypeOK'
    BY <1>0, <1>1, <1>5 DEF ReaderTypeOK
  <2>4. WalkInv' /\ ChainInv' /\ CountInv'
    BY <1>0, <1>1, <1>2, <1>5, <2>1 DEF WalkInv, ChainInv, CountInv
  <2>5. ResultInv'
    BY <1>0, <1>5, ResultsKept DEF CountInv
  <2>6. ASSUME NEW c \in Chunks, NEW d \in Chunks,
               NEW i \in Slots, NEW j \in Slots, Tracked(c, i, d, j)
        PROVE  Tracked(c, i, d, j)'
    <3>1. \A b, k : Old(b, k) => Old(b, k)'
      BY <1>1, <1>5, StillMemory DEF Old
    <3> QED
      BY <1>4, <1>5, <2>2, <2>6, <3>1, StillMemory DEF Tracked
  <2>7. BeforeInv'
    BY <1>0, <1>1, <2>6, BeforeKept
  <2> QED
    BY <2>3, <2>4, <2>5, <2>7 DEF ReaderInv
<1>6. ASSUME pass = 2, at' = "done", decoder' = EndOfStream(decoder),
             UNCHANGED <<pass, chunk, unreadable>>
      PROVE  ReaderInv'
  <2>1. decoder' = decoder
    BY <1>2, <1>6 DEF EndOfStream, FinalizePending
  <2>2. ~InChunk' /\ ~Promised'
    BY <1>6 DEF InChunk, Promised
  <2>3. \A c \in Chunks, i \in Slots : Passed(c, i)'
    BY <1>3, <1>6, <2>2 DEF Passed
  <2>4. ReaderTypeOK'
    BY <1>0, <1>1, <1>6, <2>1 DEF ReaderTypeOK
  <2>5. WalkInv' /\ ChainInv' /\ CountInv'
    BY <1>0, <1>1, <1>2, <1>6, <2>1, <2>2 DEF WalkInv, ChainInv, CountInv
  <2>6. ResultInv'
    BY <2>1, <2>3, ResultsKept
  <2>7. ASSUME NEW c \in Chunks, NEW d \in Chunks,
               NEW i \in Slots, NEW j \in Slots, Tracked(c, i, d, j)
        PROVE  Tracked(c, i, d, j)'
    <3>1. \A b, k : Old(b, k) => Old(b, k)'
      BY <1>6, StillMemory DEF Old
    <3>2. Seen(c, i)' <=> Seen(c, i)
      BY <2>1 DEF Seen
    <3> QED
      BY <1>4, <1>6, <2>1, <2>3, <2>7, <3>1, <3>2, StillMemory DEF Tracked
  <2>8. BeforeInv'
    BY <1>0, <1>1, <2>7, BeforeKept
  <2> QED
    BY <2>4, <2>5, <2>6, <2>8 DEF ReaderInv
<1> QED
  BY <1>1, <1>5, <1>6 DEF EndVisit

-----------------------------------------------------------------------------
(* The record the reader is at.                                            *)

View == RecordView(Watched, chunk, slot)

(* A record handed to a callback is readable, of a known kind and legible. *)
LEMMA ViewFacts ==
  ASSUME WriterInv, ReaderInv, at = "rest", tag
  PROVE  /\ chunk \in Chunks /\ slot \in Slots
         /\ Visible(Watched, chunk, slot)
         /\ View.ok
         /\ View.kind = head[<<Watched, chunk, slot>>].kind
         /\ View.kind \in Kinds
         /\ View.more = head[<<Watched, chunk, slot>>].more
         /\ View.more => View.kind \in {"msg", "cont"}
         /\ View.site = payload[<<Watched, chunk, slot>>].site
         /\ View.site \in Sites \cup {NoSite}
         /\ View.id = <<chunk, slot>> /\ View.id \in Place
         /\ View.kind = "cont" => Promised
         /\ Promised => View.kind = "cont"
<1>0. /\ IInv /\ WalkInv /\ ReaderTypeOK /\ ChainsAreWhole /\ LoneInv
      /\ Watched \in Loggers
  BY WatchedAssumption DEF WriterInv, LedgerInv, ReaderInv
<1>1. chunk \in Chunks /\ slot \in Slots /\ Visible(Watched, chunk, slot)
  BY <1>0 DEF WalkInv, InChunk
<1>2. Committed(Watched, chunk, slot)
  BY <1>1, VisibleCommitted
<1>3. <<Watched, chunk, slot>> \in Places
  BY <1>0, <1>1 DEF Places
<1>4. /\ payload[<<Watched, chunk, slot>>].written
      /\ payload[<<Watched, chunk, slot>>] \in Payload
      /\ head[<<Watched, chunk, slot>>] \in HeadWord
  BY <1>0, <1>1, <1>2, <1>3 DEF IInv, WrittenBeforeCommitted, TypeOK
<1>5. View = [kind |-> head[<<Watched, chunk, slot>>].kind,
              more |-> head[<<Watched, chunk, slot>>].more,
              ok |-> payload[<<Watched, chunk, slot>>].written,
              site |-> payload[<<Watched, chunk, slot>>].site,
              id |-> <<chunk, slot>>]
  BY DEF View, RecordView
<1>6. head[<<Watched, chunk, slot>>].kind \in Kinds
  BY <1>2, <1>4 DEF HeadWord, Committed
<1>7. head[<<Watched, chunk, slot>>].kind = "cont" => Promised
  BY <1>0, <1>1 DEF ChainsAreWhole, Promised, InChunk
<1>8. Promised => head[<<Watched, chunk, slot>>].kind = "cont"
  BY PromisedAhead
<1>9. <<chunk, slot>> \in Place
  BY <1>1 DEF Place, Chunks, Slots
<1> QED
  BY <1>0, <1>1, <1>4, <1>5, <1>6, <1>7, <1>8, <1>9 DEF LoneInv, Payload

LEMMA OneRun ==
  ASSUME NEW c \in Nat, NEW i \in Slots,
         Visible(Watched, c, i), IsMessage(Watched, c, i)
  PROVE  /\ <<<<c, i>>>> \in Seq(Place) /\ <<<<c, i>>>>[1] = <<c, i>>
         /\ Run(<<<<c, i>>>>, c, i) /\ LastSlot(i, <<<<c, i>>>>) = i
<1>1. i \in Nat /\ <<c, i>> \in Place
  BY DEF Place, Slots
<1>2. PICK r : r = <<<<c, i>>>>
  OBVIOUS
<1>3. r \in Seq(Place) /\ Len(r) = 1 /\ r[1] = <<c, i>> /\ r # <<>>
  BY <1>1, <1>2
<1>4. \A k \in 1..1 : k = 1 /\ i + k - 1 = i
  BY <1>1
<1>5. Run(r, c, i) /\ LastSlot(i, r) = i
  BY <1>1, <1>3, <1>4 DEF Run, RunOf, LastSlot
<1> QED
  BY <1>2, <1>3, <1>5

(* q is the run r from slot i on with the readable record at slot s.       *)
Longer(q, r, c, i, s) ==
  /\ r \in Seq(Place) /\ Run(r, c, i) /\ LastSlot(i, r) = s - 1
  /\ head[<<Watched, c, s - 1>>].more /\ Visible(Watched, c, s)
  /\ q = Append(r, <<c, s>>)

LEMMA LongerRun ==
  ASSUME NEW q, NEW r, NEW c \in Nat, NEW i \in Slots, NEW s \in Slots,
         Longer(q, r, c, i, s)
  PROVE  /\ q \in Seq(Place) /\ q[1] = r[1] /\ q # <<>>
         /\ Run(q, c, i) /\ LastSlot(i, q) = s
<1>0. PICK m, p : m = s - 1 /\ p = <<c, s>>
  OBVIOUS
<1> /\ r \in Seq(Place) /\ Run(r, c, i) /\ LastSlot(i, r) = m
    /\ head[<<Watched, c, m>>].more /\ Visible(Watched, c, s)
    /\ q = Append(r, p)
  BY <1>0 DEF Longer
<1>1. /\ Len(r) \in Nat \ {0} /\ i \in Nat /\ s \in Nat
      /\ i + Len(r) = s /\ i + Len(r) - 1 = m
  BY <1>0, EmptySeq DEF Run, RunOf, LastSlot, Slots
<1>2. p \in Place
  BY <1>0, <1>1 DEF Place
<1>3. /\ q \in Seq(Place) /\ Len(q) = Len(r) + 1 /\ q # <<>>
      /\ \A k \in 1..Len(r) : q[k] = r[k]
      /\ q[Len(r) + 1] = p
  BY <1>1, <1>2
<1>4. ASSUME NEW k \in 1..Len(q)
      PROVE  /\ i + k - 1 \in Slots
             /\ q[k] = <<c, i + k - 1>>
             /\ Visible(Watched, c, i + k - 1)
             /\ k < Len(q) => head[<<Watched, c, i + k - 1>>].more
  <2>1. CASE k = Len(q)
    <3>1. k = Len(r) + 1 /\ i + k - 1 = s /\ ~(k < Len(q))
      BY <1>1, <1>3, <2>1
    <3> QED
      BY <1>0, <1>3, <3>1
  <2>2. CASE k # Len(q)
    <3>1. k \in 1..Len(r)
      BY <1>1, <1>3, <2>2
    <3>2. CASE k = Len(r)
      <4>1. i + k - 1 = m
        BY <1>1, <3>2
      <4> QED
        BY <1>3, <3>1, <4>1 DEF Run, RunOf
    <3>3. CASE k # Len(r)
      <4>1. k < Len(r)
        BY <1>1, <3>1, <3>3
      <4> QED
        BY <1>3, <3>1, <4>1 DEF Run, RunOf
    <3> QED
      BY <3>2, <3>3
  <2> QED
    BY <2>1, <2>2
<1>5. Run(q, c, i)
  BY <1>3, <1>4 DEF Run, RunOf
<1>6. LastSlot(i, q) = s /\ 1 \in 1..Len(r)
  BY <1>1, <1>3 DEF LastSlot
<1> QED
  BY <1>3, <1>5, <1>6

LEMMA RunHead ==
  ASSUME NEW r \in Seq(Place), NEW c, NEW i \in Slots, Run(r, c, i)
  PROVE  r[1] = <<c, i>>
<1>1. 1 \in 1..Len(r) /\ i + 1 - 1 = i
  BY EmptySeq DEF Run, RunOf, Slots
<1> QED
  BY <1>1 DEF Run, RunOf

(* The first callback only collects.                                       *)
LEMMA FirstPassIs ==
  ASSUME WriterInv, ReaderInv, at = "rest", tag, pass = 1,
         NEW d, d = FirstPass(decoder, View)
  PROVE  /\ d \in DecoderType
         /\ d.chain = decoder.chain /\ d.result = decoder.result
         /\ d.damaged = decoder.damaged /\ d.skipped = decoder.skipped
         /\ d.undecodable = decoder.undecodable
         /\ decoder.sites \subseteq d.sites
         /\ View.kind = "def" => View.site \in d.sites
<1>1. decoder \in DecoderType
  BY DEF ReaderInv, ReaderTypeOK
<1>2. View.ok /\ View.kind \in Kinds /\ View.site \in Sites \cup {NoSite}
  BY ViewFacts
<1>3. CASE View.kind = "def"
  <2>1. d = [decoder EXCEPT !.sites = @ \cup {View.site}]
    BY <1>2, <1>3 DEF FirstPass
  <2> QED
    BY <1>1, <1>2, <2>1 DEF DecoderType
<1>4. CASE View.kind = "sub"
  <2>1. d = [decoder EXCEPT !.names = @ \cup {View.site}]
    BY <1>2, <1>4 DEF FirstPass
  <2> QED
    BY <1>1, <1>2, <1>4, <2>1 DEF DecoderType
<1>5. CASE View.kind = "msg"
  <2>1. d = [decoder EXCEPT !.messages = @ + 1]
    BY <1>2, <1>5 DEF FirstPass
  <2>2. decoder.messages + 1 \in Nat
    BY <1>1 DEF DecoderType
  <2>3. PICK m \in Nat : d = [decoder EXCEPT !.messages = m]
    BY <2>1, <2>2
  <2> QED
    BY <1>1, <1>5, <2>3 DEF DecoderType
<1>6. CASE View.kind = "cont"
  <2>1. d = decoder
    BY <1>2, <1>6 DEF FirstPass
  <2> QED
    BY <1>1, <1>6, <2>1 DEF DecoderType
<1> QED
  BY <1>2, <1>3, <1>4, <1>5, <1>6 DEF Kinds

(* What the second callback makes of a record.                             *)
Unheeded(d) ==
  /\ decoder.chain = <<>> /\ View.kind \in {"def", "sub"}
  /\ d = decoder

Orphaned(d) ==
  /\ decoder.chain = <<>> /\ View.kind = "cont"
  /\ d = Skipped(decoder)

Undefined(d) ==
  /\ decoder.chain = <<>> /\ View.kind = "msg"
  /\ View.site \notin decoder.sites
  /\ d = Undecodable(decoder)

Opened(d) ==
  /\ decoder.chain = <<>> /\ View.kind = "msg" /\ View.more
  /\ d = [decoder EXCEPT !.chain = <<View.id>>, !.damaged = FALSE]

Whole(d) ==
  /\ decoder.chain = <<>> /\ View.kind = "msg" /\ ~View.more
  /\ d = [decoder EXCEPT !.result = Append(@, <<View.id>>)]

Joined(d) ==
  /\ decoder.chain # <<>> /\ View.kind = "cont" /\ View.more
  /\ d = [decoder EXCEPT !.damaged = FALSE, !.chain = Append(@, View.id)]

Completed(d) ==
  /\ decoder.chain # <<>> /\ View.kind = "cont" /\ ~View.more
  /\ d = [decoder EXCEPT !.result = Append(@, Append(decoder.chain, View.id)),
                         !.chain = <<>>, !.damaged = FALSE]

LEMMA SecondPassIs ==
  ASSUME WriterInv, ReaderInv, at = "rest", tag,
         NEW d, d = SecondPass(decoder, View)
  PROVE  \/ Unheeded(d) \/ Orphaned(d) \/ Undefined(d) \/ Opened(d)
         \/ Whole(d) \/ Joined(d) \/ Completed(d)
<1>1. decoder \in DecoderType /\ ~decoder.damaged
      /\ (decoder.chain # <<>> => Promised)
  BY DEF ReaderInv, ReaderTypeOK, ChainInv
<1>2. /\ View.ok /\ View.kind \in Kinds
      /\ Promised => View.kind = "cont"
  BY ViewFacts
<1>3. CASE decoder.chain = <<>>
  <2>1. d = Unchained(decoder, View)
    BY <1>3 DEF SecondPass
  <2>2. CASE View.kind \in {"def", "sub"}
    BY <1>3, <2>1, <2>2 DEF Unchained, Unheeded
  <2>3. CASE View.kind = "cont"
    BY <1>3, <2>1, <2>3 DEF Unchained, Orphaned
  <2>4. CASE View.kind = "msg"
    <3>1. d = OpenMessage(decoder, View)
      BY <2>1, <2>4 DEF Unchained
    <3> QED
      BY <1>2, <1>3, <2>4, <3>1 DEF OpenMessage, Undefined, Opened, Whole
  <2> QED
    BY <1>2, <2>2, <2>3, <2>4 DEF Kinds
<1>4. CASE decoder.chain # <<>>
  <2>1. View.kind = "cont" /\ d = JoinContinuation(decoder, View)
    BY <1>1, <1>2, <1>4 DEF SecondPass
  <2>2. PICK j : j = [decoder EXCEPT !.damaged = FALSE,
                                     !.chain = Append(@, View.id)]
    OBVIOUS
  <2>3. d = IF View.more THEN j ELSE FinalizePending(j)
    BY <1>1, <1>2, <2>1, <2>2 DEF JoinContinuation, DecoderType
  <2>4. CASE View.more
    BY <1>4, <2>1, <2>2, <2>3, <2>4 DEF Joined
  <2>5. CASE ~View.more
    <3>1. /\ j.chain = Append(decoder.chain, View.id) /\ j.chain # <<>>
          /\ ~j.damaged /\ j.result = decoder.result
      <4>1. decoder.chain \in Seq(Place) /\ View.id \in Place
        BY <1>1, ViewFacts DEF DecoderType
      <4>2. Append(decoder.chain, View.id) # <<>>
        BY <4>1
      <4> QED
        BY <1>1, <2>2, <4>2 DEF DecoderType
    <3>2. d = [j EXCEPT !.result = Append(@, j.chain),
                        !.chain = <<>>, !.damaged = FALSE]
      BY <2>3, <2>5, <3>1 DEF FinalizePending
    <3>3. d = [decoder EXCEPT
                 !.result = Append(@, Append(decoder.chain, View.id)),
                 !.chain = <<>>, !.damaged = FALSE]
      BY <1>1, <2>2, <3>1, <3>2 DEF DecoderType
    <3> QED
      BY <1>4, <2>1, <2>5, <3>3 DEF Completed
  <2> QED
    BY <2>4, <2>5
<1> QED
  BY <1>3, <1>4

(* The second visit has not published the record it is at.                 *)
LEMMA ResultHeads ==
  ASSUME ReaderInv, InChunk, NEW k \in DOMAIN decoder.result
  PROVE  decoder.result[k][1] # <<chunk, slot>>
<1>1. ResultInv /\ ReaderTypeOK
  BY DEF ReaderInv
<1>2. PICK r : r = decoder.result[k]
  OBVIOUS
<1>3. PICK c \in Chunks, i \in Slots : Run(r, c, i) /\ Passed(c, i)
  BY <1>1, <1>2 DEF ResultInv
<1>4. r \in Seq(Place)
  BY <1>1, <1>2, ElementOfSeq, LenProperties DEF ReaderTypeOK, DecoderType
<1>5. r[1] = <<c, i>>
  BY <1>3, <1>4, RunHead
<1>6. c < chunk \/ i < slot
  BY <1>3 DEF Passed
<1>7. c \in Nat /\ i \in Nat /\ chunk \in Nat /\ slot \in Nat
  BY <1>1 DEF ReaderTypeOK, Chunks, Slots
<1> QED
  BY <1>2, <1>5, <1>6, <1>7

(* A message is published: nothing is pending any more.                    *)
Publishes(d, r, i) ==
  /\ r \in Seq(Place) /\ d.chain = <<>>
  /\ d.result = Append(decoder.result, r)
  /\ Run(r, chunk, i) /\ LastSlot(i, r) = slot
  /\ i <= slot /\ ~View.more
  /\ \A k \in DOMAIN decoder.result : decoder.result[k][1] # r[1]

(* A message is pending after this record.                                 *)
Pends(d) ==
  /\ View.more /\ d.result = decoder.result
  /\ \E i \in Slots : Run(d.chain, chunk, i) /\ LastSlot(i, d.chain) = slot
  /\ \A k \in DOMAIN decoder.result : decoder.result[k][1] # d.chain[1]

(* What both callbacks keep, and what they tell of this record.            *)
Outcomes(d) ==
  /\ d \in DecoderType
  /\ decoder.sites \subseteq d.sites
  /\ ~d.damaged
  /\ d.chain # <<>> => Pends(d)
  /\ \/ d.result = decoder.result
     \/ \E r \in Seq(Place), i \in Slots : Publishes(d, r, i)
  /\ d.undecodable = 0 =>
       d.skipped = 0 /\ (pass = 2 /\ View.more => d.chain # <<>>)
  /\ \A p : SeenBy(decoder, p) => SeenBy(d, p)
  /\ View.kind = "def" /\ pass = 1 => View.site \in d.sites
  /\ pass = 1 => d.chain = <<>> /\ d.result = <<>> /\ d.undecodable = 0
  /\ View.kind = "msg" /\ pass = 2 /\ View.site \in decoder.sites =>
       SeenBy(d, <<chunk, slot>>)

LEMMA FirstPassOutcome ==
  ASSUME WriterInv, ReaderInv, at = "rest", tag, pass = 1,
         NEW d, d = FirstPass(decoder, View)
  PROVE  Outcomes(d)
<1>0. ChainInv /\ CountInv
  BY DEF ReaderInv
<1>1. /\ d \in DecoderType
      /\ d.chain = decoder.chain /\ d.result = decoder.result
      /\ d.damaged = decoder.damaged /\ d.skipped = decoder.skipped
      /\ d.undecodable = decoder.undecodable
      /\ decoder.sites \subseteq d.sites
      /\ View.kind = "def" => View.site \in d.sites
  BY FirstPassIs
<1>2. /\ ~decoder.damaged /\ decoder.chain = <<>> /\ decoder.result = <<>>
      /\ decoder.undecodable = 0 /\ decoder.skipped = 0
  BY <1>0 DEF ChainInv, CountInv
<1> QED
  BY <1>1, <1>2 DEF Outcomes, SeenBy

(* A result is added to those there are.                                   *)
LEMMA AppendedResult ==
  ASSUME NEW d \in DecoderType, NEW e, NEW r \in Seq(Place),
         e = Append(d.result, r)
  PROVE  /\ e \in Seq(Seq(Place)) /\ Len(e) = Len(d.result) + 1
         /\ Len(d.result) \in Nat
         /\ DOMAIN d.result = 1..Len(d.result)
         /\ DOMAIN e = 1..(Len(d.result) + 1)
         /\ \A k \in DOMAIN d.result : k \in DOMAIN e /\ e[k] = d.result[k]
         /\ e[Len(d.result) + 1] = r
<1>1. d.result \in Seq(Seq(Place))
  BY DEF DecoderType
<1>2. Len(d.result) \in Nat /\ DOMAIN d.result = 1..Len(d.result)
  BY <1>1, LenProperties
<1>3. e \in Seq(Seq(Place)) /\ Len(e) = Len(d.result) + 1
  BY <1>1
<1>4. DOMAIN e = 1..Len(e)
  BY <1>3, LenProperties
<1> QED
  BY <1>1, <1>2, <1>3, <1>4

(* Publishing keeps what was seen.                                         *)
LEMMA PublishedSeen ==
  ASSUME ReaderInv, NEW d \in DecoderType, NEW r \in Seq(Place),
         d.result = Append(decoder.result, r), d.chain = <<>>
  PROVE  /\ SeenBy(d, r[1])
         /\ decoder.chain = <<>> \/ r[1] = decoder.chain[1] =>
              \A p : SeenBy(decoder, p) => SeenBy(d, p)
<1>1. decoder \in DecoderType
  BY DEF ReaderInv, ReaderTypeOK
<1>2. /\ Len(decoder.result) \in Nat
      /\ DOMAIN d.result = 1..(Len(decoder.result) + 1)
      /\ \A k \in DOMAIN decoder.result :
           k \in DOMAIN d.result /\ d.result[k] = decoder.result[k]
      /\ d.result[Len(decoder.result) + 1] = r
  BY <1>1, AppendedResult
<1>3. Len(decoder.result) + 1 \in DOMAIN d.result
  BY <1>2
<1>4. SeenBy(d, r[1])
  BY <1>2, <1>3 DEF SeenBy
<1>5. ASSUME NEW p, SeenBy(decoder, p),
             decoder.chain = <<>> \/ r[1] = decoder.chain[1]
      PROVE  SeenBy(d, p)
  <2>1. CASE \E k \in DOMAIN decoder.result : decoder.result[k][1] = p
    BY <1>2, <2>1 DEF SeenBy
  <2>2. CASE decoder.chain # <<>> /\ decoder.chain[1] = p
    BY <1>4, <1>5, <2>2
  <2> QED
    BY <1>5, <2>1, <2>2 DEF SeenBy
<1> QED
  BY <1>4, <1>5

LEMMA SecondPassOutcome ==
  ASSUME WriterInv, ReaderInv, at = "rest", tag, pass = 2,
         NEW d, d = SecondPass(decoder, View)
  PROVE  Outcomes(d)
<1>0. ChainInv /\ CountInv /\ ResultInv /\ InChunk /\ decoder \in DecoderType
  BY DEF ReaderInv, ReaderTypeOK, InChunk
<1>1. /\ chunk \in Chunks /\ slot \in Slots /\ chunk \in Nat /\ slot \in Nat
      /\ Visible(Watched, chunk, slot)
      /\ View.kind = head[<<Watched, chunk, slot>>].kind
      /\ View.more = head[<<Watched, chunk, slot>>].more
      /\ View.more => View.kind \in {"msg", "cont"}
      /\ View.id = <<chunk, slot>> /\ View.id \in Place
      /\ View.kind = "cont" => Promised
  BY ViewFacts DEF Chunks, Slots
<1>2. ~decoder.damaged /\ decoder.skipped \in Nat /\ decoder.undecodable \in Nat
      /\ decoder.chain \in Seq(Place)
  BY <1>0 DEF ChainInv, DecoderType
<1>3. /\ decoder.undecodable = 0 => decoder.skipped = 0
      /\ decoder.undecodable = 0 /\ Promised => decoder.chain # <<>>
  BY <1>0 DEF CountInv
<1>4. \A k \in DOMAIN decoder.result :
        decoder.result[k][1] # <<chunk, slot>>
  BY <1>0, ResultHeads
<1>5. CASE Unheeded(d)
  <2>1. /\ d = decoder /\ ~View.more /\ View.kind # "msg"
        /\ decoder.chain = <<>>
    BY <1>1, <1>5 DEF Unheeded
  <2> QED
    BY <1>0, <1>2, <1>3, <2>1 DEF Outcomes
<1>6. CASE Orphaned(d)
  <2>1. decoder.chain = <<>> /\ View.kind = "cont" /\ decoder.undecodable # 0
    BY <1>1, <1>3, <1>6 DEF Orphaned
  <2>2. PICK m \in Nat : d = [decoder EXCEPT !.skipped = m]
    <3>1. decoder.skipped + 1 \in Nat
      BY <1>2
    <3>2. d = [decoder EXCEPT !.skipped = decoder.skipped + 1]
      BY <1>6 DEF Orphaned, Skipped
    <3> QED
      BY <3>1, <3>2
  <2>3. /\ d \in DecoderType /\ d.sites = decoder.sites /\ ~d.damaged
        /\ d.chain = decoder.chain /\ d.result = decoder.result
        /\ d.undecodable = decoder.undecodable
    BY <1>0, <1>2, <2>2 DEF DecoderType
  <2> QED
    BY <2>1, <2>3 DEF Outcomes, SeenBy
<1>7. CASE Undefined(d)
  <2>1. decoder.chain = <<>> /\ View.site \notin decoder.sites
    BY <1>7 DEF Undefined
  <2>2. PICK m \in Nat : m # 0 /\ d = [decoder EXCEPT !.undecodable = m]
    <3>1. decoder.undecodable + 1 \in Nat /\ decoder.undecodable + 1 # 0
      BY <1>2
    <3>2. d = [decoder EXCEPT !.undecodable = decoder.undecodable + 1]
      BY <1>7 DEF Undefined, Undecodable
    <3> QED
      BY <3>1, <3>2
  <2>3. /\ d \in DecoderType /\ d.sites = decoder.sites /\ ~d.damaged
        /\ d.chain = decoder.chain /\ d.result = decoder.result
        /\ d.undecodable = m
    BY <1>0, <1>2, <2>2 DEF DecoderType
  <2> QED
    BY <2>1, <2>2, <2>3 DEF Outcomes, SeenBy, Undefined
<1>8. CASE Opened(d)
  <2>1. IsMessage(Watched, chunk, slot) /\ View.more /\ decoder.chain = <<>>
    BY <1>1, <1>8 DEF Opened, IsMessage
  <2>2. PICK r : r = <<<<chunk, slot>>>>
    OBVIOUS
  <2>3. /\ r \in Seq(Place) /\ r[1] = <<chunk, slot>> /\ r # <<>>
        /\ Run(r, chunk, slot) /\ LastSlot(slot, r) = slot
    BY <1>1, <2>1, <2>2, OneRun DEF Run, RunOf
  <2>4. d = [decoder EXCEPT !.chain = r, !.damaged = FALSE]
    BY <1>1, <1>8, <2>2 DEF Opened
  <2>5. /\ d \in DecoderType /\ d.sites = decoder.sites /\ ~d.damaged
        /\ d.chain = r /\ d.result = decoder.result
        /\ d.undecodable = decoder.undecodable
        /\ d.skipped = decoder.skipped
    BY <1>0, <2>3, <2>4 DEF DecoderType
  <2>6. Pends(d)
    BY <1>1, <1>4, <2>1, <2>3, <2>5 DEF Pends
  <2>7. SeenBy(d, <<chunk, slot>>)
        /\ \A p : SeenBy(decoder, p) => SeenBy(d, p)
    BY <2>1, <2>3, <2>5 DEF SeenBy
  <2> QED
    BY <1>3, <2>3, <2>5, <2>6, <2>7 DEF Outcomes
<1>9. CASE Whole(d)
  <2>1. /\ IsMessage(Watched, chunk, slot) /\ ~View.more
        /\ decoder.chain = <<>> /\ View.kind = "msg"
    BY <1>1, <1>9 DEF Whole, IsMessage
  <2>2. PICK r : r = <<<<chunk, slot>>>>
    OBVIOUS
  <2>3. /\ r \in Seq(Place) /\ r[1] = <<chunk, slot>> /\ r # <<>>
        /\ Run(r, chunk, slot) /\ LastSlot(slot, r) = slot
    BY <1>1, <2>1, <2>2, OneRun DEF Run, RunOf
  <2>4. PICK e : e = Append(decoder.result, r)
    OBVIOUS
  <2>5. d = [decoder EXCEPT !.result = e] /\ e \in Seq(Seq(Place))
    BY <1>0, <1>1, <1>9, <2>2, <2>3, <2>4, AppendedResult DEF Whole
  <2>6. /\ d \in DecoderType /\ d.sites = decoder.sites /\ ~d.damaged
        /\ d.chain = <<>> /\ d.result = Append(decoder.result, r)
        /\ d.undecodable = decoder.undecodable
        /\ d.skipped = decoder.skipped
    BY <1>0, <1>2, <2>1, <2>4, <2>5 DEF DecoderType
  <2>7. Publishes(d, r, slot)
    BY <1>1, <1>4, <2>1, <2>3, <2>6 DEF Publishes
  <2>8. SeenBy(d, <<chunk, slot>>)
        /\ \A p : SeenBy(decoder, p) => SeenBy(d, p)
    BY <2>1, <2>3, <2>6, PublishedSeen
  <2> QED
    BY <1>1, <1>3, <2>1, <2>3, <2>6, <2>7, <2>8 DEF Outcomes
<1>10. ASSUME decoder.chain # <<>>, View.kind = "cont"
       PROVE  \E i \in Slots, q \in Seq(Place) :
                /\ q = Append(decoder.chain, View.id)
                /\ q[1] = decoder.chain[1] /\ q # <<>>
                /\ Run(q, chunk, i) /\ LastSlot(i, q) = slot /\ i <= slot
                /\ \A k \in DOMAIN decoder.result :
                     decoder.result[k][1] # q[1]
  <2>1. PICK i \in Slots : /\ Run(decoder.chain, chunk, i)
                           /\ LastSlot(i, decoder.chain) = slot - 1
    BY <1>0, <1>10 DEF ChainInv
  <2>2. head[<<Watched, chunk, slot - 1>>].more
    BY <1>1, <1>10 DEF Promised
  <2>3. PICK q : q = Append(decoder.chain, <<chunk, slot>>)
    OBVIOUS
  <2>4. /\ q \in Seq(Place) /\ q[1] = decoder.chain[1] /\ q # <<>>
        /\ Run(q, chunk, i) /\ LastSlot(i, q) = slot
    <3>1. PICK r, c, s : r = decoder.chain /\ c = chunk /\ s = slot
      OBVIOUS
    <3>2. c \in Nat /\ s \in Slots /\ Longer(q, r, c, i, s)
      BY <1>1, <1>2, <2>1, <2>2, <2>3, <3>1 DEF Longer
    <3>3. /\ q \in Seq(Place) /\ q[1] = r[1] /\ q # <<>>
          /\ Run(q, c, i) /\ LastSlot(i, q) = s
      BY <3>2, LongerRun
    <3>4. r[1] = decoder.chain[1]
      BY <3>1
    <3>5. Run(q, chunk, i)
      BY <3>1, <3>3
    <3>6. LastSlot(i, q) = slot
      BY <3>1, <3>3
    <3> QED
      BY <3>3, <3>4, <3>5, <3>6
  <2>5. i <= slot
    <3>1. Len(q) \in Nat \ {0} /\ i \in Nat
      BY <2>4, EmptySeq DEF Slots
    <3> QED
      BY <1>1, <2>4, <3>1 DEF LastSlot
  <2>6. \A k \in DOMAIN decoder.result :
          decoder.result[k][1] # q[1]
    BY <1>0, <1>10, <2>4 DEF ResultInv
  <2> QED
    BY <1>1, <2>3, <2>4, <2>5, <2>6
<1>11. CASE Joined(d)
  <2>1. decoder.chain # <<>> /\ View.kind = "cont" /\ View.more
    BY <1>11 DEF Joined
  <2>2. PICK i \in Slots, q \in Seq(Place) :
                /\ q = Append(decoder.chain, View.id)
                /\ q[1] = decoder.chain[1] /\ q # <<>>
                /\ Run(q, chunk, i) /\ LastSlot(i, q) = slot /\ i <= slot
                /\ \A k \in DOMAIN decoder.result :
                     decoder.result[k][1] # q[1]
    BY <1>10, <2>1
  <2>3. d = [decoder EXCEPT !.damaged = FALSE, !.chain = q]
    BY <1>11, <2>2 DEF Joined
  <2>4. /\ d \in DecoderType /\ d.sites = decoder.sites /\ ~d.damaged
        /\ d.chain = q /\ d.result = decoder.result
        /\ d.undecodable = decoder.undecodable
        /\ d.skipped = decoder.skipped
    BY <1>0, <2>3 DEF DecoderType
  <2>5. Pends(d)
    BY <2>1, <2>2, <2>4 DEF Pends
  <2>6. \A p : SeenBy(decoder, p) => SeenBy(d, p)
    BY <2>2, <2>4 DEF SeenBy
  <2> QED
    BY <1>3, <2>1, <2>2, <2>4, <2>5, <2>6 DEF Outcomes
<1>12. CASE Completed(d)
  <2>1. decoder.chain # <<>> /\ View.kind = "cont" /\ ~View.more
    BY <1>12 DEF Completed
  <2>2. PICK i \in Slots, q \in Seq(Place) :
                /\ q = Append(decoder.chain, View.id)
                /\ q[1] = decoder.chain[1] /\ q # <<>>
                /\ Run(q, chunk, i) /\ LastSlot(i, q) = slot /\ i <= slot
                /\ \A k \in DOMAIN decoder.result :
                     decoder.result[k][1] # q[1]
    BY <1>10, <2>1
  <2>3. PICK e : e = Append(decoder.result, q)
    OBVIOUS
  <2>4. /\ d = [decoder EXCEPT !.result = e, !.chain = <<>>, !.damaged = FALSE]
        /\ e \in Seq(Seq(Place)) /\ <<>> \in Seq(Place)
    BY <1>0, <1>12, <2>2, <2>3, AppendedResult, EmptySeq DEF Completed
  <2>5. /\ d \in DecoderType /\ d.sites = decoder.sites /\ ~d.damaged
        /\ d.chain = <<>> /\ d.result = Append(decoder.result, q)
        /\ d.undecodable = decoder.undecodable
        /\ d.skipped = decoder.skipped
    BY <1>0, <2>3, <2>4 DEF DecoderType
  <2>6. Publishes(d, q, i)
    BY <2>1, <2>2, <2>5 DEF Publishes
  <2>7. \A p : SeenBy(decoder, p) => SeenBy(d, p)
    BY <2>2, <2>5, PublishedSeen
  <2> QED
    BY <1>3, <2>1, <2>5, <2>6, <2>7 DEF Outcomes
<1> QED
  BY <1>5, <1>6, <1>7, <1>8, <1>9, <1>11, <1>12, SecondPassIs

-----------------------------------------------------------------------------
(* The step that reads a record.                                           *)

Delivers(d) ==
  /\ at = "rest" /\ tag
  /\ at' = "tag" /\ slot' = slot + 1 /\ decoder' = d
  /\ pass' = pass /\ chunk' = chunk /\ tag' = tag /\ before' = before
  /\ UNCHANGED vars
  /\ Outcomes(d)

(* The place of the record is passed, and no other.                        *)
LEMMA DeliveryMoves ==
  ASSUME WriterInv, ReaderInv, NEW d, Delivers(d)
  PROVE  /\ InChunk /\ InChunk' /\ slot' - 1 = slot /\ slot' > 1
         /\ Promised' <=> View.more
         /\ \A c \in Chunks, i \in Slots :
              Passed(c, i)' <=> Passed(c, i) \/ (c = chunk /\ i = slot)
<1>1. /\ chunk \in Chunks /\ slot \in Slots
      /\ View.more = head[<<Watched, chunk, slot>>].more
  BY ViewFacts DEF Delivers
<1>2. chunk \in Nat /\ slot \in Nat \ {0} /\ chunk' = chunk
      /\ \A c \in Chunks : c \in Nat
      /\ \A i \in Slots : i \in Nat
  BY <1>1 DEF Chunks, Slots, Delivers
<1>3. InChunk /\ InChunk' /\ slot' - 1 = slot /\ slot' > 1
  BY <1>2 DEF InChunk, Delivers
<1>4. head' = head
  BY StillMemory DEF Delivers
<1>5. Promised' <=> View.more
  BY <1>1, <1>2, <1>3, <1>4 DEF Promised
<1>6. ASSUME NEW c \in Chunks, NEW i \in Slots
      PROVE  Passed(c, i)' <=> Passed(c, i) \/ (c = chunk /\ i = slot)
  <2>1. i < slot + 1 <=> i < slot \/ i = slot
    BY <1>2
  <2>2. slot' = slot + 1
    BY DEF Delivers
  <2> QED
    BY <1>2, <1>3, <2>1, <2>2 DEF Passed
<1> QED
  BY <1>3, <1>5, <1>6

LEMMA DeliveryWalks ==
  ASSUME WriterInv, ReaderInv, NEW d, Delivers(d)
  PROVE  ReaderTypeOK' /\ WalkInv' /\ ChainInv' /\ CountInv'
<1>0. ReaderTypeOK /\ WalkInv /\ ChainInv /\ CountInv
  BY DEF ReaderInv
<1>1. /\ at = "rest" /\ tag /\ at' = "tag" /\ slot' = slot + 1
      /\ decoder' = d /\ pass' = pass /\ chunk' = chunk /\ tag' = tag
      /\ before' = before /\ Outcomes(d)
  BY DEF Delivers
<1>2. /\ InChunk /\ InChunk' /\ slot' - 1 = slot /\ slot' > 1
      /\ Promised' <=> View.more
  BY DeliveryMoves
<1>3. /\ d \in DecoderType /\ ~d.damaged
      /\ d.chain # <<>> => Pends(d)
      /\ d.undecodable = 0 =>
           d.skipped = 0 /\ (pass = 2 /\ View.more => d.chain # <<>>)
      /\ pass = 1 => d.chain = <<>> /\ d.result = <<>> /\ d.undecodable = 0
  BY <1>1 DEF Outcomes
<1>4. ReaderTypeOK'
  <2>1. slot + 1 \in Nat \ {0}
    BY <1>0 DEF ReaderTypeOK
  <2> QED
    BY <1>0, <1>1, <1>3, <2>1 DEF ReaderTypeOK
<1>5. WalkInv'
  <2>1. /\ chunk \in Chunks /\ slot \in Slots
        /\ Visible(Watched, chunk, slot)
        /\ \A j \in 1..(slot - 1) :
             j \in Slots /\ Visible(Watched, chunk, j)
    BY <1>0, <1>1 DEF WalkInv, InChunk
  <2>2. \A j \in 1..slot : j \in 1..(slot - 1) \/ j = slot
    BY <1>0 DEF ReaderTypeOK
  <2>3. \A j \in 1..(slot' - 1) : j \in Slots /\ Visible(Watched, chunk, j)
    BY <1>2, <2>1, <2>2
  <2>4. \A c, i : Visible(Watched, c, i)' <=> Visible(Watched, c, i)
    BY StillMemory DEF Delivers
  <2> QED
    BY <1>1, <2>1, <2>3, <2>4 DEF WalkInv
<1>6. ChainInv'
  <2>1. ASSUME d.chain # <<>>
        PROVE  /\ Promised'
               /\ \E i \in Slots : /\ Run(d.chain, chunk, i)'
                                   /\ LastSlot(i, d.chain) = slot' - 1
    <3>1. PICK i \in Slots : Run(d.chain, chunk, i) /\ LastSlot(i, d.chain) = slot
      BY <1>3, <2>1 DEF Pends
    <3>2. Promised'
      BY <1>2, <1>3, <2>1 DEF Pends
    <3>3. PICK r, c : r = d.chain /\ c = chunk
      OBVIOUS
    <3>4. Run(r, c, i)' <=> Run(r, c, i)
      BY StillMemory DEF Delivers
    <3> QED
      BY <1>1, <1>2, <3>1, <3>2, <3>3, <3>4 DEF Run, RunOf
  <2> QED
    BY <1>1, <1>2, <1>3, <2>1 DEF ChainInv, Run, RunOf, LastSlot
<1>7. CountInv'
  BY <1>1, <1>2, <1>3 DEF CountInv
<1> QED
  BY <1>4, <1>5, <1>6, <1>7

(* A result as ResultInv has it.                                           *)
Published(r) ==
  \E c \in Chunks, i \in Slots :
    /\ Run(r, c, i)
    /\ ~head[<<Watched, c, LastSlot(i, r)>>].more
    /\ Passed(c, i)

LEMMA DeliveryPublishes ==
  ASSUME WriterInv, ReaderInv, NEW d, Delivers(d)
  PROVE  ResultInv'
<1>0. ReaderTypeOK /\ ResultInv
  BY DEF ReaderInv
<1>1. /\ decoder' = d /\ Outcomes(d) /\ head' = head
      /\ chunk \in Chunks /\ slot \in Slots
      /\ View.more = head[<<Watched, chunk, slot>>].more
  BY ViewFacts, StillMemory DEF Delivers
<1>2. \A r, c, i : Run(r, c, i)' <=> Run(r, c, i)
  BY StillMemory DEF Delivers
<1>3. \A c \in Chunks, i \in Slots :
        Passed(c, i)' <=> Passed(c, i) \/ (c = chunk /\ i = slot)
  BY DeliveryMoves
<1>4. ASSUME NEW k \in DOMAIN decoder.result
      PROVE  Published(decoder.result[k])
  BY <1>0 DEF ResultInv, Published
<1>5. ASSUME NEW r, Published(r)
      PROVE  Published(r)'
  <2>1. PICK c \in Chunks, i \in Slots :
          /\ Run(r, c, i) /\ Passed(c, i)
          /\ ~head[<<Watched, c, LastSlot(i, r)>>].more
    BY <1>5 DEF Published
  <2>2. Run(r, c, i)' /\ Passed(c, i)'
        /\ ~head'[<<Watched, c, LastSlot(i, r)>>].more
    BY <1>1, <1>2, <1>3, <2>1
  <2> QED
    BY <2>2 DEF Published, LastSlot
<1>6. CASE d.result = decoder.result
  <2>1. \A k \in DOMAIN d.result : Published(d.result[k])'
    <3> SUFFICES ASSUME NEW k \in DOMAIN d.result
                 PROVE  Published(d.result[k])'
      OBVIOUS
    <3>1. PICK r : r = d.result[k]
      OBVIOUS
    <3>2. Published(r)'
      BY <1>4, <1>5, <1>6, <3>1
    <3> QED
      BY <3>1, <3>2
  <2>2. d.chain # <<>> =>
          \A k \in DOMAIN d.result : d.result[k][1] # d.chain[1]
    BY <1>1, <1>6 DEF Outcomes, Pends
  <2> QED
    BY <1>0, <1>1, <1>6, <2>1, <2>2 DEF ResultInv, Published, LastSlot
<1>7. ASSUME NEW r \in Seq(Place), NEW i \in Slots, Publishes(d, r, i)
      PROVE  ResultInv'
  <2>0. PICK n : n = Len(decoder.result)
    OBVIOUS
  <2>1. /\ n \in Nat /\ DOMAIN decoder.result = 1..n
        /\ DOMAIN d.result = 1..(n + 1)
        /\ \A k \in 1..n : d.result[k] = decoder.result[k]
        /\ d.result[n + 1] = r
    BY <1>0, <1>7, <2>0, AppendedResult DEF Publishes, ReaderTypeOK
  <2>2. Published(r)'
    <3>1. PICK c : c = chunk
      OBVIOUS
    <3>2. /\ c \in Chunks /\ Run(r, c, i) /\ LastSlot(i, r) = slot
          /\ ~head[<<Watched, c, LastSlot(i, r)>>].more
          /\ c = chunk /\ i <= slot
      BY <1>1, <1>7, <3>1 DEF Publishes
    <3>3. Passed(c, i)'
      <4>1. i < slot \/ i = slot
        BY <1>1, <3>2 DEF Slots
      <4>2. InChunk
        BY DeliveryMoves
      <4> QED
        BY <1>3, <3>2, <4>1, <4>2 DEF Passed
    <3>4. Run(r, c, i)' /\ ~head'[<<Watched, c, LastSlot(i, r)>>].more
      BY <1>1, <1>2, <3>2
    <3> QED
      BY <3>2, <3>3, <3>4 DEF Published, LastSlot
  <2>3. \A k \in 1..(n + 1) : k \in 1..n \/ k = n + 1
    BY <2>1
  <2>4. \A k \in DOMAIN d.result : Published(d.result[k])'
    <3> SUFFICES ASSUME NEW k \in DOMAIN d.result
                 PROVE  Published(d.result[k])'
      OBVIOUS
    <3>1. PICK q : q = d.result[k]
      OBVIOUS
    <3>2. Published(q)'
      BY <1>4, <1>5, <2>1, <2>2, <2>3, <3>1
    <3> QED
      BY <3>1, <3>2
  <2>5. \A k, m \in DOMAIN d.result :
          d.result[k][1] = d.result[m][1] => k = m
    BY <1>0, <1>7, <2>1, <2>3 DEF ResultInv, Publishes
  <2>6. d.chain = <<>>
    BY <1>7 DEF Publishes
  <2> QED
    BY <1>1, <2>4, <2>5, <2>6 DEF ResultInv, Published, LastSlot
<1> QED
  BY <1>1, <1>6, <1>7 DEF Outcomes

LEMMA DeliveryTracks ==
  ASSUME WriterInv, ReaderInv, NEW d, Delivers(d)
  PROVE  BeforeInv'
<1>0. ReaderTypeOK /\ BeforeInv
  BY DEF ReaderInv
<1>1. /\ at' = "tag" /\ decoder' = d /\ pass' = pass /\ before' = before
      /\ Outcomes(d) /\ UNCHANGED vars
  BY DEF Delivers
<1>2. /\ View.kind = head[<<Watched, chunk, slot>>].kind
      /\ View.site = payload[<<Watched, chunk, slot>>].site
  BY ViewFacts DEF Delivers
<1>3. \A c \in Chunks, i \in Slots :
        Passed(c, i)' <=> Passed(c, i) \/ (c = chunk /\ i = slot)
  BY DeliveryMoves
<1>4. \A c, i : Visible(Watched, c, i) => Old(c, i)'
  BY <1>1, StillMemory DEF Old
<1>5. \A c, i : Seen(c, i)' <=> SeenBy(d, <<c, i>>)
  BY <1>1 DEF Seen, SeenBy
<1>6. ASSUME NEW c \in Chunks, NEW b \in Chunks,
             NEW i \in Slots, NEW j \in Slots, Tracked(c, i, b, j)
      PROVE  Tracked(c, i, b, j)'
  <2>1. PICK site : site = payload[<<Watched, c, i>>].site
    OBVIOUS
  <2>2. /\ Visible(Watched, c, i) /\ IsMessage(Watched, c, i)
        /\ Visible(Watched, b, j) /\ head[<<Watched, b, j>>].kind = "def"
        /\ payload[<<Watched, b, j>>].site = site
        /\ pass = 2 \/ Passed(b, j) => site \in decoder.sites
        /\ pass = 2 /\ Passed(c, i) => Seen(c, i)
    BY <1>6, <2>1 DEF Tracked, Old
  <2>3. /\ Old(c, i)' /\ Old(b, j)' /\ head' = head /\ payload' = payload
        /\ IsMessage(Watched, c, i)'
    BY <1>1, <1>4, <2>2, StillMemory
  <2>4. pass' = 2 \/ Passed(b, j)' => site \in decoder'.sites
    <3>1. CASE pass = 2 \/ Passed(b, j)
      BY <1>1, <2>2, <3>1 DEF Outcomes
    <3>2. CASE pass # 2 /\ b = chunk /\ j = slot
      <4>1. View.kind = "def" /\ View.site = site /\ pass = 1
        BY <1>0, <1>2, <2>2, <3>2 DEF ReaderTypeOK
      <4> QED
        BY <1>1, <4>1 DEF Outcomes
    <3> QED
      BY <1>1, <1>3, <3>1, <3>2
  <2>5. pass' = 2 /\ Passed(c, i)' => Seen(c, i)'
    <3>1. CASE pass = 2 /\ Passed(c, i)
      <4>1. SeenBy(decoder, <<c, i>>)
        BY <2>2, <3>1 DEF Seen
      <4> QED
        BY <1>1, <1>5, <4>1 DEF Outcomes
    <3>2. CASE pass = 2 /\ c = chunk /\ i = slot
      <4>1. View.kind = "msg" /\ View.site \in decoder.sites
        BY <1>2, <2>1, <2>2, <3>2 DEF IsMessage
      <4>2. SeenBy(d, <<chunk, slot>>)
        BY <1>1, <3>2, <4>1 DEF Outcomes
      <4> QED
        BY <1>5, <3>2, <4>2
    <3> QED
      BY <1>1, <1>3, <3>1, <3>2
  <2> QED
    BY <2>1, <2>2, <2>3, <2>4, <2>5 DEF Tracked
<1> QED
  BY <1>0, <1>1, <1>6, BeforeKept

LEMMA DeliverStep ==
  ASSUME WriterInv, ReaderInv, ReadRest, tag, UNCHANGED vars
  PROVE  ReaderInv'
<1>1. /\ at = "rest" /\ at' = "tag" /\ slot' = slot + 1
      /\ decoder' = Deliver(decoder) /\ pass' = pass /\ chunk' = chunk
      /\ tag' = tag /\ before' = before
  BY DEF ReadRest
<1>2. PICK d : d = Deliver(decoder)
  OBVIOUS
<1>3. pass \in {1, 2}
  BY DEF ReaderInv, ReaderTypeOK
<1>4. ASSUME pass = 1
      PROVE  Outcomes(d)
  <2>1. d = FirstPass(decoder, View)
    BY <1>2, <1>4 DEF Deliver, View
  <2> QED
    BY <1>1, <1>4, <2>1, FirstPassOutcome
<1>5. ASSUME pass = 2
      PROVE  Outcomes(d)
  <2>1. d = SecondPass(decoder, View)
    BY <1>2, <1>5 DEF Deliver, View
  <2> QED
    BY <1>1, <1>5, <2>1, SecondPassOutcome
<1>6. Delivers(d)
  BY <1>1, <1>2, <1>3, <1>4, <1>5 DEF Delivers
<1> QED
  BY <1>6, DeliveryWalks, DeliveryPublishes, DeliveryTracks DEF ReaderInv

-----------------------------------------------------------------------------
(* Every step of the two together.                                         *)

LEMMA ReaderKeeps ==
  ASSUME WriterInv, ReaderInv, BeginDecode \/ ReaderStep, UNCHANGED vars
  PROVE  ReaderInv'
<1>1. CASE BeginDecode
  BY <1>1, BeginDecodeStep
<1>2. CASE ReadChunkHeader
  BY <1>2, ReadChunkHeaderStep
<1>3. CASE ReadTag
  BY <1>3, ReadTagStep
<1>4. CASE ReadRest
  <2>1. CASE tag
    BY <1>4, <2>1, DeliverStep
  <2>2. CASE ~tag
    <3>1. at = "rest" /\ (NextChunk(TRUE) \/ NextChunk(FALSE))
      BY <1>4, <2>2 DEF ReadRest
    <3> QED
      BY <2>2, <3>1, UntaggedStep
  <2> QED
    BY <2>1, <2>2
<1>5. CASE EndVisit
  BY <1>5, EndVisitStep
<1> QED
  BY <1>1, <1>2, <1>3, <1>4, <1>5 DEF ReaderStep

LEMMA InitLive == LiveInit => LiveInv
<1> SUFFICES ASSUME LiveInit
             PROVE  LiveInv
  OBVIOUS
<1>1. /\ at = "off" /\ pass = 1 /\ chunk = 1 /\ slot = 1 /\ tag = FALSE
      /\ decoder = EmptyDecoder /\ before = {}
  BY DEF LiveInit
<1>2. WriterInv
  BY InitWriter DEF LiveInit
<1>3. /\ decoder.chain = <<>> /\ decoder.result = <<>> /\ ~decoder.damaged
      /\ decoder.skipped = 0 /\ decoder.undecodable = 0
      /\ ~InChunk /\ ~Promised
  BY <1>1 DEF EmptyDecoder, InChunk, Promised
<1>4. ReaderTypeOK
  <2>1. <<>> \in Seq(Place) /\ <<>> \in Seq(Seq(Place))
    OBVIOUS
  <2>2. EmptyDecoder \in DecoderType
    BY <2>1 DEF EmptyDecoder, DecoderType
  <2>3. tag \in BOOLEAN
    BY <1>1, Zenon
  <2> QED
    BY <1>1, <2>2, <2>3 DEF ReaderTypeOK
<1>5. WalkInv /\ ChainInv /\ CountInv /\ BeforeInv
  BY <1>1, <1>3 DEF WalkInv, ChainInv, CountInv, BeforeInv
<1>6. ResultInv
  BY <1>3 DEF ResultInv
<1> QED
  BY <1>2, <1>4, <1>5, <1>6 DEF LiveInv, ReaderInv

LEMMA LiveStep == LiveInv /\ [LiveNext]_liveVars => LiveInv'
<1> SUFFICES ASSUME WriterInv, ReaderInv, [LiveNext]_liveVars
             PROVE  WriterInv' /\ ReaderInv'
  BY DEF LiveInv
<1>1. CASE [Next]_vars /\ UNCHANGED readerVars
  BY <1>1, WriterStep, ProducerStep
<1>2. CASE (BeginDecode \/ ReaderStep) /\ UNCHANGED vars
  BY <1>2, WriterStep, ReaderKeeps
<1> QED
  BY <1>1, <1>2 DEF LiveNext, liveVars

(* The invariant of the producer and of a reader it does not know of.      *)
THEOREM LiveInvariance == LiveSpec => []LiveInv
BY InitLive, LiveStep, PTL DEF LiveSpec

(* What a reader decodes in place is real, however its loads fall between  *)
(* the stores of any number of threads: whole messages, each once, none of *)
(* them broken (chunk.hpp, "commit last"; reader.hpp, decodeAll).          *)
THEOREM NeverPartial == LiveSpec => []LiveNeverPartial
<1>1. LiveInv => LiveNeverPartial
  <2> SUFFICES ASSUME WriterInv, ReaderInv
               PROVE  LiveNeverPartial
    BY DEF LiveInv
  <2>0. ReaderTypeOK /\ ChainInv /\ ResultInv /\ CountInv
    BY DEF ReaderInv
  <2>1. /\ decoder.undecodable = 0 => decoder.skipped = 0
        /\ ~decoder.damaged
        /\ at = "done" => decoder.chain = <<>>
    BY <2>0 DEF CountInv, ChainInv, InChunk
  <2>2. decoder.result \in Seq(Seq(Place))
    BY <2>0 DEF ReaderTypeOK, DecoderType
  <2>3. ASSUME NEW k \in DOMAIN decoder.result
        PROVE  DecodedWhole(Watched, decoder.result[k])
    <3>1. PICK r : r = decoder.result[k]
      OBVIOUS
    <3>2. r \in Seq(Place)
      BY <2>2, <3>1, ElementOfSeq, LenProperties
    <3>3. PICK c \in Chunks, i \in Slots :
            Run(r, c, i) /\ ~head[<<Watched, c, LastSlot(i, r)>>].more
      BY <2>0, <3>1 DEF ResultInv
    <3> QED
      BY <3>1, <3>2, <3>3, RunIsWhole, WatchedAssumption DEF Run
  <2>4. Cardinality(Results) = Len(decoder.result)
    <3>1. \A k, m \in DOMAIN decoder.result :
            decoder.result[k] = decoder.result[m] => k = m
      BY <2>0 DEF ResultInv
    <3> QED
      BY <2>2, <3>1, AllDifferent DEF Results
  <2> QED
    BY <2>1, <2>3, <2>4 DEF LiveNeverPartial, Results
<1> QED
  BY <1>1, LiveInvariance, PTL

(* Everything that could be read when decodeAll began is in its result,    *)
(* whatever is stored meanwhile (reader.hpp, decodeAll's two visits).      *)
THEOREM SeesWhatWasThere == LiveSpec => []LiveSeesWhatWasThere
<1>1. LiveInv => LiveSeesWhatWasThere
  <2> SUFFICES ASSUME WriterInv, ReaderInv, at = "done", NEW n \in before
               PROVE  n \in {CallOf(Watched, r) : r \in Results}
    BY DEF LiveInv, LiveSeesWhatWasThere
  <2>0. ReaderTypeOK /\ WalkInv /\ ChainInv /\ BeforeInv
    BY DEF ReaderInv
  <2>1. pass = 2 /\ chunk > ChunkCount /\ decoder.chain = <<>>
    BY <2>0 DEF WalkInv, ChainInv, InChunk
  <2>2. PICK c \in Chunks, i \in Slots, d \in Chunks, j \in Slots :
          payload[<<Watched, c, i>>].call = n /\ Tracked(c, i, d, j)
    BY <2>0 DEF BeforeInv
  <2>3. Passed(c, i)
    BY <2>0, <2>1, SizesAssumption DEF Passed, Chunks, ReaderTypeOK
  <2>4. SeenBy(decoder, <<c, i>>)
    BY <2>1, <2>2, <2>3 DEF Tracked, Seen
  <2>5. PICK k \in DOMAIN decoder.result : decoder.result[k][1] = <<c, i>>
    BY <2>1, <2>4 DEF SeenBy
  <2>6. CallOf(Watched, decoder.result[k]) = n
    BY <2>2, <2>5 DEF CallOf
  <2> QED
    BY <2>6 DEF Results
<1> QED
  BY <1>1, LiveInvariance, PTL

=============================================================================
