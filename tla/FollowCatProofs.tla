--------------------------- MODULE FollowCatProofs --------------------------
(***************************************************************************)
(* Theorems about sub0log-cat: whatever is written, renamed, copied and    *)
(* removed around it, however many scans it makes and whatever it was      *)
(* asked, it prints no record twice while it follows, leaves no wanted     *)
(* record of a scan out, and its exit code tells what happened.            *)
(***************************************************************************)
EXTENDS FollowCatInv, CollectionLemmas

-----------------------------------------------------------------------------
(* Records and their order.                                                *)

RecordType ==
  [seg : Segments, off : Nat, pid : Nat, generation : Nat, thread : Nat,
   mono : Nat, aligned : Int]

LEMMA HeaderFacts ==
  ASSUME NEW s \in Segments
  PROVE  /\ Headers[s].pid \in Nat /\ Headers[s].generation \in Nat
         /\ Headers[s].mono \in Nat /\ Headers[s].wall \in Nat
BY HeadersAssumption DEF Header

LEMMA RecordFacts ==
  ASSUME NEW s \in Segments, NEW o \in Offsets(s)
  PROVE  /\ MergedRecord(s, o) \in Records
         /\ MergedRecord(s, o).seg = s /\ MergedRecord(s, o).off = o
         /\ MergedRecord(s, o).pid = Headers[s].pid
         /\ MergedRecord(s, o).generation = Headers[s].generation
         /\ MergedRecord(s, o).thread = Messages[s][o].thread
         /\ MergedRecord(s, o).mono = Messages[s][o].mono
         /\ MergedRecord(s, o).aligned = Aligned(Headers[s], Messages[s][o].mono)
BY DEF MergedRecord, Records

LEMMA AlignedType ==
  ASSUME NEW s \in Segments, NEW m \in Nat
  PROVE  Aligned(Headers[s], m) \in Int
<1>1. PICK w, a : w = Headers[s].wall /\ a = Headers[s].mono
  OBVIOUS
<1>2. w \in Nat /\ a \in Nat
  BY <1>1, HeaderFacts
<1>3. PICK v : v = w + (m - a)
  OBVIOUS
<1>4. v \in Int /\ Word \in Nat \ {0}
  BY <1>2, <1>3, MessagesAssumption
<1>5. v % Word \in Int
  BY <1>4
<1> QED
  BY <1>1, <1>2, <1>3, <1>5 DEF Aligned

LEMMA RecordIs ==
  ASSUME NEW r \in Records
  PROVE  /\ \E s \in Segments : \E o \in Offsets(s) : r = MergedRecord(s, o)
         /\ r.seg \in Segments /\ r.off \in Offsets(r.seg)
         /\ r = MergedRecord(r.seg, r.off)
         /\ r \in RecordType
<1>1. PICK s \in Segments : \E o \in Offsets(s) : r = MergedRecord(s, o)
  BY DEF Records
<1>2. PICK o \in Offsets(s) : r = MergedRecord(s, o)
  BY <1>1
<1>3. r.seg = s /\ r.off = o
  BY <1>2, RecordFacts
<1>4. PICK m : m = Messages[s][o]
  OBVIOUS
<1>5. m.thread \in Nat /\ m.mono \in Nat /\ o \in Nat
  BY <1>4, MessagesAssumption
<1>6. PICK a : a = Aligned(Headers[s], m.mono)
  OBVIOUS
<1>7. a \in Int
  BY <1>5, <1>6, AlignedType
<1>8. r = [seg |-> s, off |-> o, pid |-> Headers[s].pid,
           generation |-> Headers[s].generation, thread |-> m.thread,
           mono |-> m.mono, aligned |-> a]
  BY <1>2, <1>4, <1>6 DEF MergedRecord
<1>9. r \in RecordType
  BY <1>5, <1>7, <1>8, HeaderFacts DEF RecordType
<1> QED
  BY <1>2, <1>3, <1>9

Pairs == {p \in Records \X Records : Precedes(p[1], p[2])}

LEMMA PairsAre ==
  ASSUME NEW x \in Records, NEW y \in Records
  PROVE  <<x, y>> \in Pairs <=> Precedes(x, y)
BY DEF Pairs

LEMMA PrecedesIsWeak == WeakOrder(Pairs, Records)
<1>1. ASSUME NEW x \in Records
      PROVE  ~Precedes(x, x)
  <2>1. x \in RecordType
    BY RecordIs
  <2> QED
    BY <2>1 DEF RecordType, Precedes
<1>2. ASSUME NEW x \in Records, NEW y \in Records, NEW z \in Records
      PROVE  /\ Precedes(x, y) /\ Precedes(y, z) => Precedes(x, z)
             /\ Precedes(x, z) => Precedes(x, y) \/ Precedes(y, z)
  <2>1. x \in RecordType /\ y \in RecordType /\ z \in RecordType
    BY RecordIs
  <2> QED
    BY <2>1 DEF RecordType, Precedes
<1> QED
  BY <1>1, <1>2, PairsAre DEF WeakOrder

PlaceFor(s, n, k) ==
  CHOOSE x \in 1..n :
    Cardinality({y \in 1..n : \/ Precedes(s[y], s[x])
                              \/ ~Precedes(s[x], s[y]) /\ y < x}) = k - 1

(* What the merge does to the order of what was collected.                 *)
LEMMA MergeSorts ==
  ASSUME NEW s \in Seq(Records), NEW r, r = StableSorted(s, Precedes)
  PROVE  /\ r \in Seq(Records)
         /\ \A x : Holds(r, x) <=> Holds(s, x)
         /\ \A j, k \in DOMAIN r : j < k => ~Precedes(r[k], r[j])
         /\ \A R : Rises(R, s) =>
              \A j, k \in DOMAIN r : j < k =>
                Precedes(r[j], r[k]) \/ <<r[j], r[k]>> \in R
<1>1. PICK n \in Nat : s \in [1..n -> Records]
  BY SeqDef
<1>2. DOMAIN s = 1..n /\ Cardinality(1..n) = n
  BY <1>1, FS_Interval
<1>3. ASSUME NEW x \in 1..n
      PROVE  EarlierTo(Pairs, s, n, x)
             = {y \in 1..n : \/ Precedes(s[y], s[x])
                             \/ ~Precedes(s[x], s[y]) /\ y < x}
  BY <1>1, PairsAre DEF Earlier, EarlierTo
<1>4. PICK q : q = [k \in 1..n |-> PlaceFor(s, n, k)]
  OBVIOUS
<1>5. r = Arranged(s, q, n)
  BY <1>2, <1>4 DEF StableSorted, Ordered, Arranged, PlaceFor
<1>6. ASSUME NEW k \in 1..n
      PROVE  q[k] \in 1..n /\ Cardinality(EarlierTo(Pairs, s, n, q[k])) = k - 1
  <2>1. PICK e \in 1..n : Cardinality(EarlierTo(Pairs, s, n, e)) = k - 1
    BY <1>1, PrecedesIsWeak, PlaceExists
  <2>2. /\ q[k] \in 1..n
        /\ Cardinality({y \in 1..n :
             \/ Precedes(s[y], s[q[k]])
             \/ ~Precedes(s[q[k]], s[y]) /\ y < q[k]}) = k - 1
    BY <1>3, <1>4, <2>1 DEF PlaceFor
  <2> QED
    BY <1>3, <2>2
<1>7. InPlace(Pairs, s, n, q)
  <2>1. q = [k \in 1..n |-> q[k]]
    BY <1>4
  <2>2. q \in [1..n -> 1..n]
    BY <1>6, <2>1
  <2> QED
    BY <1>6, <2>2 DEF InPlace
<1>8. /\ r \in [1..n -> Records]
      /\ \A x : Holds(r, x) <=> Holds(s, x)
      /\ \A j, k \in 1..n : j < k => <<r[k], r[j]>> \notin Pairs
      /\ \A R : Rises(R, s) =>
           \A j, k \in 1..n : j < k =>
             <<r[j], r[k]>> \in Pairs \/ <<r[j], r[k]>> \in R
  BY <1>1, <1>5, <1>7, PrecedesIsWeak, StablePlaces, StableSorts
<1>9. DOMAIN r = 1..n /\ r \in Seq(Records)
  BY <1>8, FunctionIsSeq
<1>10. ASSUME NEW j \in 1..n, NEW k \in 1..n, j < k
       PROVE  ~Precedes(r[k], r[j])
  BY <1>8, <1>10, PairsAre
<1>11. ASSUME NEW R, Rises(R, s), NEW j \in 1..n, NEW k \in 1..n, j < k
       PROVE  Precedes(r[j], r[k]) \/ <<r[j], r[k]>> \in R
  BY <1>8, <1>11, PairsAre
<1> QED
  BY <1>8, <1>9, <1>10, <1>11

ImageType == [seg : Segments, items : SUBSET Nat, torn : BOOLEAN]

(* Nothing but items of its segment.                                       *)
IsImage(m) == m \in ImageType /\ m.items \subseteq Items(m.seg)

LEMMA ImageFacts ==
  ASSUME NEW m, IsImage(m)
  PROVE  /\ m.seg \in Segments
         /\ m.items \ {0} \subseteq Offsets(m.seg)
         /\ IsFiniteSet(m.items) /\ IsFiniteSet(m.items \ {0})
         /\ m.items \ {0} \subseteq Int
<1>1. m.seg \in Segments /\ m.items \subseteq {0} \cup Offsets(m.seg)
  BY DEF IsImage, ImageType, Items
<1>2. IsFiniteSet(Offsets(m.seg)) /\ Offsets(m.seg) \subseteq Nat
  BY <1>1, MessagesAssumption
<1>3. m.items \ {0} \in SUBSET Offsets(m.seg)
  BY <1>1
<1>4. IsFiniteSet(m.items \ {0})
  BY <1>2, <1>3, FS_Subset
<1>5. IsFiniteSet({0}) /\ IsFiniteSet({0} \cup (m.items \ {0}))
  BY <1>4, FS_Singleton, FS_Union
<1>6. m.items \in SUBSET ({0} \cup (m.items \ {0}))
  OBVIOUS
<1>7. IsFiniteSet(m.items)
  BY <1>5, <1>6, FS_Subset
<1> QED
  BY <1>1, <1>2, <1>3, <1>4, <1>7

LEMMA OrderedIntegers ==
  ASSUME NEW S, S \subseteq Int, IsFiniteSet(S)
  PROVE  /\ Ordered(S, <) \in Seq(S)
         /\ \A x : Holds(Ordered(S, <), x) <=> x \in S
         /\ \A j, k \in DOMAIN Ordered(S, <) :
              j < k => Ordered(S, <)[j] < Ordered(S, <)[k]
<1>1. PICK q : q = Nths(S)
  OBVIOUS
<1>2. Ordered(S, <) = q
  <2>1. Ordered(S, <) = Nths(S)
    BY DEF Ordered, Nths, NthOf
  <2> QED
    BY <1>1, <2>1
<1>3. PICK n \in Nat : n = Cardinality(S)
  BY FS_CardinalityType
<1>4. /\ q \in [1..n -> S]
      /\ \A x \in S : \E k \in 1..n : q[k] = x
      /\ \A j, k \in 1..n : j < k => q[j] < q[k]
  <2>1. Lists(q, S)
    BY <1>1, IntegersInOrder
  <2> QED
    BY <1>3, <2>1 DEF Lists
<1>5. q \in Seq(S)
  BY <1>4, FunctionIsSeq
<1> QED
  BY <1>2, <1>4, <1>5 DEF Holds

(* Of two records of a segment that is in one image only, the one behind.  *)
Once(im, s) ==
  \A i, j \in DOMAIN im : im[i].seg = s /\ im[j].seg = s => i = j

Behind(im) ==
  {p \in Records \X Records :
     p[1].seg = p[2].seg /\ Once(im, p[1].seg) => p[1].off < p[2].off}

LEMMA BehindIs ==
  ASSUME NEW im, NEW x \in Records, NEW y \in Records
  PROVE  <<x, y>> \in Behind(im) <=>
           (x.seg = y.seg /\ Once(im, x.seg) => x.off < y.off)
BY DEF Behind

LEMMA CollectedIs ==
  ASSUME NEW m, IsImage(m)
  PROVE  /\ Collected(m) \in Seq(Records)
         /\ \A x : Holds(Collected(m), x)
                   => \E o \in m.items \ {0} : x = MergedRecord(m.seg, o)
         /\ 0 \in m.items =>
              \A o \in m.items \ {0} : Holds(Collected(m), MergedRecord(m.seg, o))
         /\ \A im : Rises(Behind(im), Collected(m))
<1>1. PICK S : S = m.items \ {0}
  OBVIOUS
<1>2. /\ S \subseteq Int /\ IsFiniteSet(S)
      /\ m.seg \in Segments /\ S \subseteq Offsets(m.seg)
  BY <1>1, ImageFacts
<1>3. PICK d : d = Decoded(m)
  OBVIOUS
<1>4. /\ d \in Seq(S)
      /\ 0 \in m.items => \A x \in S : Holds(d, x)
      /\ \A j, k \in DOMAIN d : j < k => d[j] < d[k]
  <2>1. CASE 0 \in m.items
    <3>1. d = Ordered(S, <)
      BY <1>1, <1>3, <2>1 DEF Decoded
    <3> QED
      BY <1>2, <3>1, OrderedIntegers
  <2>2. CASE 0 \notin m.items
    BY <1>3, <2>2 DEF Decoded
  <2> QED
    BY <2>1, <2>2
<1>5. PICK n \in Nat : d \in [1..n -> S]
  BY <1>4, SeqDef
<1>6. PICK c : c = Collected(m)
  OBVIOUS
<1>7. c = [k \in 1..n |-> MergedRecord(m.seg, d[k])]
  BY <1>3, <1>5, <1>6 DEF Collected
<1>8. ASSUME NEW k \in 1..n
      PROVE  d[k] \in S /\ c[k] = MergedRecord(m.seg, d[k]) /\ c[k] \in Records
  BY <1>2, <1>5, <1>7, RecordFacts
<1>9. c \in [1..n -> Records]
  <2>1. c = [k \in 1..n |-> c[k]]
    BY <1>7
  <2> QED
    BY <1>8, <2>1
<1>10. c \in Seq(Records)
  BY <1>9, FunctionIsSeq
<1>11. ASSUME NEW x, Holds(c, x)
       PROVE  \E o \in S : x = MergedRecord(m.seg, o)
  <2>1. PICK k \in 1..n : c[k] = x
    BY <1>9, <1>11 DEF Holds
  <2> QED
    BY <1>8, <2>1
<1>12. ASSUME 0 \in m.items, NEW o \in S
       PROVE  Holds(c, MergedRecord(m.seg, o))
  <2>1. Holds(d, o)
    BY <1>4, <1>12
  <2>2. PICK k \in 1..n : d[k] = o
    BY <1>5, <2>1 DEF Holds
  <2>3. k \in DOMAIN c /\ c[k] = MergedRecord(m.seg, o)
    BY <1>8, <1>9, <2>2
  <2> QED
    BY <2>3 DEF Holds
<1>13. ASSUME NEW im, NEW j \in 1..n, NEW k \in 1..n, j < k
       PROVE  <<c[j], c[k]>> \in Behind(im)
  <2>1. d[j] < d[k]
    BY <1>4, <1>5, <1>13
  <2>2. ASSUME NEW l \in 1..n
        PROVE  c[l].off = d[l]
    <3>1. PICK o \in S : o = d[l]
      BY <1>8
    <3>2. o \in Offsets(m.seg) /\ c[l] = MergedRecord(m.seg, o)
      BY <1>2, <1>8, <3>1
    <3> QED
      BY <1>2, <3>1, <3>2, RecordFacts
  <2>3. c[j] \in Records /\ c[k] \in Records
    BY <1>8
  <2>4. c[j].off < c[k].off
    BY <2>1, <2>2
  <2> QED
    BY <2>3, <2>4, BehindIs
<1>14. \A im : Rises(Behind(im), c)
  BY <1>9, <1>13 DEF Rises
<1> QED
  BY <1>1, <1>6, <1>10, <1>11, <1>12, <1>14

LEMMA MergedIs ==
  ASSUME NEW im \in Seq(ImageType), \A i \in DOMAIN im : IsImage(im[i]),
         NEW r, r = Merged(im)
  PROVE  /\ r \in Seq(Records)
         /\ \A x : Holds(r, x) =>
              \E i \in DOMAIN im : \E o \in im[i].items \ {0} :
                x = MergedRecord(im[i].seg, o)
         /\ \A i \in DOMAIN im : 0 \in im[i].items =>
              \A o \in im[i].items \ {0} : Holds(r, MergedRecord(im[i].seg, o))
         /\ \A j, k \in DOMAIN r : j < k =>
              /\ ~Precedes(r[k], r[j])
              /\ \/ Precedes(r[j], r[k])
                 \/ r[j].seg = r[k].seg /\ Once(im, r[j].seg) =>
                      r[j].off < r[k].off
<1>1. PICK u \in Nat : im \in [1..u -> ImageType]
  BY SeqDef
<1>2. PICK z : z = [i \in 1..u |-> Collected(im[i])]
  OBVIOUS
<1>3. ASSUME NEW i \in 1..u
      PROVE  /\ i \in DOMAIN im /\ z[i] = Collected(im[i]) /\ IsImage(im[i])
             /\ z[i] \in Seq(Records)
  BY <1>1, <1>2, CollectedIs
<1>4. z \in [1..u -> Seq(Records)]
  <2>1. z = [i \in 1..u |-> z[i]]
    BY <1>2
  <2> QED
    BY <1>3, <2>1
<1>5. PICK f : f = FlattenSeq(z)
  OBVIOUS
<1>6. /\ f \in Seq(Records)
      /\ \A x : Holds(f, x) <=> \E i \in 1..u : Holds(z[i], x)
  BY <1>4, <1>5, Flattened
<1>7. r = StableSorted(f, Precedes)
  <2>1. [i \in DOMAIN im |-> Collected(im[i])] = z
    BY <1>1, <1>2
  <2> QED
    BY <1>5, <2>1 DEF Merged
<1>8. /\ r \in Seq(Records)
      /\ \A x : Holds(r, x) <=> Holds(f, x)
      /\ \A j, k \in DOMAIN r : j < k => ~Precedes(r[k], r[j])
      /\ Rises(Behind(im), f) =>
           \A j, k \in DOMAIN r : j < k =>
             Precedes(r[j], r[k]) \/ <<r[j], r[k]>> \in Behind(im)
  BY <1>6, <1>7, MergeSorts
<1>9. ASSUME NEW x, Holds(r, x)
      PROVE  \E i \in DOMAIN im : \E o \in im[i].items \ {0} :
               x = MergedRecord(im[i].seg, o)
  <2>1. PICK i \in 1..u : Holds(z[i], x)
    BY <1>6, <1>8, <1>9
  <2>2. Holds(Collected(im[i]), x) /\ IsImage(im[i])
    BY <1>3, <2>1
  <2> QED
    BY <1>3, <2>2, CollectedIs
<1>10. ASSUME NEW i \in DOMAIN im, 0 \in im[i].items, NEW o \in im[i].items \ {0}
       PROVE  Holds(r, MergedRecord(im[i].seg, o))
  <2>1. i \in 1..u
    BY <1>1
  <2>2. Holds(Collected(im[i]), MergedRecord(im[i].seg, o))
    BY <1>3, <1>10, <2>1, CollectedIs
  <2> QED
    BY <1>3, <1>6, <1>8, <2>1, <2>2
<1>11. Rises(Behind(im), f)
  <2>1. ASSUME NEW i \in 1..u
        PROVE  Rises(Behind(im), z[i])
    BY <1>3, CollectedIs
  <2>2. ASSUME NEW i \in 1..u, NEW l \in 1..u, i < l
        PROVE  Follows(Behind(im), z[i], z[l])
    <3> SUFFICES ASSUME NEW x, NEW y, Holds(z[i], x), Holds(z[l], y)
                 PROVE  <<x, y>> \in Behind(im)
      BY DEF Follows
    <3>1. PICK m, n : m = im[i] /\ n = im[l]
      OBVIOUS
    <3>2. /\ IsImage(m) /\ Holds(Collected(m), x)
          /\ IsImage(n) /\ Holds(Collected(n), y)
      BY <1>3, <3>1
    <3>3. PICK o \in m.items \ {0} : x = MergedRecord(m.seg, o)
      BY <3>2, CollectedIs
    <3>4. PICK p \in n.items \ {0} : y = MergedRecord(n.seg, p)
      BY <3>2, CollectedIs
    <3>5. /\ m.seg \in Segments /\ o \in Offsets(m.seg)
          /\ n.seg \in Segments /\ p \in Offsets(n.seg)
      BY <3>2, ImageFacts
    <3>6. x \in Records /\ y \in Records /\ x.seg = m.seg /\ y.seg = n.seg
      BY <3>3, <3>4, <3>5, RecordFacts
    <3>7. m.seg = n.seg => ~Once(im, m.seg)
      <4>1. i \in DOMAIN im /\ l \in DOMAIN im /\ i # l
        BY <1>1, <2>2
      <4> QED
        BY <3>1, <4>1 DEF Once
    <3> QED
      BY <3>6, <3>7, BehindIs
  <2> QED
    BY <1>4, <1>5, <2>1, <2>2, FlattenedRises
<1>12. ASSUME NEW j \in DOMAIN r, NEW k \in DOMAIN r, j < k
       PROVE  \/ Precedes(r[j], r[k])
              \/ r[j].seg = r[k].seg /\ Once(im, r[j].seg) => r[j].off < r[k].off
  <2>1. r[j] \in Records /\ r[k] \in Records
    BY <1>8, SeqDef
  <2> QED
    BY <1>8, <1>11, <1>12, <2>1, BehindIs
<1> QED
  BY <1>8, <1>9, <1>10, <1>12

-----------------------------------------------------------------------------
(* The files of a scan.                                                    *)

PathPairs == {p \in Paths \X Paths : p[1] < p[2]}

PathFor(s, n, k) ==
  CHOOSE x \in 1..n :
    Cardinality({y \in 1..n : s[y] < s[x] \/ (~(s[x] < s[y]) /\ y < x)}) = k - 1

LEMMA PathsSorted ==
  ASSUME NEW s \in Seq(Paths)
  PROVE  StableSorted(s, <) \in Seq(Paths)
<1>1. PICK n \in Nat : s \in [1..n -> Paths]
  BY SeqDef
<1>2. DOMAIN s = 1..n /\ Cardinality(1..n) = n
  BY <1>1, FS_Interval
<1>3. Paths \subseteq Int
  BY CatAssumption
<1>4. WeakOrder(PathPairs, Paths)
  <2>1. \A x, y \in Paths : <<x, y>> \in PathPairs <=> x < y
    BY DEF PathPairs
  <2> QED
    BY <1>3, <2>1 DEF WeakOrder
<1>5. ASSUME NEW x \in 1..n
      PROVE  EarlierTo(PathPairs, s, n, x)
             = {y \in 1..n : s[y] < s[x] \/ (~(s[x] < s[y]) /\ y < x)}
  BY <1>1 DEF PathPairs, Earlier, EarlierTo
<1>6. PICK q : q = [k \in 1..n |-> PathFor(s, n, k)]
  OBVIOUS
<1>7. StableSorted(s, <) = Arranged(s, q, n)
  BY <1>2, <1>6 DEF StableSorted, Ordered, Arranged, PathFor
<1>8. ASSUME NEW k \in 1..n
      PROVE  q[k] \in 1..n
  <2>1. PICK e \in 1..n : Cardinality(EarlierTo(PathPairs, s, n, e)) = k - 1
    BY <1>1, <1>4, PlaceExists
  <2> QED
    BY <1>5, <1>6, <2>1 DEF PathFor
<1>9. Arranged(s, q, n) \in [1..n -> Paths]
  BY <1>1, <1>8 DEF Arranged
<1> QED
  BY <1>7, <1>9, FunctionIsSeq

LEMMA SegmentsCollected ==
  ASSUME WorldInv, opt.inputs \in Seq(Paths \cup {Dir})
  PROVE  collectSegments \in Seq(Paths)
<1>1. PICK u \in Nat : opt.inputs \in [1..u -> Paths \cup {Dir}]
  BY SeqDef
<1>2. PICK L : L = {p \in Paths : content[p] # NoFile}
  OBVIOUS
<1>3. L \in SUBSET Paths /\ L \subseteq Int /\ IsFiniteSet(L)
  BY <1>2, CatAssumption, FS_Subset
<1>4. Listed \in Seq(Paths)
  <2>1. Ordered(L, <) \in Seq(L)
    BY <1>3, OrderedIntegers
  <2>2. PICK n \in Nat : Ordered(L, <) \in [1..n -> L]
    BY <2>1, SeqDef
  <2>3. Ordered(L, <) \in [1..n -> Paths]
    BY <1>3, <2>2
  <2> QED
    BY <1>2, <2>3, FunctionIsSeq DEF Listed
<1>5. PICK z : z = [i \in 1..u |-> IF opt.inputs[i] = Dir THEN Listed
                                    ELSE <<opt.inputs[i]>>]
  OBVIOUS
<1>6. ASSUME NEW i \in 1..u
      PROVE  z[i] \in Seq(Paths)
  <2>1. opt.inputs[i] # Dir => <<opt.inputs[i]>> \in Seq(Paths)
    BY <1>1
  <2> QED
    BY <1>4, <1>5, <2>1
<1>7. z \in [1..u -> Seq(Paths)]
  BY <1>5, <1>6
<1>8. FlattenSeq(z) \in Seq(Paths)
  BY <1>7, Flattened
<1>9. Expanded(opt.inputs) \in Seq(Paths)
  BY <1>1, <1>5, <1>8 DEF Expanded
<1> QED
  BY <1>9, PathsSorted DEF collectSegments

-----------------------------------------------------------------------------
(* The steps of the program.                                               *)

(* The cursor and the output say what they said.                           *)
LEMMA CursorKept ==
  ASSUME CursorInv, UNCHANGED <<opt, out, seen>>,
         pc = "exit" /\ exit # 0 => pc' = "exit" /\ exit' # 0
  PROVE  CursorInv'
<1>1. ASSUME NEW s \in Segments, NEW o \in Offsets(s), KeyOf(s, o) \in seen,
             Wants(s, o)'
      PROVE  Printed(s, o) \/ (pc' = "exit" /\ exit' # 0)
  <2>1. Wants(s, o)
    BY <1>1 DEF Wants, wanted
  <2> QED
    BY <1>1, <2>1 DEF CursorInv
<1>2. opt.follow => /\ IsInjective(out)
                    /\ \A i \in DOMAIN out : KeyOf(out[i][1], out[i][2]) \in seen
  BY DEF CursorInv
<1> QED
  BY <1>1, <1>2 DEF CursorInv, Printed

LEMMA OutKept ==
  ASSUME OutInv, UNCHANGED <<opt, out, visible>>
  PROVE  OutInv'
BY DEF OutInv, Wants, wanted

(* The program ends without having come to the end of a scan.              *)
Leaves ==
  /\ pc \notin {"parse", "copy"} /\ pc' = "exit" /\ exit' # 0
  /\ exit' = 3 => Waits /\ late /\ ~matched
  /\ exit' > 128 => cancelled # 0
  /\ seen \subseteq seen'

(* What it found so far stays.                                             *)
Found == <<argv, opt, world, scanVars, opened, out, flushed, health>>

LEMMA SortedKept ==
  ASSUME SortedInv, UNCHANGED <<merged, images>>
  PROVE  SortedInv'
BY DEF SortedInv, ReadOnce

LEMMA NothingToSort ==
  ASSUME merged' = <<>>
  PROVE  SortedInv'
BY DEF SortedInv

LEMMA UnmatchedYet ==
  ASSUME MergedInv, WaitInv, Waits, next <= Len(merged)
  PROVE  ~matched
<1>1. next \in Nat /\ Len(merged) \in Nat
  BY LenProperties DEF MergedInv
<1> QED
  BY <1>1 DEF WaitInv

LEMMA LeaveStep ==
  ASSUME CatInv, Leaves, UNCHANGED Found
  PROVE  CatInv'
<1> USE DEF Found, world, scanVars
<1>1. WorldInv' /\ ImagesInv' /\ SortedInv'
  BY SortedKept DEF CatInv, WorldInv, ImagesInv
<1>2. RequestInv'
  BY DEF CatInv, Leaves, RequestInv, Waits
<1>3. FilesInv'
  BY DEF CatInv, Leaves, FilesInv
<1>4. MergedInv'
  BY DEF CatInv, Leaves, MergedInv
<1>5. ShownInv' /\ PassedInv'
  BY DEF Leaves, ShownInv, PassedInv, Shown
<1>6. OutInv'
  BY OutKept DEF CatInv
<1>7. CursorInv'
  BY DEF CatInv, Leaves, CursorInv, Wants, wanted, Printed
<1>8. WaitInv'
  BY DEF CatInv, Leaves, WaitInv, Waits
<1>9. ExitInv'
  BY DEF Leaves, ExitInv, Waits
<1> QED
  BY <1>1, <1>2, <1>3, <1>4, <1>5, <1>6, <1>7, <1>8, <1>9 DEF CatInv

LEMMA LeavingSteps ==
  ASSUME CatInv,
         ListFails \/ StopCancelled \/ StopLate \/ CursorFull \/ FlushFails
  PROVE  CatInv'
<1>1. MergedInv /\ WaitInv /\ cancelled \in Nat
  BY DEF CatInv, WorldInv
<1>2. CASE ListFails
  BY <1>2, LeaveStep DEF ListFails, Exit, Leaves, Found
<1>3. CASE StopCancelled
  <2>1. 128 + cancelled > 128 /\ 128 + cancelled # 3 /\ 128 + cancelled # 0
    BY <1>1, <1>3 DEF StopCancelled
  <2>2. Leaves /\ UNCHANGED Found
    BY <1>3, <2>1 DEF StopCancelled, Observes, Exit, Leaves, Found
  <2> QED
    BY <2>2, LeaveStep
<1>4. CASE StopLate
  <2>1. Waits
    BY <1>4 DEF StopLate, Overdue, Waits, NoWait
  <2>2. ~matched
    BY <1>1, <1>4, <2>1, UnmatchedYet DEF StopLate
  <2>3. Leaves /\ UNCHANGED Found
    BY <1>4, <2>1, <2>2 DEF StopLate, Overdue, Exit, Leaves, Found
  <2> QED
    BY <2>3, LeaveStep
<1>5. CASE CursorFull
  BY <1>5, LeaveStep DEF CursorFull, Looks, Exit, Leaves, Found
<1>6. CASE FlushFails
  BY <1>6, LeaveStep DEF FlushFails, Exit, Leaves, Found
<1> QED
  BY <1>2, <1>3, <1>4, <1>5, <1>6

(* What is committed stays committed, and nobody takes back a signal.      *)
Grows ==
  /\ \A s \in Segments : visible[s] \subseteq visible'[s]
  /\ late => late'
  /\ cancelled # 0 => cancelled' # 0

LEMMA ImagesAre ==
  ASSUME ImagesInv
  PROVE  images \in Seq(ImageType) /\ \A i \in DOMAIN images : IsImage(images[i])
<1>1. images \in Seq(ImageType)
  BY DEF ImagesInv, ImageType
<1>2. PICK n \in Nat : images \in [1..n -> ImageType]
  BY <1>1, SeqDef
<1>3. ASSUME NEW i \in DOMAIN images
      PROVE  IsImage(images[i])
  <2>1. images[i] \in ImageType
    BY <1>2, <1>3
  <2>2. images[i].items \subseteq Items(images[i].seg)
    BY <1>3 DEF ImagesInv
  <2> QED
    BY <2>1, <2>2 DEF IsImage
<1> QED
  BY <1>1, <1>3

LEMMA SurroundingsChange ==
  ASSUME CatInv, WorldInv', Grows, UNCHANGED tool
  PROVE  CatInv'
<1> USE DEF tool, scanVars
<1>1. /\ RequestInv /\ FilesInv /\ ImagesInv /\ MergedInv /\ ShownInv
      /\ PassedInv /\ OutInv /\ CursorInv /\ SortedInv /\ WaitInv /\ ExitInv
  BY DEF CatInv
<1>2. RequestInv'
  BY <1>1 DEF RequestInv, Waits
<1>3. FilesInv'
  BY <1>1 DEF FilesInv, Grows
<1>4. ImagesInv'
  <2>1. ASSUME NEW i \in DOMAIN images
        PROVE  images[i].items \subseteq visible'[images[i].seg] \cap Items(images[i].seg)
    <3>1. images[i].seg \in Segments
      BY <1>1, ImagesAre DEF IsImage, ImageType
    <3> QED
      BY <1>1, <3>1 DEF ImagesInv, Grows
  <2> QED
    BY <1>1, <2>1 DEF ImagesInv
<1>5. MergedInv'
  <2>1. ASSUME NEW k \in DOMAIN merged
        PROVE  merged[k].off \in visible'[merged[k].seg]
    <3>1. merged[k] \in Records
      BY <1>1 DEF MergedInv
    <3>2. merged[k].seg \in Segments
      BY <3>1, RecordIs
    <3> QED
      BY <1>1, <3>2 DEF MergedInv, Grows
  <2> QED
    BY <1>1, <2>1 DEF MergedInv
<1>6. ShownInv'
  BY <1>1 DEF ShownInv, Shown
<1>7. PassedInv'
  BY <1>1 DEF PassedInv, Shown, Printed, Waits, wanted
<1>8. OutInv'
  <2>1. ASSUME NEW i \in DOMAIN out
        PROVE  out[i][2] \in visible'[out[i][1]] \cap Offsets(out[i][1])
    <3>1. out[i][1] \in Segments
      BY <1>1 DEF OutInv
    <3> QED
      BY <1>1, <3>1 DEF OutInv, Grows
  <2> QED
    BY <1>1, <2>1 DEF OutInv, Wants, wanted
<1>9. CursorInv'
  BY <1>1, CursorKept
<1>10. SortedInv'
  BY <1>1, SortedKept
<1>11. WaitInv'
  BY <1>1 DEF WaitInv, Waits
<1>12. ExitInv'
  BY <1>1 DEF ExitInv, Waits, Grows
<1> QED
  BY <1>2, <1>3, <1>4, <1>5, <1>6, <1>7, <1>8, <1>9, <1>10, <1>11, <1>12
     DEF CatInv

LEMMA WorldStep ==
  ASSUME CatInv, World
  PROVE  CatInv'
<1>1. WorldInv /\ NoFile \notin Segments
  BY CatAssumption DEF CatInv
<1>2. ASSUME NEW s \in Segments, NEW p \in Paths, Appear(s, p)
      PROVE  CatInv'
  <2>1. UNCHANGED <<tool, visible, cancelled, late>>
    BY <1>2 DEF Appear, Move
  <2>2. content' = [content EXCEPT ![p] = s]
    BY <1>2 DEF Appear
  <2>3. WorldInv'
    BY <1>1, <2>1, <2>2 DEF WorldInv
  <2> QED
    BY <2>1, <2>3, SurroundingsChange DEF Grows
<1>3. ASSUME NEW p \in Paths, Vanish(p)
      PROVE  CatInv'
  <2>1. UNCHANGED <<tool, visible, cancelled, late>>
    BY <1>3 DEF Vanish, Move
  <2>2. content' = [content EXCEPT ![p] = NoFile]
    BY <1>3 DEF Vanish
  <2>3. WorldInv'
    BY <1>1, <2>1, <2>2 DEF WorldInv
  <2> QED
    BY <2>1, <2>3, SurroundingsChange DEF Grows
<1>4. ASSUME NEW s \in Segments, NEW i \in All(s), Commit(s, i)
      PROVE  CatInv'
  <2>1. UNCHANGED <<tool, content, cancelled, late>>
    BY <1>4 DEF Commit, Move
  <2>2. visible' = [visible EXCEPT ![s] = @ \cup {i}]
    BY <1>4 DEF Commit
  <2>3. \A t \in Segments :
          visible'[t] = IF t = s THEN visible[t] \cup {i} ELSE visible[t]
    BY <1>1, <2>2 DEF WorldInv
  <2>4. PICK U : U = UNION {All(t) : t \in Segments}
    OBVIOUS
  <2>5. i \in U
    BY <2>4
  <2>6. visible' \in [Segments -> SUBSET U]
    BY <1>1, <2>2, <2>4, <2>5 DEF WorldInv
  <2>7. WorldInv'
    BY <1>1, <2>1, <2>3, <2>4, <2>6 DEF WorldInv
  <2> QED
    BY <2>1, <2>3, <2>7, SurroundingsChange DEF Grows
<1>5. CASE Tick
  <2>1. UNCHANGED <<tool, visible, content, cancelled>> /\ late'
    BY <1>5 DEF Tick
  <2>2. WorldInv'
    BY <1>1, <2>1 DEF WorldInv
  <2> QED
    BY <2>1, <2>2, SurroundingsChange DEF Grows
<1>6. ASSUME NEW signal \in Signals, Cancel(signal)
      PROVE  CatInv'
  <2>1. UNCHANGED <<tool, visible, content, late>> /\ cancelled' \in Nat \ {0}
    BY <1>6, CatAssumption DEF Cancel, Move
  <2>2. WorldInv'
    BY <1>1, <2>1 DEF WorldInv
  <2> QED
    BY <2>1, <2>2, SurroundingsChange DEF Grows
<1>7. CASE BreakOutput
  <2>1. UNCHANGED <<tool, visible, content, late, cancelled>>
    BY <1>7 DEF BreakOutput, Move
  <2>2. WorldInv'
    BY <1>1, <2>1 DEF WorldInv
  <2> QED
    BY <2>1, <2>2, SurroundingsChange DEF Grows
<1> QED
  BY <1>2, <1>3, <1>4, <1>5, <1>6, <1>7 DEF World

(* Nothing at all.                                                         *)
LEMMA CatStutters ==
  ASSUME CatInv, UNCHANGED vars
  PROVE  CatInv'
<1>1. UNCHANGED tool /\ UNCHANGED world
  BY DEF vars, tool
<1>2. WorldInv' /\ Grows
  BY <1>1 DEF CatInv, WorldInv, Grows, world
<1> QED
  BY <1>1, <1>2, SurroundingsChange

(* The command line.                                                       *)
Sensible(o) == o \in Request /\ (o.waitMs # NoWait => o.follow)

LEMMA TakenIsSensible ==
  ASSUME NEW o, Sensible(o), NEW a \in Argument, ~Rejected(a), a.name # "help"
  PROVE  Sensible(Taken(o, a)) /\ Taken(o, a).helpOnly = o.helpOnly
<1>1. /\ a.name \in Numeric \cup {"input", "follow"}
      /\ a.index \in Nat
      /\ a.name \in Numeric => a.value \in Nat
      /\ a.name = "input" => a.value \in Paths \cup {Dir}
  BY DEF Argument, Rejected
<1>2. /\ o.inputs \in Seq(Paths \cup {Dir}) /\ o.subsystems \subseteq Nat
      /\ o.follow \in BOOLEAN /\ o.waitMs \in Nat \cup {NoWait}
  BY DEF Sensible, Request
<1>3. CASE a.name = "follow"
  <2>1. Taken(o, a) = [o EXCEPT !.follow = TRUE]
    BY <1>3 DEF Taken
  <2> QED
    BY <2>1 DEF Sensible, Request
<1>4. CASE a.name = "waitMs"
  <2>1. Taken(o, a) = [o EXCEPT !.waitMs = a.value, !.follow = TRUE]
    BY <1>4 DEF Taken
  <2>2. a.value \in Nat
    BY <1>1, <1>4 DEF Numeric
  <2> QED
    BY <2>1, <2>2 DEF Sensible, Request
<1>5. CASE a.name = "input"
  <2>1. Taken(o, a) = [o EXCEPT !.inputs = Append(o.inputs, a.value)]
    BY <1>5 DEF Taken, Sensible, Request
  <2>2. Append(o.inputs, a.value) \in Seq(Paths \cup {Dir})
    BY <1>1, <1>2, <1>5, AppendProperties
  <2> QED
    BY <2>1, <2>2 DEF Sensible, Request
<1>6. CASE a.name = "subsystem"
  <2>1. Taken(o, a) = [o EXCEPT !.subsystems = o.subsystems \cup {a.value}]
    BY <1>6 DEF Taken, Sensible, Request
  <2>2. o.subsystems \cup {a.value} \in SUBSET Nat
    BY <1>1, <1>2, <1>6 DEF Numeric
  <2> QED
    BY <2>1, <2>2 DEF Sensible, Request
<1>7. CASE a.name = "argUint"
  <2>1. Taken(o, a) = [o EXCEPT !.argUint = [index |-> a.index, value |-> a.value]]
    BY <1>7 DEF Taken
  <2>2. [index |-> a.index, value |-> a.value]
          \in [index : Nat, value : Nat \cup {NoFilter}]
    BY <1>1, <1>7 DEF Numeric
  <2> QED
    BY <2>1, <2>2 DEF Sensible, Request
<1>8. CASE a.name \in Limits \cup {"minimum", "correlation"}
  <2>1. Taken(o, a) = [o EXCEPT ![a.name] = a.value] /\ a.value \in Nat
    BY <1>1, <1>8 DEF Taken, Limits, Numeric
  <2>2. CASE a.name = "minimum"
    BY <2>1, <2>2 DEF Sensible, Request
  <2>3. CASE a.name = "correlation"
    BY <2>1, <2>3 DEF Sensible, Request
  <2>4. CASE a.name = "maxFiles"
    BY <2>1, <2>4 DEF Sensible, Request
  <2>5. CASE a.name = "maxInputBytes"
    BY <2>1, <2>5 DEF Sensible, Request
  <2>6. CASE a.name = "maxRecords"
    BY <2>1, <2>6 DEF Sensible, Request
  <2>7. CASE a.name = "maxOutputBytes"
    BY <2>1, <2>7 DEF Sensible, Request
  <2> QED
    BY <1>8, <2>2, <2>3, <2>4, <2>5, <2>6, <2>7 DEF Limits
<1> QED
  BY <1>1, <1>3, <1>4, <1>5, <1>6, <1>7, <1>8 DEF Numeric

LEMMA ParseOptionStep ==
  ASSUME CatInv, ParseOption
  PROVE  CatInv'
<1> USE DEF world, scanVars
<1>1. /\ WorldInv /\ RequestInv /\ FilesInv /\ ImagesInv /\ MergedInv
      /\ SortedInv /\ WaitInv
  BY DEF CatInv
<1>2. /\ pc = "parse" /\ argv # <<>> /\ argv' = Tail(argv)
      /\ UNCHANGED <<world, scanVars, opened, seen, out, flushed, health>>
  BY DEF ParseOption
<1>3. /\ out = <<>> /\ seen = {} /\ ~matched /\ ~opt.helpOnly /\ Sensible(opt)
  BY <1>1, <1>2 DEF RequestInv, Sensible, Waits
<1>4. argv' \in Seq(Argument) /\ Head(argv) \in Argument
  BY <1>1, <1>2, HeadTailProperties DEF RequestInv
<1>5. \/ pc' = "exit" /\ exit' = 0 /\ opt' = [opt EXCEPT !.helpOnly = TRUE]
      \/ pc' = "exit" /\ exit' = 2 /\ opt' = opt
      \/ pc' = "parse" /\ opt' = Taken(opt, Head(argv)) /\ Sensible(opt')
         /\ ~opt'.helpOnly
  BY <1>3, <1>4, TakenIsSensible DEF ParseOption, Exit, Goto
<1>6. /\ Sensible(opt')
      /\ \/ pc' = "exit" /\ exit' = 0 /\ opt'.helpOnly
         \/ pc' = "exit" /\ exit' = 2
         \/ pc' = "parse" /\ ~opt'.helpOnly
  BY <1>3, <1>5 DEF Sensible, Request
<1>7. WorldInv' /\ ImagesInv' /\ SortedInv'
  BY <1>1, <1>2, SortedKept DEF WorldInv, ImagesInv
<1>8. RequestInv'
  BY <1>2, <1>3, <1>4, <1>6 DEF RequestInv, Sensible, Waits
<1>9. FilesInv' /\ MergedInv'
  BY <1>1, <1>2, <1>6 DEF FilesInv, MergedInv
<1>10. ShownInv' /\ PassedInv'
  BY <1>6 DEF ShownInv, PassedInv, Shown
<1>11. OutInv'
  BY <1>2, <1>3 DEF OutInv
<1>12. CursorInv'
  BY <1>2, <1>3 DEF CursorInv, IsInjective
<1>13. WaitInv'
  BY <1>1, <1>2, <1>3, <1>6 DEF WaitInv
<1>14. ExitInv'
  BY <1>6 DEF ExitInv
<1> QED
  BY <1>7, <1>8, <1>9, <1>10, <1>11, <1>12, <1>13, <1>14 DEF CatInv

LEMMA ParseEndStep ==
  ASSUME CatInv, ParseEnd
  PROVE  CatInv'
<1> USE DEF scanVars
<1>1. /\ WorldInv /\ RequestInv /\ FilesInv /\ ImagesInv /\ MergedInv
      /\ SortedInv /\ WaitInv /\ OutInv /\ CursorInv
  BY DEF CatInv
<1>2. /\ pc = "parse"
      /\ UNCHANGED <<argv, opt, content, visible, cancelled, scanVars, opened,
                     seen, out, flushed, health>>
      /\ pc' = "scan" \/ (pc' = "exit" /\ exit' = 2)
  BY DEF ParseEnd, Exit, Goto
<1>3. /\ out = <<>> /\ seen = {} /\ ~matched
  BY <1>1, <1>2 DEF RequestInv
<1>4. WorldInv' /\ ImagesInv' /\ SortedInv'
  BY <1>1, <1>2, SortedKept DEF WorldInv, ImagesInv
<1>5. RequestInv' /\ FilesInv' /\ MergedInv'
  BY <1>1, <1>2 DEF RequestInv, FilesInv, MergedInv, Waits
<1>6. ShownInv' /\ PassedInv'
  BY <1>2 DEF ShownInv, PassedInv, Shown
<1>7. OutInv' /\ CursorInv'
  BY <1>2, <1>3 DEF OutInv, CursorInv, IsInjective
<1>8. WaitInv'
  BY <1>1, <1>2, <1>3 DEF WaitInv, Waits
<1>9. ExitInv'
  BY <1>2 DEF ExitInv
<1> QED
  BY <1>4, <1>5, <1>6, <1>7, <1>8, <1>9 DEF CatInv

-----------------------------------------------------------------------------
(* A scan.                                                                 *)

LEMMA PutFirst ==
  ASSUME NEW T, NEW c, NEW t \in Seq(T)
  PROVE  /\ Head(<<c>> \o t) = c /\ Tail(<<c>> \o t) \in Seq(T)
<1>1. PICK U : U = T \cup {c}
  OBVIOUS
<1>2. <<c>> \in Seq(U) /\ Len(<<c>>) = 1 /\ <<c>>[1] = c
  BY <1>1
<1>3. PICK n \in Nat : t \in [1..n -> T] /\ Len(t) = n
  BY SeqDef, LenProperties
<1>4. t \in [1..n -> U]
  BY <1>1, <1>3
<1>5. t \in Seq(U)
  BY <1>4, FunctionIsSeq
<1>6. PICK s : s = <<c>> \o t
  OBVIOUS
<1>7. /\ s \in Seq(U) /\ Len(s) = 1 + n
      /\ \A k \in 1..(1 + n) : s[k] = IF k <= 1 THEN c ELSE t[k - 1]
  BY <1>2, <1>3, <1>5, <1>6, ConcatProperties
<1>8. 1 \in 1..(1 + n) /\ s # <<>>
  BY <1>3, <1>7
<1>9. Head(s) = c
  <2>1. s[1] = c
    BY <1>7, <1>8
  <2> QED
    BY <1>7, <1>8, <2>1, HeadTailProperties
<1>10. PICK z : z = Tail(s)
  OBVIOUS
<1>11. z = [k \in 1..n |-> z[k]] /\ \A k \in 1..n : z[k] = s[k + 1]
  <2>1. /\ z \in Seq(U) /\ Len(z) = Len(s) - 1
        /\ \A k \in 1..Len(z) : z[k] = s[k + 1]
    BY <1>7, <1>8, <1>10, HeadTailProperties
  <2>2. Len(z) = n
    BY <1>3, <1>7, <2>1
  <2> QED
    BY <2>1, <2>2, SeqDef, LenProperties
<1>12. ASSUME NEW k \in 1..n
       PROVE  z[k] \in T
  <2>1. PICK m : m = k + 1
    OBVIOUS
  <2>2. m \in 1..(1 + n) /\ ~(m <= 1) /\ m - 1 = k
    BY <1>3, <2>1
  <2>3. s[m] = t[k]
    BY <1>7, <2>2
  <2> QED
    BY <1>3, <1>11, <2>1, <2>3
<1>13. z \in [1..n -> T]
  <2>1. z = [k \in 1..n |-> z[k]]
    BY <1>11
  <2> QED
    BY <1>12, <2>1
<1> QED
  BY <1>6, <1>9, <1>10, <1>13, FunctionIsSeq

LEMMA BeginScanStep ==
  ASSUME CatInv, BeginScan
  PROVE  CatInv'
<1>1. /\ WorldInv /\ RequestInv /\ FilesInv /\ OutInv /\ CursorInv /\ WaitInv
  BY DEF CatInv
<1>2. /\ pc = "scan" /\ images' = <<>> /\ merged' = <<>> /\ next' = 1
      /\ matched' = FALSE /\ seen' = seen
      /\ UNCHANGED <<argv, opt, world, opened, out, flushed, health>>
      /\ \/ pc' = "exit" /\ exit' = 4 /\ files' = files
         \/ pc' = "read" /\ files' = collectSegments
  BY DEF BeginScan, Exit, Goto, Retained
<1>3. opt.inputs \in Seq(Paths \cup {Dir})
  BY <1>1 DEF RequestInv, Request
<1>4. files \in Seq(Paths) /\ collectSegments \in Seq(Paths)
  BY <1>1, <1>2, <1>3, SegmentsCollected DEF FilesInv
<1>5. WorldInv'
  BY <1>1, <1>2 DEF WorldInv, world
<1>6. RequestInv' /\ FilesInv'
  BY <1>1, <1>2, <1>4 DEF RequestInv, FilesInv, Waits
<1>7. ImagesInv' /\ MergedInv' /\ SortedInv'
  <2>1. images' = <<>> /\ merged' = <<>> /\ next' = 1
    BY <1>2
  <2>2. ImagesInv'
    BY <2>1 DEF ImagesInv
  <2>3. MergedInv'
    BY <2>1 DEF MergedInv
  <2>4. SortedInv'
    BY <2>1, NothingToSort
  <2> QED
    BY <2>2, <2>3, <2>4
<1>8. ShownInv' /\ PassedInv'
  BY <1>2 DEF ShownInv, PassedInv, Shown
<1>9. OutInv' /\ CursorInv'
  BY <1>1, <1>2, OutKept, CursorKept DEF world
<1>10. WaitInv'
  BY <1>1, <1>2 DEF WaitInv, Waits
<1>11. ExitInv'
  BY <1>2 DEF ExitInv
<1> QED
  BY <1>5, <1>6, <1>7, <1>8, <1>9, <1>10, <1>11 DEF CatInv

(* Between the start of a scan and its merge only the files and the images *)
(* change.                                                                 *)
Reads ==
  /\ pc \in {"read", "copy"}
  /\ \/ pc' \in {"read", "copy"}
     \/ pc' = "exit" /\ exit' = 4
  /\ UNCHANGED <<argv, opt, content, visible, broken, late, cancelled, merged,
                 next, matched, seen, out, flushed, health>>

LEMMA ReadingKeeps ==
  ASSUME CatInv, Reads, FilesInv', ImagesInv'
  PROVE  CatInv'
<1>1. /\ WorldInv /\ RequestInv /\ MergedInv /\ OutInv /\ CursorInv
      /\ SortedInv /\ WaitInv
  BY DEF CatInv
<1>2. WorldInv' /\ SortedInv'
  BY <1>1, NothingToSort DEF WorldInv, MergedInv, Reads
<1>3. RequestInv' /\ MergedInv'
  <2>1. RequestInv'
    BY <1>1 DEF RequestInv, Waits, Reads
  <2>2. MergedInv'
    BY <1>1 DEF MergedInv, Reads
  <2> QED
    BY <2>1, <2>2
<1>4. ShownInv' /\ PassedInv'
  BY DEF ShownInv, PassedInv, Shown, Reads
<1>5. OutInv' /\ CursorInv'
  <2>1. pc # "exit" /\ UNCHANGED <<opt, out, seen, visible>>
    BY DEF Reads
  <2> QED
    BY <1>1, <2>1, OutKept, CursorKept
<1>6. WaitInv'
  BY <1>1 DEF WaitInv, Waits, Reads
<1>7. ExitInv'
  BY DEF ExitInv, Reads
<1> QED
  BY <1>2, <1>3, <1>4, <1>5, <1>6, <1>7 DEF CatInv

LEMMA OpenFileStep ==
  ASSUME CatInv, OpenFile
  PROVE  CatInv'
<1>1. WorldInv /\ FilesInv /\ ImagesInv
  BY DEF CatInv
<1>2. /\ pc = "read" /\ files # <<>>
      /\ UNCHANGED <<argv, opt, world, images, merged, next, matched, opened,
                     seen, out, flushed, health>>
  BY DEF OpenFile
<1>3. PICK p : p = Head(files)
  OBVIOUS
<1>4. \/ pc' = "read" /\ files' = Tail(files)
      \/ pc' = "exit" /\ exit' = 4 /\ files' = files
      \/ /\ pc' = "copy" /\ content[p] # NoFile
         /\ files' = <<content[p]>> \o Tail(files)
         /\ early' = visible[content[p]]
  BY <1>3 DEF OpenFile, Exit, Goto
<1>5. files \in Seq(Paths)
  BY <1>1, <1>2 DEF FilesInv
<1>6. p \in Paths /\ Tail(files) \in Seq(Paths)
  BY <1>2, <1>3, <1>5, HeadTailProperties
<1>7. content[p] \in Segments \cup {NoFile}
  BY <1>1, <1>6 DEF WorldInv
<1>8. FilesInv'
  <2>1. CASE pc' # "copy"
    BY <1>4, <1>5, <1>6, <2>1 DEF FilesInv
  <2>2. CASE pc' = "copy"
    <3>1. PICK c : c = content[p]
      OBVIOUS
    <3>2. /\ c \in Segments /\ files' = <<c>> \o Tail(files)
          /\ early' = visible[c]
      BY <1>4, <1>7, <2>2, <3>1
    <3>3. PICK t : t = Tail(files)
      OBVIOUS
    <3>4. Head(<<c>> \o t) = c /\ Tail(<<c>> \o t) \in Seq(Paths)
      BY <1>6, <3>3, PutFirst
    <3>5. Head(files') = c /\ Tail(files') \in Seq(Paths)
      BY <3>2, <3>3, <3>4
    <3>6. visible' = visible
      BY <1>2 DEF world
    <3> QED
      BY <2>2, <3>2, <3>5, <3>6 DEF FilesInv
  <2> QED
    BY <2>1, <2>2
<1>9. ImagesInv'
  BY <1>1, <1>2 DEF ImagesInv, world
<1>10. Reads
  BY <1>2, <1>4 DEF Reads, world
<1> QED
  BY <1>8, <1>9, <1>10, ReadingKeeps

LEMMA AddedImage ==
  ASSUME WorldInv, ImagesInv, NEW s \in Segments, NEW got,
         got \subseteq visible[s], NEW torn \in BOOLEAN,
         NEW q, q = Append(images, Image(s, got \ {HeaderItem}, torn))
  PROVE  /\ q \in Seq(ImageType)
         /\ \A i \in DOMAIN q :
              q[i].items \subseteq visible[q[i].seg] \cap Items(q[i].seg)
<1>1. visible[s] \subseteq {HeaderItem} \cup {0} \cup Offsets(s)
  BY DEF WorldInv, All, Items
<1>2. Offsets(s) \subseteq Nat
  BY MessagesAssumption
<1>3. PICK m : m = Image(s, got \ {HeaderItem}, torn)
  OBVIOUS
<1>4. m \in ImageType
  BY <1>1, <1>2, <1>3 DEF Image, ImageType
<1>5. m.items \subseteq visible[m.seg] \cap Items(m.seg)
  BY <1>1, <1>3 DEF Image, Items
<1>6. images \in Seq(ImageType)
  BY ImagesAre
<1>7. /\ q \in Seq(ImageType) /\ Len(q) = Len(images) + 1
      /\ \A i \in 1..Len(images) : q[i] = images[i]
      /\ q[Len(images) + 1] = m
  BY <1>3, <1>4, <1>6, AppendProperties
<1>8. PICK n \in Nat : n = Len(images) /\ DOMAIN images = 1..n
  BY <1>6, LenProperties
<1>9. DOMAIN q = 1..(n + 1)
  BY <1>7, <1>8, LenProperties
<1>10. ASSUME NEW i \in 1..(n + 1)
       PROVE  q[i].items \subseteq visible[q[i].seg] \cap Items(q[i].seg)
  <2>1. CASE i = n + 1
    BY <1>5, <1>7, <1>8, <2>1
  <2>2. CASE i # n + 1
    <3>1. i \in DOMAIN images /\ q[i] = images[i]
      BY <1>7, <1>8, <2>2
    <3> QED
      BY <3>1 DEF ImagesInv
  <2> QED
    BY <2>1, <2>2
<1> QED
  BY <1>7, <1>9, <1>10

LEMMA CopyFileStep ==
  ASSUME CatInv, CopyFile
  PROVE  CatInv'
<1>1. WorldInv /\ FilesInv /\ ImagesInv
  BY DEF CatInv
<1>2. /\ pc = "copy" /\ pc' = "read" /\ files' = Tail(files)
      /\ UNCHANGED <<argv, opt, world, remaining, merged, next, matched, seen,
                     out, flushed, health>>
  BY DEF CopyFile, Goto
<1>3. PICK s : s = Head(files)
  OBVIOUS
<1>4. /\ s \in Segments /\ Tail(files) \in Seq(Paths) /\ early \subseteq visible[s]
  BY <1>1, <1>2, <1>3 DEF FilesInv
<1>5. PICK new \in SUBSET (visible[s] \ early), torn \in BOOLEAN :
        \/ UNCHANGED images
        \/ images' = Append(images, Image(s, (early \cup new) \ {HeaderItem}, torn))
  BY <1>3 DEF CopyFile
<1>6. PICK got : got = early \cup new
  OBVIOUS
<1>7. got \subseteq visible[s]
  BY <1>4, <1>5, <1>6
<1>8. ImagesInv'
  <2>1. PICK q : q = Append(images, Image(s, got \ {HeaderItem}, torn))
    OBVIOUS
  <2>2. /\ q \in Seq(ImageType)
        /\ \A i \in DOMAIN q :
             q[i].items \subseteq visible[q[i].seg] \cap Items(q[i].seg)
    BY <1>1, <1>4, <1>7, <2>1, AddedImage
  <2>3. images' = images \/ images' = q
    BY <1>5, <1>6, <2>1
  <2>4. visible' = visible
    BY <1>2 DEF world
  <2>5. CASE images' = images
    BY <1>1, <2>4, <2>5 DEF ImagesInv
  <2>6. CASE images' = q
    BY <2>2, <2>4, <2>6 DEF ImagesInv, ImageType
  <2> QED
    BY <2>3, <2>5, <2>6
<1>9. FilesInv'
  BY <1>2, <1>4 DEF FilesInv
<1>10. Reads
  BY <1>2 DEF Reads, world
<1> QED
  BY <1>8, <1>9, <1>10, ReadingKeeps

LEMMA CopyFailsStep ==
  ASSUME CatInv, CopyFails
  PROVE  CatInv'
<1>1. FilesInv /\ ImagesInv
  BY DEF CatInv
<1>2. FilesInv'
  BY <1>1 DEF CopyFails, Goto, FilesInv
<1>3. ImagesInv'
  BY <1>1 DEF CopyFails, ImagesInv
<1>4. Reads
  BY DEF Reads, CopyFails, Goto
<1> QED
  BY <1>2, <1>3, <1>4, ReadingKeeps

LEMMA LossesFound ==
  ASSUME ImagesInv, NEW n, n = Totals(images).undecodable
  PROVE  /\ n \in Nat
         /\ \A i \in DOMAIN images :
              0 \notin images[i].items /\ images[i].items # {} => n > 0
<1>1. PICK u \in Nat : images \in [1..u -> ImageType]
  BY ImagesAre, SeqDef
<1>2. PICK f : f = [i \in 1..u |-> Undecodable(images[i])]
  OBVIOUS
<1>3. ASSUME NEW i \in 1..u
      PROVE  /\ f[i] \in Nat
             /\ 0 \notin images[i].items /\ images[i].items # {} => f[i] > 0
  <2>1. PICK m : m = images[i]
    OBVIOUS
  <2>2. IsImage(m)
    BY <1>1, <2>1, ImagesAre
  <2>3. IsFiniteSet(m.items)
    BY <2>2, ImageFacts
  <2>4. PICK c : c = Cardinality(m.items)
    OBVIOUS
  <2>5. c \in Nat /\ (m.items # {} => c > 0)
    BY <2>3, <2>4, FS_CardinalityType, FS_EmptySet
  <2>6. f[i] = IF 0 \in m.items THEN 0 ELSE c
    BY <1>2, <2>1, <2>4 DEF Undecodable
  <2> QED
    BY <2>1, <2>5, <2>6
<1>4. f \in [1..u -> Nat]
  <2>1. f = [i \in 1..u |-> f[i]]
    BY <1>2
  <2> QED
    BY <1>3, <2>1
<1>5. PICK S : S = 1..u
  OBVIOUS
<1>6. IsFiniteSet(S)
  BY <1>5, FS_Interval
<1>7. n = SumFunction(f)
  BY <1>1, <1>2 DEF Totals
<1>8. n \in Nat /\ \A x \in S : f[x] <= n
  BY <1>4, <1>5, <1>6, <1>7, SumBounds
<1>9. ASSUME NEW i \in DOMAIN images, 0 \notin images[i].items, images[i].items # {}
      PROVE  n > 0
  <2>1. i \in S /\ f[i] > 0 /\ f[i] \in Nat /\ f[i] <= n
    BY <1>1, <1>3, <1>5, <1>8, <1>9
  <2> QED
    BY <1>8, <2>1
<1> QED
  BY <1>8, <1>9

LEMMA MergeScanStep ==
  ASSUME CatInv, MergeScan
  PROVE  CatInv'
<1>1. /\ WorldInv /\ RequestInv /\ FilesInv /\ ImagesInv /\ MergedInv /\ OutInv
      /\ CursorInv /\ WaitInv
  BY DEF CatInv
<1>2. /\ pc = "read"
      /\ UNCHANGED <<argv, opt, world, files, remaining, early, images,
                     scanError, next, matched, opened, seen, out, flushed>>
  BY DEF MergeScan
<1>3. PICK all : all = Merged(images)
  OBVIOUS
<1>4. PICK n : n = Totals(images).undecodable
  OBVIOUS
<1>5. PICK b : b = Totals(images).unreadable
  OBVIOUS
<1>6. /\ images \in Seq(ImageType)
      /\ \A i \in DOMAIN images : IsImage(images[i])
  BY <1>1, ImagesAre
<1>7. /\ all \in Seq(Records)
      /\ \A x : Holds(all, x) =>
           \E i \in DOMAIN images : \E o \in images[i].items \ {0} :
             x = MergedRecord(images[i].seg, o)
      /\ \A i \in DOMAIN images : 0 \in images[i].items =>
           \A o \in images[i].items \ {0} :
             Holds(all, MergedRecord(images[i].seg, o))
      /\ \A j, k \in DOMAIN all : j < k =>
           /\ ~Precedes(all[k], all[j])
           /\ \/ Precedes(all[j], all[k])
              \/ all[j].seg = all[k].seg /\ Once(images, all[j].seg) =>
                   all[j].off < all[k].off
  BY <1>3, <1>6, MergedIs
<1>8. CASE Exit(4) /\ UNCHANGED <<merged, health>>
  <2>1. Leaves /\ UNCHANGED Found
    BY <1>2, <1>8 DEF Leaves, Found, Exit, scanVars, world
  <2> QED
    BY <2>1, LeaveStep
<1>9. CASE /\ merged' = all
           /\ health' = [health EXCEPT !.scans = TRUE, !.records = Len(all),
                                       !.inputErrorSeen = @ \/ scanError,
                                       !.undecodable = n, !.unreadable = b]
           /\ IF Incomplete(Totals(images)) THEN Exit(1) ELSE Goto("print")
  <2>1. \/ pc' = "exit" /\ exit' = 1
        \/ /\ pc' = "print"
           /\ Waits => ~scanError /\ ~b /\ n = 0
    BY <1>4, <1>5, <1>9 DEF Exit, Goto, Incomplete
  <2>2. /\ n \in Nat
        /\ \A i \in DOMAIN images :
             0 \notin images[i].items /\ images[i].items # {} => n > 0
    BY <1>1, <1>4, LossesFound
  <2>3. b \in BOOLEAN /\ Len(all) \in Nat
    BY <1>5, <1>7, LenProperties DEF Totals
  <2>4. /\ health' \in Report /\ health'.emitted = health.emitted
        /\ health'.undecodable = n /\ health'.unreadable = b
        /\ health'.inputErrorSeen => health.inputErrorSeen \/ scanError
    BY <1>1, <1>9, <2>2, <2>3 DEF WaitInv, Report
  <2>5. next = 1
    BY <1>1, <1>2 DEF MergedInv
  <2>6. WorldInv'
    BY <1>1, <1>2 DEF WorldInv, world
  <2>7. RequestInv' /\ FilesInv'
    BY <1>1, <1>2, <2>1 DEF RequestInv, FilesInv, Waits
  <2>8. ImagesInv'
    BY <1>1, <1>2 DEF ImagesInv, world
  <2>9. ASSUME NEW k \in DOMAIN all
        PROVE  all[k].off \in visible[all[k].seg]
    <3>1. Holds(all, all[k])
      BY DEF Holds
    <3>2. PICK i \in DOMAIN images : \E o \in images[i].items \ {0} :
            all[k] = MergedRecord(images[i].seg, o)
      BY <1>7, <3>1
    <3>3. PICK m : m = images[i]
      OBVIOUS
    <3>4. PICK o \in m.items \ {0} : all[k] = MergedRecord(m.seg, o)
      BY <3>2, <3>3
    <3>5. /\ m.seg \in Segments /\ o \in Offsets(m.seg) /\ o \in visible[m.seg]
      BY <1>1, <1>6, <3>3, ImageFacts DEF ImagesInv
    <3> QED
      BY <3>4, <3>5, RecordFacts
  <2>10. MergedInv'
    BY <1>2, <1>7, <1>9, <2>1, <2>5, <2>9 DEF MergedInv, world
  <2>11. ShownInv'
    <3>1. SUFFICES ASSUME pc' = "print", NEW i \in DOMAIN images,
                          NEW o \in images[i].items \ {0}, ~(n > 0)
                   PROVE  \E k \in DOMAIN all : all[k] = MergedRecord(images[i].seg, o)
      BY <1>2, <1>9, <2>1, <2>4 DEF ShownInv, Shown
    <3>2. 0 \in images[i].items
      BY <2>2, <3>1
    <3> QED
      BY <1>7, <3>2 DEF Holds
  <2>12. PassedInv'
    <3>1. DOMAIN all \subseteq Nat \ {0}
      BY <1>7, LenProperties
    <3>2. next' = 1 /\ merged' = all
      BY <1>2, <1>9, <2>5
    <3>3. ~ \E k \in DOMAIN all : k < 1
      BY <3>1
    <3>4. pc' = "print" \/ (pc' = "exit" /\ exit' # 0)
      BY <2>1
    <3> QED
      BY <3>2, <3>3, <3>4 DEF PassedInv
  <2>13. OutInv' /\ CursorInv'
    BY <1>1, <1>2, OutKept, CursorKept DEF world
  <2>14. SortedInv'
    BY <1>2, <1>7, <1>9 DEF SortedInv, ReadOnce, Once
  <2>15. WaitInv'
    <3>1. Waits' => Waits /\ ~matched' /\ out' = <<>>
      BY <1>1, <1>2 DEF WaitInv, Waits
    <3>2. Waits => ~health.inputErrorSeen
      BY <1>1, <1>2 DEF WaitInv
    <3>3. pc' # "parse"
      BY <2>1
    <3>4. health'.emitted = Len(out')
      BY <1>1, <1>2, <2>4 DEF WaitInv
    <3>5. Waits' => \/ pc' = "exit" /\ exit' # 0
                    \/ /\ ~health'.unreadable /\ health'.undecodable = 0
                       /\ ~health'.inputErrorSeen
      BY <2>1, <2>4, <3>1, <3>2
    <3> QED
      BY <2>4, <3>1, <3>3, <3>4, <3>5 DEF WaitInv
  <2>16. ExitInv'
    BY <2>1 DEF ExitInv
  <2> QED
    BY <2>6, <2>7, <2>8, <2>10, <2>11, <2>12, <2>13, <2>14, <2>15, <2>16 DEF CatInv
<1> QED
  BY <1>3, <1>4, <1>5, <1>8, <1>9 DEF MergeScan

-----------------------------------------------------------------------------
(* The record loop.                                                        *)

LEMMA KeysTell ==
  ASSUME NEW s \in Segments, NEW t \in Segments, NEW o, NEW p,
         KeyOf(s, o) = KeyOf(t, p)
  PROVE  s = t /\ o = p
BY GenerationsAssumption DEF KeyOf

LEMMA LookedAt ==
  ASSUME CatInv, Looks, NEW r, r = merged[next]
  PROVE  /\ next \in DOMAIN merged
         /\ r.seg \in Segments /\ r.off \in Offsets(r.seg)
         /\ r.off \in visible[r.seg] /\ r.off \in Nat
         /\ Key(r) = KeyOf(r.seg, r.off)
         /\ wanted(r) <=> Wants(r.seg, r.off)
         /\ Waits => ~matched /\ out = <<>>
<1>1. MergedInv /\ WaitInv
  BY DEF CatInv
<1>2. PICK n \in Nat : merged \in [1..n -> Records] /\ n = Len(merged)
  BY <1>1, SeqDef, LenProperties DEF MergedInv
<1>3. next \in 1..n /\ DOMAIN merged = 1..n
  BY <1>1, <1>2 DEF MergedInv, Looks
<1>4. r \in Records /\ r.off \in visible[r.seg]
  BY <1>1, <1>2, <1>3 DEF MergedInv
<1>5. PICK s, o : s = r.seg /\ o = r.off
  OBVIOUS
<1>6. s \in Segments /\ o \in Offsets(s) /\ r = MergedRecord(s, o)
  BY <1>4, <1>5, RecordIs
<1>7. Key(r) = KeyOf(s, o)
  BY <1>5, <1>6, RecordFacts DEF Key, KeyOf
<1>8. wanted(r) <=> Wants(s, o)
  BY <1>5 DEF wanted, Wants
<1>9. o \in Nat
  BY <1>6, MessagesAssumption
<1>10. Waits => ~matched /\ out = <<>>
  BY <1>1, UnmatchedYet DEF Looks, WaitInv
<1> QED
  BY <1>3, <1>4, <1>5, <1>6, <1>7, <1>8, <1>9, <1>10

(* A record is passed over: it is not wanted, or it is printed already.    *)
LEMMA PassOverStep ==
  ASSUME CatInv, Looks, NEW r, r = merged[next],
         wanted(r) => Printed(r.seg, r.off),
         seen \subseteq seen', seen' \subseteq seen \cup {Key(r)},
         next' = next + 1,
         UNCHANGED <<argv, opt, pc, exit, world, files, remaining, early,
                     images, scanError, merged, matched, opened, out, flushed,
                     health>>
  PROVE  CatInv'
<1>1. /\ WorldInv /\ RequestInv /\ FilesInv /\ ImagesInv /\ MergedInv
      /\ ShownInv /\ PassedInv /\ OutInv /\ CursorInv /\ SortedInv /\ WaitInv
  BY DEF CatInv
<1>2. /\ next \in DOMAIN merged
      /\ r.seg \in Segments /\ r.off \in Offsets(r.seg)
      /\ Key(r) = KeyOf(r.seg, r.off)
      /\ wanted(r) <=> Wants(r.seg, r.off)
      /\ Waits => ~matched /\ out = <<>>
  BY LookedAt
<1>3. pc = "print" /\ pc' = "print"
  BY DEF Looks
<1>4. WorldInv' /\ ImagesInv' /\ SortedInv'
  BY <1>1, SortedKept DEF WorldInv, ImagesInv, world
<1>5. RequestInv' /\ FilesInv'
  BY <1>1, <1>3 DEF RequestInv, FilesInv, Waits, world
<1>6. MergedInv'
  BY <1>1, <1>3 DEF MergedInv, world
<1>7. ShownInv'
  BY <1>1, <1>3 DEF ShownInv, Shown
<1>8. PassedInv'
  <2>1. ASSUME NEW k \in DOMAIN merged, k < next', wanted(merged[k])'
        PROVE  Printed(merged[k].seg, merged[k].off)' \/ (Waits /\ matched)'
    <3>1. wanted(merged[k])
      BY <2>1 DEF wanted
    <3>2. CASE k < next
      BY <1>1, <1>3, <3>1, <3>2 DEF PassedInv, Shown, Printed, Waits
    <3>3. CASE ~(k < next)
      <4>1. k \in Nat /\ next \in Nat
        BY <1>1, LenProperties DEF MergedInv
      <4>2. k = next
        BY <2>1, <3>3, <4>1
      <4> QED
        BY <3>1, <4>2 DEF Printed
    <3> QED
      BY <3>2, <3>3
  <2> QED
    BY <1>3, <2>1 DEF PassedInv
<1>9. OutInv'
  BY <1>1 DEF OutInv, Wants, wanted, world
<1>10. CursorInv'
  <2>1. ASSUME NEW s \in Segments, NEW o \in Offsets(s),
               KeyOf(s, o) \in seen', Wants(s, o)
        PROVE  Printed(s, o)
    <3>1. CASE KeyOf(s, o) \in seen
      BY <1>1, <1>3, <2>1, <3>1 DEF CursorInv
    <3>2. CASE KeyOf(s, o) = Key(r)
      <4>1. s = r.seg /\ o = r.off
        BY <1>2, <3>2, KeysTell
      <4> QED
        BY <1>2, <2>1, <4>1
    <3> QED
      BY <2>1, <3>1, <3>2
  <2>2. opt.follow => /\ IsInjective(out)
                      /\ \A i \in DOMAIN out : KeyOf(out[i][1], out[i][2]) \in seen'
    BY <1>1 DEF CursorInv
  <2>3. UNCHANGED <<opt, out>>
    BY <1>1
  <2>4. \A s \in Segments : \A o \in Offsets(s) :
          Wants(s, o)' = Wants(s, o) /\ Printed(s, o)' = Printed(s, o)
    BY <2>3 DEF Wants, wanted, Printed
  <2> QED
    BY <2>1, <2>2, <2>3, <2>4 DEF CursorInv
<1>11. WaitInv'
  BY <1>1, <1>2, <1>3 DEF WaitInv, Waits
<1>12. ExitInv'
  BY <1>3 DEF ExitInv
<1> QED
  BY <1>4, <1>5, <1>6, <1>7, <1>8, <1>9, <1>10, <1>11, <1>12 DEF CatInv

LEMMA SkipKnownStep ==
  ASSUME CatInv, SkipKnown
  PROVE  CatInv'
<1>1. Looks /\ CursorInv /\ pc = "print"
  BY DEF SkipKnown, Looks, CatInv
<1>2. PICK r : r = merged[next]
  OBVIOUS
<1>3. Key(r) \in seen
  BY <1>2 DEF SkipKnown, Known
<1>4. wanted(r) => Printed(r.seg, r.off)
  <2>1. /\ r.seg \in Segments /\ r.off \in Offsets(r.seg)
        /\ Key(r) = KeyOf(r.seg, r.off)
        /\ wanted(r) <=> Wants(r.seg, r.off)
    BY <1>1, <1>2, LookedAt
  <2> QED
    BY <1>1, <1>3, <2>1 DEF CursorInv
<1>5. seen' = seen /\ next' = next + 1
  BY DEF SkipKnown
<1>6. UNCHANGED <<argv, opt, pc, exit, world, files, remaining, early, images,
                  scanError, merged, matched, opened, out, flushed, health>>
  BY DEF SkipKnown
<1>7. seen \subseteq seen' /\ seen' \subseteq seen \cup {Key(r)}
  BY <1>5
<1> QED
  BY <1>1, <1>2, <1>4, <1>5, <1>6, <1>7, PassOverStep

LEMMA SkipUnwantedStep ==
  ASSUME CatInv, SkipUnwanted
  PROVE  CatInv'
<1>1. Looks
  BY DEF SkipUnwanted, Meets
<1>2. PICK r : r = merged[next]
  OBVIOUS
<1>3. ~wanted(r)
  BY <1>2 DEF SkipUnwanted
<1>4. seen \subseteq seen' /\ seen' \subseteq seen \cup {Key(r)}
  BY <1>2 DEF SkipUnwanted, Meets
<1>5. next' = next + 1
  BY DEF SkipUnwanted
<1>6. UNCHANGED <<argv, opt, pc, exit, world, files, remaining, early, images,
                  scanError, merged, matched, opened, out, flushed, health>>
  BY DEF SkipUnwanted
<1> QED
  BY <1>1, <1>2, <1>3, <1>4, <1>5, <1>6, PassOverStep

LEMMA RefusingSteps ==
  ASSUME CatInv, OutputFull \/ WriteFails
  PROVE  CatInv'
<1>1. /\ Looks /\ seen \subseteq seen'
      /\ UNCHANGED Found
      /\ pc' = "exit" /\ exit' \in {1, 4}
  BY DEF OutputFull, WriteFails, Meets, Exit, Found, scanVars
<1>2. Leaves
  BY <1>1 DEF Leaves, Looks
<1> QED
  BY <1>1, <1>2, LeaveStep

(* One line more.                                                          *)
Adds(z, q, x) == \A y : Holds(z, y) <=> Holds(q, y) \/ y = x

LEMMA Appended ==
  ASSUME NEW T, NEW q \in Seq(T), NEW x \in T, NEW z, z = Append(q, x)
  PROVE  /\ z \in Seq(T) /\ Len(z) = Len(q) + 1 /\ Adds(z, q, x)
         /\ IsInjective(q) /\ ~Holds(q, x) => IsInjective(z)
<1>1. PICK n \in Nat : n = Len(q) /\ DOMAIN q = 1..n
  BY LenProperties
<1>2. /\ z \in Seq(T) /\ Len(z) = n + 1
      /\ \A i \in 1..n : z[i] = q[i]
      /\ z[n + 1] = x
  BY <1>1, AppendProperties
<1>3. DOMAIN z = 1..(n + 1)
  BY <1>2, LenProperties
<1>4. \A i \in 1..(n + 1) : i \in 1..n \/ i = n + 1
  BY <1>1
<1>5. \A i \in 1..n : i \in 1..(n + 1)
  BY <1>1
<1>6. n + 1 \in 1..(n + 1)
  BY <1>1
<1>7. Adds(z, q, x)
  <2>1. ASSUME NEW y
        PROVE  Holds(z, y) <=> Holds(q, y) \/ y = x
    BY <1>1, <1>2, <1>3, <1>4, <1>5, <1>6 DEF Holds
  <2> QED
    BY <2>1 DEF Adds
<1>8. ASSUME IsInjective(q), ~Holds(q, x)
      PROVE  IsInjective(z)
  <2>1. \A i \in 1..n : q[i] # x
    BY <1>1, <1>8 DEF Holds
  <2>2. \A i, j \in 1..n : q[i] = q[j] => i = j
    BY <1>1, <1>8 DEF IsInjective
  <2>3. ASSUME NEW i \in 1..(n + 1), NEW j \in 1..(n + 1), z[i] = z[j]
        PROVE  i = j
    BY <1>2, <1>4, <2>1, <2>2, <2>3
  <2> QED
    BY <1>3, <2>3 DEF IsInjective
<1> QED
  BY <1>1, <1>2, <1>7, <1>8

LEMMA PrintRecordStep ==
  ASSUME CatInv, PrintRecord
  PROVE  CatInv'
<1>1. /\ WorldInv /\ RequestInv /\ FilesInv /\ ImagesInv /\ MergedInv
      /\ ShownInv /\ PassedInv /\ OutInv /\ CursorInv /\ SortedInv /\ WaitInv
  BY DEF CatInv
<1>2. PICK r : r = merged[next]
  OBVIOUS
<1>3. /\ Looks /\ wanted(r) /\ ~Known(r)
      /\ seen' = IF opt.follow THEN seen \cup {Key(r)} ELSE seen
      /\ next' = IF Waits THEN Len(merged) + 1 ELSE next + 1
      /\ matched'
      /\ health' = [health EXCEPT !.emitted = @ + 1]
      /\ UNCHANGED <<argv, opt, pc, exit, world, files, remaining, early,
                     images, scanError, merged, opened, flushed>>
  BY <1>2 DEF PrintRecord, Meets
<1>4. PICK s, o : s = r.seg /\ o = r.off
  OBVIOUS
<1>5. /\ next \in DOMAIN merged
      /\ s \in Segments /\ o \in Offsets(s) /\ o \in visible[s] /\ o \in Nat
      /\ Key(r) = KeyOf(s, o) /\ Wants(s, o)
      /\ Waits => ~matched /\ out = <<>>
  BY <1>2, <1>3, <1>4, LookedAt
<1>6. PICK z : z = Append(out, <<s, o>>)
  OBVIOUS
<1>7. out' = z
  BY <1>2, <1>4, <1>6 DEF PrintRecord
<1>8. /\ z \in Seq(Segments \X Nat) /\ Len(z) = Len(out) + 1
      /\ \A y : Holds(z, y) <=> Holds(out, y) \/ y = <<s, o>>
      /\ IsInjective(out) /\ ~Holds(out, <<s, o>>) => IsInjective(z)
  <2>1. PICK T, q, x : T = Segments \X Nat /\ q = out /\ x = <<s, o>>
    OBVIOUS
  <2>2. q \in Seq(T) /\ x \in T /\ z = Append(q, x)
    BY <1>1, <1>5, <1>6, <2>1 DEF OutInv
  <2>3. /\ z \in Seq(T) /\ Len(z) = Len(q) + 1
        /\ \A y : Holds(z, y) <=> Holds(q, y) \/ y = x
        /\ IsInjective(q) /\ ~Holds(q, x) => IsInjective(z)
    <3>1. /\ z \in Seq(T) /\ Len(z) = Len(q) + 1 /\ Adds(z, q, x)
          /\ IsInjective(q) /\ ~Holds(q, x) => IsInjective(z)
      BY <2>2, Appended
    <3> QED
      BY <3>1 DEF Adds
  <2>4. z \in Seq(Segments \X Nat) /\ Len(z) = Len(out) + 1
    BY <2>1, <2>3
  <2>5. \A y : Holds(z, y) <=> Holds(out, y) \/ y = <<s, o>>
    BY <2>1, <2>3
  <2>6. IsInjective(out) /\ ~Holds(out, <<s, o>>) => IsInjective(z)
    BY <2>1, <2>3
  <2> QED
    BY <2>4, <2>5, <2>6
<1>9. pc = "print" /\ pc' = "print"
  BY <1>3 DEF Looks
<1>10. Len(merged) \in Nat /\ Len(out) \in Nat
  BY <1>1, LenProperties DEF MergedInv, OutInv
<1>11. WorldInv' /\ ImagesInv' /\ SortedInv'
  BY <1>1, <1>3, SortedKept DEF WorldInv, ImagesInv, world
<1>12. RequestInv' /\ FilesInv'
  BY <1>1, <1>3, <1>9 DEF RequestInv, FilesInv, Waits, world
<1>13. MergedInv'
  BY <1>1, <1>3, <1>9, <1>10 DEF MergedInv, world
<1>14. ShownInv'
  <2>1. health'.undecodable = health.undecodable
    BY <1>1, <1>3 DEF WaitInv, Report
  <2> QED
    BY <1>1, <1>3, <1>9, <2>1 DEF ShownInv, Shown
<1>15. \A t, p : Printed(t, p)' <=> Printed(t, p) \/ <<t, p>> = <<s, o>>
  BY <1>7, <1>8 DEF Printed, Holds
<1>16. PassedInv'
  <2>1. CASE Waits
    BY <1>3, <1>9, <2>1 DEF PassedInv, Waits
  <2>2. CASE ~Waits
    <3>1. ASSUME NEW k \in DOMAIN merged, k < next', wanted(merged[k])'
          PROVE  Printed(merged[k].seg, merged[k].off)'
      <4>1. wanted(merged[k])
        BY <1>3, <3>1 DEF wanted
      <4>2. CASE k < next
        <5>1. Printed(merged[k].seg, merged[k].off)
          BY <1>1, <1>9, <2>2, <4>1, <4>2 DEF PassedInv, Shown
        <5> QED
          BY <1>3, <1>15, <5>1 DEF Printed
      <4>3. CASE ~(k < next)
        <5>1. k \in Nat /\ next \in Nat
          BY <1>1, LenProperties DEF MergedInv
        <5>2. k = next
          BY <1>3, <2>2, <3>1, <4>3, <5>1
        <5> QED
          BY <1>2, <1>3, <1>4, <1>15, <5>2 DEF Printed
      <4> QED
        BY <4>2, <4>3
    <3> QED
      BY <1>3, <1>9, <3>1 DEF PassedInv, Waits
  <2> QED
    BY <2>1, <2>2
<1>17. OutInv'
  <2>1. \A i \in DOMAIN out : \A y : out[i] = y =>
          y[2] \in visible[y[1]] \cap Offsets(y[1]) /\ Wants(y[1], y[2])
    BY <1>1 DEF OutInv
  <2>2. ASSUME NEW i \in DOMAIN z
        PROVE  /\ z[i][2] \in visible[z[i][1]] \cap Offsets(z[i][1])
               /\ Wants(z[i][1], z[i][2])
    <3>1. PICK y : y = z[i]
      OBVIOUS
    <3>2. Holds(out, y) \/ y = <<s, o>>
      BY <1>8, <3>1 DEF Holds
    <3>3. y[2] \in visible[y[1]] \cap Offsets(y[1]) /\ Wants(y[1], y[2])
      BY <1>5, <2>1, <3>2 DEF Holds
    <3> QED
      BY <3>1, <3>3
  <2> QED
    BY <1>3, <1>7, <1>8, <2>2 DEF OutInv, Wants, wanted, world
<1>18. CursorInv'
  <2>1. ASSUME NEW t \in Segments, NEW p \in Offsets(t),
               KeyOf(t, p) \in seen', Wants(t, p)
        PROVE  Printed(t, p) \/ <<t, p>> = <<s, o>>
    <3>1. CASE KeyOf(t, p) \in seen
      BY <1>1, <1>9, <2>1, <3>1 DEF CursorInv
    <3>2. CASE KeyOf(t, p) = KeyOf(s, o)
      BY <1>5, <3>2, KeysTell
    <3> QED
      BY <1>3, <1>5, <2>1, <3>1, <3>2
  <2>2. ASSUME opt.follow
        PROVE  /\ IsInjective(z)
               /\ \A i \in DOMAIN z : KeyOf(z[i][1], z[i][2]) \in seen'
    <3>1. /\ IsInjective(out)
          /\ \A y : Holds(out, y) => KeyOf(y[1], y[2]) \in seen
      BY <1>1, <2>2 DEF CursorInv, Holds
    <3>2. KeyOf(s, o) \notin seen /\ seen' = seen \cup {KeyOf(s, o)}
      BY <1>3, <1>5, <2>2 DEF Known
    <3>3. PICK y : y = <<s, o>>
      OBVIOUS
    <3>4. y[1] = s /\ y[2] = o
      BY <3>3
    <3>5. ~Holds(out, y)
      BY <3>1, <3>2, <3>4
    <3>6. ASSUME NEW i \in DOMAIN z
          PROVE  KeyOf(z[i][1], z[i][2]) \in seen'
      <4>1. PICK x : x = z[i]
        OBVIOUS
      <4>2. Holds(out, x) \/ x = y
        BY <1>8, <3>3, <4>1 DEF Holds
      <4>3. KeyOf(x[1], x[2]) \in seen'
        BY <3>1, <3>2, <3>4, <4>2
      <4> QED
        BY <4>1, <4>3
    <3>7. IsInjective(z)
      BY <1>8, <3>1, <3>3, <3>5
    <3> QED
      BY <3>6, <3>7
  <2>3. opt' = opt /\ \A t, p : Wants(t, p)' <=> Wants(t, p)
    BY <1>3 DEF Wants, wanted
  <2>4. \A t \in Segments : \A p \in Offsets(t) :
          KeyOf(t, p) \in seen' /\ Wants(t, p)' => Printed(t, p)'
    BY <1>15, <2>1, <2>3
  <2>5. \A t \in Segments : \A p \in Offsets(t) :
          KeyOf(t, p) \in seen' /\ Wants(t, p)' =>
            Printed(t, p)' \/ (pc' = "exit" /\ exit' # 0)
    BY <2>4
  <2>6. opt'.follow =>
          /\ IsInjective(out')
          /\ \A i \in DOMAIN out' : KeyOf(out'[i][1], out'[i][2]) \in seen'
    <3>1. out' = z /\ opt' = opt
      BY <1>7, <2>3
    <3> QED
      BY <2>2, <3>1
  <2> QED
    BY <2>5, <2>6 DEF CursorInv
<1>19. WaitInv'
  <2>1. health' \in Report /\ health'.emitted = Len(z)
        /\ health'.unreadable = health.unreadable
        /\ health'.undecodable = health.undecodable
        /\ health'.inputErrorSeen = health.inputErrorSeen
    <3>1. PICK n \in Nat : n = health.emitted /\ n = Len(out)
      BY <1>1, <1>10 DEF WaitInv
    <3>2. health \in Report /\ health' = [health EXCEPT !.emitted = n + 1]
      BY <1>1, <1>3, <3>1 DEF WaitInv
    <3>3. /\ health' \in Report /\ health'.emitted = n + 1
          /\ health'.unreadable = health.unreadable
          /\ health'.undecodable = health.undecodable
          /\ health'.inputErrorSeen = health.inputErrorSeen
      BY <3>2 DEF Report
    <3> QED
      BY <1>8, <3>1, <3>3
  <2>2. ASSUME Waits
        PROVE  /\ Len(z) = 1 /\ next' > Len(merged)
               /\ ~health.unreadable /\ health.undecodable = 0
               /\ ~health.inputErrorSeen
    BY <1>1, <1>3, <1>5, <1>8, <1>9, <1>10, <2>2 DEF WaitInv
  <2>3. Waits' <=> Waits
    BY <1>3 DEF Waits
  <2>4. Waits' =>
          /\ matched' /\ pc' = "print" /\ Len(out') = 1
          /\ next' > Len(merged')
          /\ ~health'.unreadable /\ health'.undecodable = 0
          /\ ~health'.inputErrorSeen
    BY <1>3, <1>7, <1>9, <2>1, <2>2, <2>3
  <2> QED
    BY <1>7, <1>9, <2>1, <2>4 DEF WaitInv
<1>20. ExitInv'
  BY <1>9 DEF ExitInv
<1> QED
  BY <1>11, <1>12, <1>13, <1>14, <1>16, <1>17, <1>18, <1>19, <1>20 DEF CatInv

LEMMA EndScanStep ==
  ASSUME CatInv, EndScan
  PROVE  CatInv'
<1> USE DEF world, scanVars
<1>1. /\ WorldInv /\ RequestInv /\ FilesInv /\ ImagesInv /\ MergedInv
      /\ ShownInv /\ PassedInv /\ OutInv /\ CursorInv /\ SortedInv /\ WaitInv
  BY DEF CatInv
<1>2. /\ pc = "print" /\ next > Len(merged) /\ flushed' = Len(out)
      /\ UNCHANGED <<argv, opt, world, scanVars, opened, seen, out, health>>
  BY DEF EndScan, Flush
<1>3. \/ /\ pc' = "exit" /\ exit' \in {0, 1} /\ LastScan
         /\ exit' = 0 => opened
      \/ pc' = "exit" /\ exit' = 3 /\ ~LastScan /\ Waits /\ late
      \/ pc' = "pause" /\ ~LastScan
  BY DEF EndScan, Exit, Goto
<1>4. LastScan /\ Waits => matched
  BY <1>1 DEF LastScan, RequestInv
<1>5. ~LastScan => ~(Waits /\ matched)
  BY DEF LastScan
<1>6. WorldInv' /\ ImagesInv' /\ SortedInv'
  BY <1>1, <1>2, SortedKept DEF WorldInv, ImagesInv
<1>7. RequestInv' /\ FilesInv'
  BY <1>1, <1>2, <1>3 DEF RequestInv, FilesInv, Waits
<1>8. MergedInv'
  BY <1>1, <1>2, <1>3 DEF MergedInv
<1>9. ShownInv'
  BY <1>1, <1>2 DEF ShownInv, Shown
<1>10. PassedInv'
  BY <1>1, <1>2, <1>3, <1>5 DEF PassedInv, Shown, Printed, Waits, wanted
<1>11. OutInv'
  BY <1>1, <1>2, OutKept
<1>12. CursorInv'
  BY <1>1, <1>2, CursorKept
<1>13. WaitInv'
  BY <1>1, <1>2, <1>3, <1>5 DEF WaitInv, Waits
<1>14. ExitInv'
  BY <1>2, <1>3, <1>4, <1>5 DEF ExitInv, Waits
<1> QED
  BY <1>6, <1>7, <1>8, <1>9, <1>10, <1>11, <1>12, <1>13, <1>14 DEF CatInv

LEMMA WakeStep ==
  ASSUME CatInv, Wake
  PROVE  CatInv'
<1> USE DEF world, scanVars
<1>1. /\ WorldInv /\ RequestInv /\ FilesInv /\ ImagesInv /\ MergedInv
      /\ OutInv /\ CursorInv /\ SortedInv /\ WaitInv
  BY DEF CatInv
<1>2. /\ pc = "pause" /\ pc' = "scan"
      /\ UNCHANGED <<argv, opt, world, scanVars, opened, seen, out, flushed,
                     health>>
  BY DEF Wake, Goto
<1>3. WorldInv' /\ ImagesInv' /\ SortedInv'
  BY <1>1, <1>2, SortedKept DEF WorldInv, ImagesInv
<1>4. RequestInv' /\ FilesInv' /\ MergedInv'
  BY <1>1, <1>2 DEF RequestInv, FilesInv, MergedInv, Waits
<1>5. ShownInv' /\ PassedInv'
  BY <1>2 DEF ShownInv, PassedInv, Shown
<1>6. OutInv'
  BY <1>1, <1>2, OutKept
<1>7. CursorInv'
  BY <1>1, <1>2, CursorKept
<1>8. WaitInv' /\ ExitInv'
  BY <1>1, <1>2 DEF WaitInv, ExitInv, Waits
<1> QED
  BY <1>3, <1>4, <1>5, <1>6, <1>7, <1>8 DEF CatInv

-----------------------------------------------------------------------------
(* Every step, and the theorems.                                           *)

LEMMA InitCat ==
  ASSUME Init
  PROVE  CatInv
<1>1. Options \in Request
  BY CatAssumption DEF Options, Request
<1>2. /\ argv \in Seq(Argument) /\ opt = Options /\ pc = "parse"
      /\ files = <<>> /\ images = <<>> /\ merged = <<>> /\ next = 1
      /\ ~matched /\ seen = {} /\ out = <<>> /\ cancelled = 0
      /\ ~opt.helpOnly /\ ~Waits
  BY ArgumentsAssumption DEF Init, Options, Waits
<1>3. WorldInv
  <2>1. PICK start \in Starts :
          content = start.content /\ visible = start.visible
    BY DEF Init
  <2> QED
    BY <1>2, <2>1, CatAssumption DEF WorldInv
<1>4. RequestInv /\ FilesInv /\ ImagesInv /\ MergedInv
  BY <1>1, <1>2 DEF RequestInv, FilesInv, ImagesInv, MergedInv
<1>5. ShownInv /\ PassedInv /\ SortedInv /\ ExitInv
  BY <1>2 DEF ShownInv, PassedInv, Shown, SortedInv, ExitInv
<1>6. OutInv /\ CursorInv
  BY <1>2 DEF OutInv, CursorInv, IsInjective
<1>7. health \in Report /\ health.emitted = 0 /\ ~health.unreadable
      /\ health.undecodable = 0 /\ ~health.inputErrorSeen
  BY DEF Init, Report
<1>8. WaitInv
  BY <1>2, <1>7 DEF WaitInv
<1> QED
  BY <1>3, <1>4, <1>5, <1>6, <1>8 DEF CatInv

LEMMA CatStep ==
  ASSUME CatInv, [Next]_vars
  PROVE  CatInv'
<1>1. CASE Step
  <2>1. CASE ParseOption \/ ParseEnd
    BY <2>1, ParseOptionStep, ParseEndStep
  <2>2. CASE BeginScan \/ OpenFile \/ CopyFile \/ MergeScan
    BY <2>2, BeginScanStep, OpenFileStep, CopyFileStep, MergeScanStep
  <2>3. CASE StopCancelled \/ StopLate \/ CursorFull \/ FlushFails
    BY <2>3, LeavingSteps
  <2>4. CASE SkipKnown \/ SkipUnwanted
    BY <2>4, SkipKnownStep, SkipUnwantedStep
  <2>5. CASE OutputFull
    BY <2>5, RefusingSteps
  <2>6. CASE PrintRecord
    BY <2>6, PrintRecordStep
  <2>7. CASE EndScan \/ Wake
    BY <2>7, EndScanStep, WakeStep
  <2> QED
    BY <1>1, <2>1, <2>2, <2>3, <2>4, <2>5, <2>6, <2>7 DEF Step
<1>2. CASE Fails
  BY <1>2, LeavingSteps, CopyFailsStep, RefusingSteps DEF Fails
<1>3. CASE World
  BY <1>3, WorldStep
<1>4. CASE Done \/ UNCHANGED vars
  BY <1>4, CatStutters DEF Done
<1> QED
  BY <1>1, <1>2, <1>3, <1>4 DEF Next

(* The inductive invariant of the program (run, main).                     *)
THEOREM CatInvariance == Spec => []CatInv
<1>1. Init => CatInv
  BY InitCat
<1>2. CatInv /\ [Next]_vars => CatInv'
  BY CatStep
<1> QED
  BY <1>1, <1>2, PTL DEF Spec

(* While following, no record is printed twice, however often its file is  *)
(* scanned, renamed, copied or put back, and only what was committed and   *)
(* passes every filter is printed (the cursor of run, wanted).             *)
THEOREM PrintedOnce == Spec => []PrintsOnce
<1>1. CatInv => PrintsOnce
  <2> SUFFICES ASSUME CatInv
               PROVE  PrintsOnce
    OBVIOUS
  <2>1. OutInv /\ CursorInv
    BY DEF CatInv
  <2> QED
    BY <2>1 DEF PrintsOnce, OutInv, CursorInv, Wants
<1> QED
  BY <1>1, CatInvariance, PTL

(* A scan leaves nothing behind: every wanted record of the images it read *)
(* is printed when the program pauses or has ended a snapshot, or the      *)
(* health report counts records that could not be decoded (run).           *)
THEOREM NothingLeftOut == Spec => []NothingMissed
<1>1. CatInv => NothingMissed
  <2> SUFFICES ASSUME CatInv,
                      pc = "pause"
                        \/ (pc = "exit" /\ exit = 0 /\ ~opt.helpOnly /\ ~Waits),
                      NEW i \in DOMAIN images, NEW o \in images[i].items \ {0},
                      wanted([seg |-> images[i].seg, off |-> o]),
                      ~(health.undecodable > 0)
               PROVE  Printed(images[i].seg, o)
    BY DEF NothingMissed
  <2>1. ImagesInv /\ ShownInv /\ PassedInv /\ MergedInv
    BY DEF CatInv
  <2>2. PICK s : s = images[i].seg
    OBVIOUS
  <2>3. s \in Segments /\ o \in Offsets(s)
    BY <2>1, <2>2, ImagesAre, ImageFacts
  <2>4. Shown /\ next > Len(merged) /\ ~(Waits /\ matched)
    BY <2>1 DEF PassedInv, Shown
  <2>5. PICK k \in DOMAIN merged : merged[k] = MergedRecord(s, o)
    BY <2>1, <2>2, <2>4 DEF ShownInv
  <2>6. merged[k].seg = s /\ merged[k].off = o
    BY <2>3, <2>5, RecordFacts
  <2>7. wanted(merged[k])
    BY <2>2, <2>6 DEF wanted
  <2>8. k < next
    <3>1. k \in 1..Len(merged) /\ Len(merged) \in Nat /\ next \in Nat
      BY <2>1, LenProperties DEF MergedInv
    <3> QED
      BY <2>4, <3>1
  <2> QED
    BY <2>1, <2>2, <2>4, <2>6, <2>7, <2>8 DEF PassedInv
<1> QED
  BY <1>1, CatInvariance, PTL

(* The exit code tells what happened, and the health report counts the     *)
(* lines that were printed (run, main).                                    *)
THEOREM ExitIsTold == Spec => []ExitTells
<1>1. CatInv => ExitTells
  <2> SUFFICES ASSUME CatInv, pc = "exit"
               PROVE  ExitTells
    BY DEF ExitTells
  <2>1. ExitInv /\ WaitInv
    BY DEF CatInv
  <2>2. Waits /\ matched => Len(out) = 1
    BY <2>1 DEF WaitInv
  <2>3. Waits /\ ~matched => out = <<>>
    BY <2>1 DEF WaitInv
  <2>4. Waits /\ exit = 0 =>
          ~health.unreadable /\ health.undecodable = 0 /\ ~health.inputErrorSeen
    BY <2>1 DEF WaitInv
  <2>5. health.emitted = Len(out)
    BY <2>1 DEF WaitInv
  <2> QED
    BY <2>1, <2>2, <2>3, <2>4, <2>5 DEF ExitInv, ExitTells
<1> QED
  BY <1>1, CatInvariance, PTL

LEMMA AlignedIs ==
  ASSUME ClocksAgree, NEW s \in Segments, NEW o \in Offsets(s),
         NEW h, h = Headers[s], NEW m, m = Messages[s][o]
  PROVE  /\ h.mono \in Nat /\ h.wall \in Nat /\ m.mono \in Nat
         /\ m.instant \in Nat
         /\ Aligned(h, m.mono) = IF m.mono >= h.mono
                                 THEN h.wall + (m.mono - h.mono) ELSE h.wall
         /\ m.mono >= h.mono => /\ Aligned(h, m.mono) <= m.instant + Skew
                                /\ m.instant <= Aligned(h, m.mono) + Skew
<1>1. h.mono \in Nat /\ h.wall \in Nat /\ m.mono \in Nat /\ Word \in Nat \ {0}
  BY HeaderFacts, MessagesAssumption
<1>2. /\ h.wall + m.mono < Word /\ m.instant \in Nat
      /\ m.mono >= h.mono =>
           /\ h.wall + (m.mono - h.mono) <= m.instant + Skew
           /\ m.instant <= h.wall + (m.mono - h.mono) + Skew
  BY DEF ClocksAgree
<1>3. PICK v : v = h.wall + (m.mono - h.mono)
  OBVIOUS
<1>4. m.mono >= h.mono => v \in 0..(Word - 1)
  BY <1>1, <1>2, <1>3
<1>5. \A x \in 0..(Word - 1) : x % Word = x
  BY <1>1
<1>6. Aligned(h, m.mono) = IF m.mono >= h.mono THEN v ELSE h.wall
  BY <1>1, <1>3, <1>4, <1>5 DEF Aligned
<1> QED
  BY <1>1, <1>2, <1>3, <1>6

(* Each scan is in the order in which the records were written, as far as  *)
(* the clocks told it: records stamped after their anchors by the instants *)
(* give or take twice the skew, those of one thread of a segment by their  *)
(* stamps and, on equal stamps, by their offsets, ties by process, thread  *)
(* and stamp (Merger::merged).                                             *)
THEOREM ScansInOrder ==
  ASSUME ClocksAgree
  PROVE  Spec => []ScansAreInOrder
<1>1. CatInv => ScansAreInOrder
  <2> SUFFICES ASSUME CatInv, NEW i \in DOMAIN merged, NEW j \in DOMAIN merged,
                      NEW a, a = merged[i], NEW b, b = merged[j], i < j
               PROVE  /\ (/\ a.mono >= Headers[a.seg].mono
                          /\ b.mono >= Headers[b.seg].mono) =>
                           Messages[a.seg][a.off].instant
                             <= Messages[b.seg][b.off].instant + 2 * Skew
                      /\ (a.seg = b.seg /\ a.thread = b.thread) =>
                           /\ a.mono <= b.mono
                           /\ a.mono = b.mono /\ ReadOnce(a.seg) => a.off < b.off
                      /\ a.aligned = b.aligned =>
                           /\ a.pid <= b.pid
                           /\ a.pid = b.pid =>
                                /\ a.thread <= b.thread
                                /\ a.thread = b.thread => a.mono <= b.mono
    BY DEF ScansAreInOrder
  <2>1. MergedInv /\ SortedInv
    BY DEF CatInv
  <2>2. /\ a \in Records /\ b \in Records /\ ~Precedes(b, a)
        /\ Precedes(a, b) \/ (a.seg = b.seg /\ ReadOnce(a.seg) => a.off < b.off)
    BY <2>1 DEF MergedInv, SortedInv
  <2>3. PICK s, o : s = a.seg /\ o = a.off
    OBVIOUS
  <2>4. PICK t, p : t = b.seg /\ p = b.off
    OBVIOUS
  <2>5. /\ s \in Segments /\ o \in Offsets(s) /\ a = MergedRecord(s, o)
        /\ t \in Segments /\ p \in Offsets(t) /\ b = MergedRecord(t, p)
        /\ a \in RecordType /\ b \in RecordType
    BY <2>2, <2>3, <2>4, RecordIs
  <2>6. PICK g, h : g = Headers[s] /\ h = Headers[t]
    OBVIOUS
  <2>7. PICK m, n : m = Messages[s][o] /\ n = Messages[t][p]
    OBVIOUS
  <2>8. /\ a.mono = m.mono /\ a.pid = g.pid /\ a.aligned = Aligned(g, m.mono)
        /\ b.mono = n.mono /\ b.pid = h.pid /\ b.aligned = Aligned(h, n.mono)
    BY <2>5, <2>6, <2>7, RecordFacts
  <2>9. /\ g.mono \in Nat /\ g.wall \in Nat /\ m.mono \in Nat
        /\ m.instant \in Nat
        /\ a.aligned = IF m.mono >= g.mono THEN g.wall + (m.mono - g.mono)
                                           ELSE g.wall
        /\ m.mono >= g.mono => m.instant <= a.aligned + Skew
    BY <2>5, <2>6, <2>7, <2>8, AlignedIs
  <2>10. /\ h.mono \in Nat /\ h.wall \in Nat /\ n.mono \in Nat
         /\ n.instant \in Nat
         /\ b.aligned = IF n.mono >= h.mono THEN h.wall + (n.mono - h.mono)
                                            ELSE h.wall
         /\ n.mono >= h.mono => b.aligned <= n.instant + Skew
    BY <2>5, <2>6, <2>7, <2>8, AlignedIs
  <2>11. /\ a.aligned <= b.aligned /\ a.aligned \in Nat /\ b.aligned \in Nat
         /\ a.pid \in Nat /\ b.pid \in Nat /\ a.thread \in Nat /\ b.thread \in Nat
    <3>1. /\ a.pid \in Nat /\ b.pid \in Nat
          /\ a.thread \in Nat /\ b.thread \in Nat
      BY <2>5 DEF RecordType
    <3>2. a.aligned \in Nat /\ b.aligned \in Nat
      BY <2>9, <2>10
    <3> QED
      BY <2>2, <3>1, <3>2 DEF Precedes
  <2>12. ASSUME m.mono >= g.mono, n.mono >= h.mono
         PROVE  m.instant <= n.instant + 2 * Skew
    BY <2>9, <2>10, <2>11, <2>12, CatAssumption
  <2>13. ASSUME a.aligned = b.aligned
         PROVE  /\ a.pid <= b.pid
                /\ a.pid = b.pid =>
                     /\ a.thread <= b.thread
                     /\ a.thread = b.thread => a.mono <= b.mono
    BY <2>2, <2>8, <2>9, <2>10, <2>11, <2>13 DEF Precedes
  <2>14. ASSUME a.seg = b.seg, a.thread = b.thread
         PROVE  a.mono <= b.mono
    <3>1. g = h /\ a.pid = b.pid
      BY <2>3, <2>4, <2>6, <2>8, <2>14
    <3>2. SUFFICES ASSUME n.mono < m.mono
                   PROVE  FALSE
      BY <2>8, <2>9, <2>10
    <3>3. b.aligned <= a.aligned
      BY <2>9, <2>10, <3>1, <3>2
    <3>4. a.aligned = b.aligned
      BY <2>11, <3>3
    <3> QED
      BY <2>8, <2>9, <2>10, <2>13, <2>14, <3>1, <3>2, <3>4
  <2>15. ASSUME a.seg = b.seg, a.thread = b.thread, a.mono = b.mono,
                ReadOnce(a.seg)
         PROVE  a.off < b.off
    <3>1. g = h /\ a.pid = b.pid /\ m.mono = n.mono
      BY <2>3, <2>4, <2>6, <2>8, <2>15
    <3>2. a.aligned = b.aligned
      BY <2>9, <2>10, <3>1
    <3>3. ~Precedes(a, b)
      BY <2>8, <2>9, <2>11, <2>15, <3>1, <3>2 DEF Precedes
    <3> QED
      BY <2>2, <2>15, <3>3
  <2> QED
    BY <2>3, <2>4, <2>6, <2>7, <2>8, <2>12, <2>13, <2>14, <2>15
<1> QED
  BY <1>1, CatInvariance, PTL

=============================================================================
