-------------------------- MODULE CollectionLemmas --------------------------
(***************************************************************************)
(* Induction over the naturals, and what it gives about finite sets and    *)
(* sequences: sums over a set, whose value does not depend on the order in *)
(* which MapThenSumSet takes the elements; the elements of a set put into  *)
(* an order; sequences joined by FlattenSeq.                               *)
(***************************************************************************)
EXTENDS Naturals, SequencesExt, FiniteSetTheorems, SequenceTheorems,
        WellFoundedInduction, TLAPS

-----------------------------------------------------------------------------
(* Induction.                                                              *)

LEMMA Least ==
  ASSUME NEW T, T \subseteq Nat, T # {}
  PROVE  \E x \in T : \A y \in T : x <= y
<1>1. PICK x \in T : \A y \in T : ~(<<y, x>> \in OpToRel(<, Nat))
  BY NatLessThanWellFounded, WFMin
<1>2. \A y \in T : ~(y < x)
  BY <1>1 DEF OpToRel
<1> QED
  BY <1>2

(* The set of the numbers of which something is true takes the place of    *)
(* the predicate.                                                          *)
LEMMA SetInduction ==
  ASSUME NEW G, 0 \in G, \A n \in Nat : n \in G => n + 1 \in G
  PROVE  Nat \subseteq G
<1> SUFFICES ASSUME NEW m \in Nat, m \notin G
             PROVE  FALSE
  OBVIOUS
<1>1. PICK x \in Nat \ G : \A y \in Nat \ G : x <= y
  BY Least
<1>2. x # 0 /\ x - 1 \in Nat
  BY <1>1
<1>3. x - 1 \in G
  BY <1>1, <1>2
<1> QED
  BY <1>1, <1>2, <1>3

-----------------------------------------------------------------------------
(* Sums.                                                                   *)

AnyOf(T) == CHOOSE x \in T : TRUE

(* One turn of the summation, given the sums of the smaller sets.          *)
SumTurn(f, g, T) == IF T = {} THEN 0 ELSE f[AnyOf(T)] + g[T \ {AnyOf(T)}]

(* MapThenSumSet(LAMBDA x : f[x], T) for the subsets T of S.               *)
SumOf(f, S) == CHOOSE g : g = [T \in SUBSET S |-> SumTurn(f, g, T)]

(* The recursion over the subsets of a finite set has a solution.          *)
LEMMA SumExists ==
  ASSUME NEW S, IsFiniteSet(S), NEW f
  PROVE  SumOf(f, S) = [T \in SUBSET S |-> SumTurn(f, SumOf(f, S), T)]
<1> DEFINE Small(n) == {T \in SUBSET S : Cardinality(T) <= n}
           G == {n \in Nat : \E g : g = [T \in Small(n) |-> SumTurn(f, g, T)]}
<1>1. \A T \in SUBSET S :
        /\ IsFiniteSet(T) /\ Cardinality(T) \in Nat
        /\ T # {} => /\ AnyOf(T) \in T
                     /\ T \ {AnyOf(T)} \in SUBSET S
                     /\ Cardinality(T \ {AnyOf(T)}) = Cardinality(T) - 1
  <2> SUFFICES ASSUME NEW T \in SUBSET S
               PROVE  /\ IsFiniteSet(T) /\ Cardinality(T) \in Nat
                      /\ T # {} =>
                           /\ AnyOf(T) \in T
                           /\ T \ {AnyOf(T)} \in SUBSET S
                           /\ Cardinality(T \ {AnyOf(T)}) = Cardinality(T) - 1
    OBVIOUS
  <2>1. IsFiniteSet(T) /\ Cardinality(T) \in Nat
    BY FS_Subset, FS_CardinalityType
  <2>2. T # {} => AnyOf(T) \in T
    BY DEF AnyOf
  <2> QED
    BY <2>1, <2>2, FS_RemoveElement
<1>2. 0 \in G
  <2> DEFINE g == [T \in Small(0) |-> 0]
  <2>1. ASSUME NEW T \in Small(0)
        PROVE  T = {}
    <3>1. T \in SUBSET S /\ Cardinality(T) <= 0
      OBVIOUS
    <3>2. Cardinality(T) \in Nat /\ IsFiniteSet(T)
      BY <1>1, <3>1
    <3>3. Cardinality(T) = 0
      BY <3>1, <3>2
    <3> QED
      BY <3>2, <3>3, FS_EmptySet
  <2>2. g = [T \in Small(0) |-> SumTurn(f, g, T)]
    BY <2>1 DEF SumTurn
  <2> QED
    BY <2>2
<1>3. ASSUME NEW n \in Nat, n \in G
      PROVE  n + 1 \in G
  <2>1. PICK g : g = [T \in Small(n) |-> SumTurn(f, g, T)]
    BY <1>3
  <2> DEFINE h == [T \in Small(n + 1) |-> SumTurn(f, g, T)]
  <2>2. \A T \in Small(n) : T \in Small(n + 1) /\ h[T] = g[T]
    <3>1. ASSUME NEW T \in Small(n)
          PROVE  T \in Small(n + 1)
      <4>1. T \in SUBSET S /\ Cardinality(T) \in Nat /\ Cardinality(T) <= n
        BY <1>1, <3>1
      <4>2. Cardinality(T) <= n + 1
        BY <4>1
      <4> QED
        BY <4>1, <4>2
    <3>2. \A T \in Small(n) : g[T] = SumTurn(f, g, T)
      BY <2>1
    <3> HIDE DEF Small
    <3> QED
      BY <3>1, <3>2
  <2>3. \A T \in Small(n + 1) : T # {} => T \ {AnyOf(T)} \in Small(n)
    <3> SUFFICES ASSUME NEW T \in Small(n + 1), T # {}
                 PROVE  T \ {AnyOf(T)} \in Small(n)
      OBVIOUS
    <3>1. /\ T \in SUBSET S /\ Cardinality(T) <= n + 1 /\ Cardinality(T) \in Nat
          /\ T \ {AnyOf(T)} \in SUBSET S
          /\ Cardinality(T \ {AnyOf(T)}) = Cardinality(T) - 1
      BY <1>1
    <3> QED
      BY <3>1
  <2>4. \A T \in Small(n + 1) : SumTurn(f, g, T) = SumTurn(f, h, T)
    <3> HIDE DEF Small, h
    <3> QED
      BY <2>2, <2>3 DEF SumTurn
  <2>5. h = [T \in Small(n + 1) |-> SumTurn(f, h, T)]
    <3>1. h = [T \in Small(n + 1) |-> SumTurn(f, g, T)]
      OBVIOUS
    <3> HIDE DEF Small, h
    <3> QED
      BY <2>4, <3>1
  <2>6. n + 1 \in Nat
    OBVIOUS
  <2> HIDE DEF Small, h
  <2> QED
    BY <2>5, <2>6
<1>4. Cardinality(S) \in G
  <2> HIDE DEF G
  <2> QED
    BY <1>2, <1>3, SetInduction, FS_CardinalityType
<1>5. Small(Cardinality(S)) = SUBSET S
  BY <1>1, FS_Subset
<1> QED
  BY <1>4, <1>5 DEF SumOf

(* What the sum over a set is, whichever element it is split at.           *)
LEMMA SumFacts ==
  ASSUME NEW S, IsFiniteSet(S), NEW f \in [S -> Nat]
  PROVE  /\ SumOf(f, S)[{}] = 0
         /\ \A T \in SUBSET S : SumOf(f, S)[T] \in Nat
         /\ \A T \in SUBSET S : \A x \in T :
              SumOf(f, S)[T] = f[x] + SumOf(f, S)[T \ {x}]
<1> DEFINE g == SumOf(f, S)
           Good(T) == /\ g[T] \in Nat
                      /\ \A x \in T : g[T] = f[x] + g[T \ {x}]
           G == {n \in Nat : \A T \in SUBSET S : Cardinality(T) <= n => Good(T)}
<1>1. \A T \in SUBSET S : g[T] = SumTurn(f, g, T)
  <2>1. g = [T \in SUBSET S |-> SumTurn(f, g, T)]
    BY SumExists
  <2> HIDE DEF g
  <2> QED
    BY <2>1
<1>2. \A T \in SUBSET S : IsFiniteSet(T) /\ Cardinality(T) \in Nat
  BY FS_Subset, FS_CardinalityType
<1>3. g[{}] = 0
  BY <1>1 DEF SumTurn
<1> HIDE DEF g
<1>4. 0 \in G
  <2>1. \A T \in SUBSET S : Cardinality(T) <= 0 => T = {}
    <3> SUFFICES ASSUME NEW T \in SUBSET S, Cardinality(T) <= 0
                 PROVE  T = {}
      OBVIOUS
    <3>1. Cardinality(T) = 0 /\ IsFiniteSet(T)
      BY <1>2
    <3> QED
      BY <3>1, FS_EmptySet
  <2> QED
    BY <1>3, <2>1
<1>5. ASSUME NEW n \in Nat, n \in G
      PROVE  n + 1 \in G
  <2> SUFFICES ASSUME NEW T \in SUBSET S, Cardinality(T) <= n + 1, T # {}
               PROVE  Good(T)
    <3>1. Good({}) /\ n + 1 \in Nat
      BY <1>3
    <3> HIDE DEF Good
    <3> QED
      BY <3>1
  <2>1. \A x \in T : T \ {x} \in SUBSET S /\ Cardinality(T \ {x}) <= n
    <3>1. ASSUME NEW x \in T
          PROVE  Cardinality(T \ {x}) = Cardinality(T) - 1
      BY <1>2, FS_RemoveElement
    <3> QED
      BY <1>2, <3>1
  <2>2. \A x \in T : Good(T \ {x})
    BY <1>5, <2>1
  <2>4. PICK a \in T : a = AnyOf(T)
    BY DEF AnyOf
  <2>5. g[T] = f[a] + g[T \ {a}]
    BY <1>1, <2>4 DEF SumTurn
  <2>6. \A x \in T : f[x] \in Nat /\ g[T \ {x}] \in Nat
    BY <2>2
  <2>7. ASSUME NEW x \in T, x # a
        PROVE  g[T] = f[x] + g[T \ {x}]
    <3>1. (T \ {a}) \ {x} = (T \ {x}) \ {a}
      OBVIOUS
    <3>2. PICK U : U = (T \ {a}) \ {x}
      OBVIOUS
    <3>3. g[T \ {a}] = f[x] + g[U] /\ g[T \ {x}] = f[a] + g[U]
      BY <2>2, <2>7, <3>1, <3>2
    <3>4. g[U] \in Nat
      <4>1. U \in SUBSET S /\ U \subseteq T \ {x}
        BY <3>1, <3>2
      <4>2. Cardinality(U) <= Cardinality(T \ {x})
        BY <1>2, <2>1, <4>1, FS_Subset
      <4>3. Cardinality(U) <= n
        BY <1>2, <2>1, <4>1, <4>2
      <4> QED
        BY <1>5, <4>1, <4>3
    <3> HIDE DEF G, Good
    <3> QED
      BY <2>5, <2>6, <3>3, <3>4
  <2>8. g[T] \in Nat
    BY <2>5, <2>6
  <2> QED
    BY <2>5, <2>7, <2>8
<1>6. Nat \subseteq G
  <2> HIDE DEF G
  <2> QED
    BY <1>4, <1>5, SetInduction
<1>7. \A T \in SUBSET S : Good(T)
  <2> SUFFICES ASSUME NEW T \in SUBSET S
               PROVE  Good(T)
    OBVIOUS
  <2>1. Cardinality(T) \in G /\ Cardinality(T) <= Cardinality(T)
    BY <1>2, <1>6
  <2> HIDE DEF Good
  <2> QED
    BY <2>1
<1> QED
  BY <1>3, <1>7 DEF g

(* The sum of equal terms.                                                 *)
LEMMA SumCongruence ==
  ASSUME NEW S, IsFiniteSet(S), NEW f \in [S -> Nat], NEW h \in [S -> Nat],
         NEW U \in SUBSET S, \A y \in U : f[y] = h[y]
  PROVE  SumOf(f, S)[U] = SumOf(h, S)[U]
<1> DEFINE Same(T) == SumOf(f, S)[T] = SumOf(h, S)[T]
           G == {n \in Nat : \A T \in SUBSET U : Cardinality(T) = n => Same(T)}
<1>1. \A T \in SUBSET U : /\ T \in SUBSET S
                          /\ IsFiniteSet(T) /\ Cardinality(T) \in Nat
  BY FS_Subset, FS_CardinalityType
<1>2. 0 \in G
  <2>1. \A T \in SUBSET U : Cardinality(T) = 0 => T = {}
    BY <1>1, FS_EmptySet
  <2>2. Same({})
    BY SumFacts
  <2> HIDE DEF Same
  <2> QED
    BY <2>1, <2>2
<1>3. ASSUME NEW n \in Nat, n \in G
      PROVE  n + 1 \in G
  <2> SUFFICES ASSUME NEW T \in SUBSET U, Cardinality(T) = n + 1
               PROVE  Same(T)
    OBVIOUS
  <2>0. n + 1 # 0
    OBVIOUS
  <2>1. T # {}
    BY <2>0, FS_EmptySet
  <2>2. PICK a \in T : TRUE
    BY <2>1
  <2>3. T \ {a} \in SUBSET U /\ Cardinality(T \ {a}) = n
    BY <1>1, FS_RemoveElement
  <2>4. Same(T \ {a})
    BY <1>3, <2>3
  <2>5. /\ SumOf(f, S)[T] = f[a] + SumOf(f, S)[T \ {a}]
        /\ SumOf(h, S)[T] = h[a] + SumOf(h, S)[T \ {a}]
    BY <1>1, SumFacts
  <2> QED
    BY <2>4, <2>5
<1>4. Cardinality(U) \in G
  <2> HIDE DEF G
  <2> QED
    BY <1>1, <1>2, <1>3, SetInduction
<1> QED
  BY <1>4

(* The sum over a finite set, as MapThenSumSet computes it.                *)
SetSum(f, S) == SumOf(f, S)[S]

(* One term taken out of the whole sum.                                    *)
LEMMA SumSplit ==
  ASSUME NEW S, IsFiniteSet(S), NEW f \in [S -> Nat], NEW x \in S
  PROVE  /\ SumOf(f, S)[S] = f[x] + SumOf(f, S)[S \ {x}]
         /\ SumOf(f, S)[S \ {x}] \in Nat
<1>1. /\ \A T \in SUBSET S : SumOf(f, S)[T] \in Nat
      /\ \A T \in SUBSET S : \A y \in T :
           SumOf(f, S)[T] = f[y] + SumOf(f, S)[T \ {y}]
  BY SumFacts
<1>2. S \in SUBSET S /\ S \ {x} \in SUBSET S
  OBVIOUS
<1> QED
  BY <1>1, <1>2

(* Raising one term raises the sum.                                        *)
LEMMA SumRaised ==
  ASSUME NEW S, IsFiniteSet(S), NEW f \in [S -> Nat], NEW x \in S
  PROVE  /\ SetSum(f, S) \in Nat
         /\ SetSum([f EXCEPT ![x] = @ + 1], S) = SetSum(f, S) + 1
<1> DEFINE h == [f EXCEPT ![x] = @ + 1]
<1>1. /\ h \in [S -> Nat] /\ h[x] = f[x] + 1 /\ f[x] \in Nat
      /\ \A y \in S \ {x} : f[y] = h[y]
  OBVIOUS
<1> HIDE DEF h
<1>2. SumOf(f, S)[S \ {x}] = SumOf(h, S)[S \ {x}]
  BY <1>1, SumCongruence
<1>3. /\ SumOf(f, S)[S] = f[x] + SumOf(f, S)[S \ {x}]
      /\ SumOf(f, S)[S \ {x}] \in Nat
  BY SumSplit
<1>4. SumOf(h, S)[S] = h[x] + SumOf(h, S)[S \ {x}]
  BY <1>1, SumSplit
<1>5. SetSum(h, S) = SetSum(f, S) + 1 /\ SetSum(f, S) \in Nat
  BY <1>1, <1>2, <1>3, <1>4 DEF SetSum
<1> QED
  BY <1>5 DEF h

(* The sum of nothing but zeros.                                           *)
LEMMA SumZero ==
  ASSUME NEW S, IsFiniteSet(S)
  PROVE  SetSum([x \in S |-> 0], S) = 0
<1> DEFINE f == [x \in S |-> 0]
           G == {n \in Nat : \A T \in SUBSET S :
                               Cardinality(T) = n => SumOf(f, S)[T] = 0}
<1>0. f \in [S -> Nat] /\ \A x \in S : f[x] = 0
  OBVIOUS
<1> HIDE DEF f
<1>1. \A T \in SUBSET S : IsFiniteSet(T) /\ Cardinality(T) \in Nat
  BY FS_Subset, FS_CardinalityType
<1>2. 0 \in G
  <2>1. \A T \in SUBSET S : Cardinality(T) = 0 => T = {}
    BY <1>1, FS_EmptySet
  <2> QED
    BY <1>0, <2>1, SumFacts
<1>3. ASSUME NEW n \in Nat, n \in G
      PROVE  n + 1 \in G
  <2> SUFFICES ASSUME NEW T \in SUBSET S, Cardinality(T) = n + 1
               PROVE  SumOf(f, S)[T] = 0
    OBVIOUS
  <2>0. n + 1 # 0
    OBVIOUS
  <2>1. T # {}
    BY <2>0, FS_EmptySet
  <2>2. PICK a \in T : TRUE
    BY <2>1
  <2>3. T \ {a} \in SUBSET S /\ Cardinality(T \ {a}) = n
    <3>1. IsFiniteSet(T)
      BY <1>1
    <3>2. Cardinality(T \ {a}) = Cardinality(T) - 1
      BY <2>2, <3>1, FS_RemoveElement
    <3> QED
      BY <3>2
  <2>4. SumOf(f, S)[T \ {a}] = 0
    BY <1>3, <2>3
  <2>5. SumOf(f, S)[T] = f[a] + SumOf(f, S)[T \ {a}]
    BY <1>0, SumFacts
  <2> QED
    BY <1>0, <2>4, <2>5
<1>4. Cardinality(S) \in G
  <2> HIDE DEF G
  <2> QED
    BY <1>1, <1>2, <1>3, SetInduction
<1> QED
  BY <1>4 DEF SetSum, f

(* The sums over one and over two elements.                                *)
LEMMA SumOfOne ==
  ASSUME NEW a, NEW f \in [{a} -> Nat]
  PROVE  SetSum(f, {a}) = f[a]
<1>1. PICK S : S = {a}
  OBVIOUS
<1>2. IsFiniteSet(S) /\ S \ {a} = {} /\ a \in S /\ S \in SUBSET S
  BY <1>1, FS_Singleton
<1>3. f \in [S -> Nat] /\ f[a] \in Nat
  BY <1>1
<1>4. SumOf(f, S)[{}] = 0
  BY <1>2, <1>3, SumFacts
<1>5. SumOf(f, S)[S] = f[a] + SumOf(f, S)[S \ {a}]
  BY <1>2, <1>3, SumFacts
<1> QED
  BY <1>1, <1>2, <1>3, <1>4, <1>5 DEF SetSum

LEMMA SumOfTwo ==
  ASSUME NEW a, NEW b, a # b, NEW f \in [{a, b} -> Nat]
  PROVE  SetSum(f, {a, b}) = f[a] + f[b]
<1>1. PICK S : S = {a, b}
  OBVIOUS
<1>2. IsFiniteSet(S)
  <2>1. IsFiniteSet({a}) /\ S = {a} \cup {b}
    BY <1>1, FS_Singleton
  <2> QED
    BY <2>1, FS_AddElement
<1>3. PICK T \in SUBSET S : T = S \ {a}
  OBVIOUS
<1>4. T \ {b} = {} /\ a \in S /\ b \in T /\ S \in SUBSET S
  BY <1>1, <1>3
<1>5. f \in [S -> Nat] /\ f[a] \in Nat /\ f[b] \in Nat
  BY <1>1
<1>6. \A U \in SUBSET S : \A x \in U :
        SumOf(f, S)[U] = f[x] + SumOf(f, S)[U \ {x}]
  BY <1>2, <1>5, SumFacts
<1>7. /\ SumOf(f, S)[S] = f[a] + SumOf(f, S)[S \ {a}]
      /\ SumOf(f, S)[T] = f[b] + SumOf(f, S)[T \ {b}]
  BY <1>4, <1>6, Zenon
<1>8. SumOf(f, S)[{}] = 0
  BY <1>2, <1>5, SumFacts
<1>9. SumOf(f, S)[T] = f[b]
  BY <1>4, <1>5, <1>7, <1>8
<1>10. SumOf(f, S)[S] = f[a] + f[b]
  BY <1>3, <1>7, <1>9
<1> QED
  BY <1>1, <1>10 DEF SetSum

LEMMA SumFunctionIs ==
  ASSUME NEW f
  PROVE  SumFunction(f) = SetSum(f, DOMAIN f)
BY DEF SumFunction, SumFunctionOnSet, FoldFunctionOnSet, MapThenFoldSet,
       SetSum, SumOf, SumTurn, AnyOf

LEMMA SumBounds ==
  ASSUME NEW S, IsFiniteSet(S), NEW f \in [S -> Nat]
  PROVE  /\ SumFunction(f) \in Nat
         /\ \A x \in S : f[x] <= SumFunction(f)
<1>1. SumFunction(f) = SumOf(f, S)[S]
  BY SumFunctionIs DEF SetSum
<1>2. ASSUME NEW x \in S
      PROVE  f[x] <= SumOf(f, S)[S]
  <2>1. PICK T : T = S \ {x} /\ T \in SUBSET S
    OBVIOUS
  <2>2. S \in SUBSET S
    OBVIOUS
  <2>3. /\ \A U \in SUBSET S : SumOf(f, S)[U] \in Nat
        /\ \A U \in SUBSET S : \A y \in U :
             SumOf(f, S)[U] = f[y] + SumOf(f, S)[U \ {y}]
    BY SumFacts
  <2>4. SumOf(f, S)[S] = f[x] + SumOf(f, S)[T] /\ SumOf(f, S)[T] \in Nat
    BY <2>1, <2>2, <2>3
  <2>5. f[x] \in Nat
    OBVIOUS
  <2> QED
    BY <2>4, <2>5
<1>3. SumOf(f, S)[S] \in Nat
  <2>1. S \in SUBSET S
    OBVIOUS
  <2> QED
    BY <2>1, SumFacts
<1> QED
  BY <1>1, <1>2, <1>3

-----------------------------------------------------------------------------
(* Joining sequences.                                                      *)

LEMMA FunctionIsSeq ==
  ASSUME NEW n \in Nat, NEW S, NEW f \in [1..n -> S]
  PROVE  f \in Seq(S) /\ Len(f) = n
<1>1. f \in Seq(S)
  BY SeqDef
<1>2. Len(f) \in Nat /\ 1..Len(f) = 1..n
  BY <1>1, LenProperties
<1> QED
  BY <1>1, <1>2

(* The parts one after the other.                                          *)
Joint(seqs, g, i) == IF i = 1 THEN seqs[i] ELSE g[i - 1] \o seqs[i]

LEMMA JointExists ==
  ASSUME NEW z, NEW u \in Nat
  PROVE  \E g : g = [i \in 1..u |-> Joint(z, g, i)]
<1> DEFINE G == {v \in Nat : \E g : g = [i \in 1..v |-> Joint(z, g, i)]}
<1>1. 0 \in G
  <2>1. PICK g : g = [i \in 1..0 |-> z]
    OBVIOUS
  <2>2. g = [i \in 1..0 |-> Joint(z, g, i)]
    BY <2>1
  <2> QED
    BY <2>2
<1>2. ASSUME NEW v \in Nat, v \in G
      PROVE  v + 1 \in G
  <2>1. PICK g : g = [i \in 1..v |-> Joint(z, g, i)]
    BY <1>2
  <2>2. PICK h : h = [i \in 1..(v + 1) |->
                        IF i = v + 1 THEN Joint(z, g, i) ELSE g[i]]
    OBVIOUS
  <2>3. ASSUME NEW i \in 1..(v + 1)
        PROVE  h[i] = Joint(z, h, i)
    <3>1. i # 1 => /\ i - 1 \in 1..v /\ i - 1 \in 1..(v + 1)
                   /\ i - 1 # v + 1
      OBVIOUS
    <3>2. i # 1 => h[i - 1] = g[i - 1]
      BY <2>2, <3>1
    <3>3. Joint(z, h, i) = Joint(z, g, i)
      BY <3>2 DEF Joint
    <3>4. CASE i = v + 1
      BY <2>2, <3>3, <3>4
    <3>5. CASE i # v + 1
      <4>1. i \in 1..v
        BY <3>5
      <4>2. h[i] = g[i] /\ g[i] = Joint(z, g, i)
        BY <2>1, <2>2, <3>5, <4>1
      <4> QED
        BY <3>3, <4>2
    <3> QED
      BY <3>4, <3>5
  <2>4. h = [i \in 1..(v + 1) |-> h[i]]
    BY <2>2
  <2>5. h = [i \in 1..(v + 1) |-> Joint(z, h, i)]
    BY <2>3, <2>4
  <2>6. v + 1 \in Nat
    OBVIOUS
  <2> QED
    BY <2>5, <2>6
<1> HIDE DEF G
<1>3. Nat \subseteq G
  BY <1>1, <1>2, SetInduction
<1>4. u \in G
  BY <1>3
<1> QED
  BY <1>4 DEF G

JointOf(z) == CHOOSE g : g = [i \in 1..Len(z) |-> Joint(z, g, i)]

LEMMA FlattenIs ==
  ASSUME NEW z
  PROVE  FlattenSeq(z) = IF Len(z) = 0 THEN z ELSE JointOf(z)[Len(z)]
BY DEF FlattenSeq, JointOf, Joint

(* The elements of a sequence.                                             *)
Holds(s, x) == \E k \in DOMAIN s : s[k] = x

LEMMA AppendedHolds ==
  ASSUME NEW T, NEW s \in Seq(T), NEW t \in Seq(T)
  PROVE  /\ s \o t \in Seq(T)
         /\ \A x : Holds(s \o t, x) <=> Holds(s, x) \/ Holds(t, x)
<1>1. /\ s \o t \in Seq(T) /\ Len(s \o t) = Len(s) + Len(t)
      /\ \A k \in 1..(Len(s) + Len(t)) :
           (s \o t)[k] = IF k <= Len(s) THEN s[k] ELSE t[k - Len(s)]
  BY ConcatProperties
<1>2. /\ DOMAIN s = 1..Len(s) /\ DOMAIN t = 1..Len(t)
      /\ DOMAIN (s \o t) = 1..(Len(s) + Len(t))
      /\ Len(s) \in Nat /\ Len(t) \in Nat
  BY <1>1, LenProperties
<1>3. ASSUME NEW x, Holds(s \o t, x)
      PROVE  Holds(s, x) \/ Holds(t, x)
  <2>1. PICK k \in 1..(Len(s) + Len(t)) : (s \o t)[k] = x
    BY <1>2, <1>3 DEF Holds
  <2>2. CASE k <= Len(s)
    <3>1. k \in DOMAIN s /\ s[k] = x
      BY <1>1, <1>2, <2>1, <2>2
    <3> QED
      BY <3>1 DEF Holds
  <2>3. CASE ~(k <= Len(s))
    <3>1. k - Len(s) \in DOMAIN t /\ t[k - Len(s)] = x
      BY <1>1, <1>2, <2>1, <2>3
    <3> QED
      BY <3>1 DEF Holds
  <2> QED
    BY <2>2, <2>3
<1>4. ASSUME NEW x, Holds(s, x)
      PROVE  Holds(s \o t, x)
  <2>1. PICK k \in 1..Len(s) : s[k] = x
    BY <1>2, <1>4 DEF Holds
  <2>2. k \in DOMAIN (s \o t) /\ (s \o t)[k] = x
    BY <1>1, <1>2, <2>1
  <2> QED
    BY <2>2 DEF Holds
<1>5. ASSUME NEW x, Holds(t, x)
      PROVE  Holds(s \o t, x)
  <2>1. PICK k \in 1..Len(t) : t[k] = x
    BY <1>2, <1>5 DEF Holds
  <2>2. PICK m : m = Len(s) + k
    OBVIOUS
  <2>3. m \in 1..(Len(s) + Len(t)) /\ ~(m <= Len(s)) /\ m - Len(s) = k
    BY <1>2, <2>1, <2>2
  <2>4. m \in DOMAIN (s \o t) /\ (s \o t)[m] = x
    BY <1>1, <1>2, <2>1, <2>3
  <2> QED
    BY <2>4 DEF Holds
<1> QED
  BY <1>1, <1>3, <1>4, <1>5

LEMMA Flattened ==
  ASSUME NEW T, NEW u \in Nat, NEW z \in [1..u -> Seq(T)]
  PROVE  /\ FlattenSeq(z) \in Seq(T)
         /\ \A x : Holds(FlattenSeq(z), x) <=> \E i \in 1..u : Holds(z[i], x)
<1>1. Len(z) = u
  BY FunctionIsSeq
<1>2. CASE u = 0
  <2>1. FlattenSeq(z) = z
    BY <1>1, <1>2, FlattenIs
  <2>2. z = <<>> /\ 1..u = {}
    BY <1>2
  <2> QED
    BY <2>1, <2>2 DEF Holds
<1>3. CASE u # 0
  <2>1. PICK g : g = JointOf(z)
    OBVIOUS
  <2>2. g = [i \in 1..u |-> Joint(z, g, i)] /\ FlattenSeq(z) = g[u]
    BY <1>1, <1>3, <2>1, FlattenIs, JointExists DEF JointOf
  <2> DEFINE Good(i) == /\ g[i] \in Seq(T)
                        /\ \A x : Holds(g[i], x)
                                   <=> \E j \in 1..i : Holds(z[j], x)
             G == {n \in Nat : n \in 1..u => Good(n)}
  <2>3. 0 \in G
    OBVIOUS
  <2>4. ASSUME NEW n \in Nat, n \in G
        PROVE  n + 1 \in G
    <3>1. SUFFICES ASSUME n + 1 \in 1..u
                   PROVE  Good(n + 1)
      OBVIOUS
    <3>2. PICK m : m = n + 1
      OBVIOUS
    <3>3. m \in 1..u /\ g[m] = Joint(z, g, m) /\ z[m] \in Seq(T)
      BY <2>2, <3>1, <3>2
    <3>4. CASE n = 0
      <4>1. m = 1 /\ g[m] = z[m] /\ 1..m = {m}
        BY <3>2, <3>3, <3>4 DEF Joint
      <4>2. Good(m)
        BY <3>3, <4>1
      <4> QED
        BY <3>2, <4>2
    <3>5. CASE n # 0
      <4>1. m # 1 /\ m - 1 = n /\ n \in 1..u /\ 1..m = 1..n \cup {m}
        BY <3>1, <3>2, <3>5
      <4>2. g[m] = g[n] \o z[m]
        BY <3>3, <4>1 DEF Joint
      <4>3. Good(n)
        BY <2>4, <4>1
      <4>4. /\ g[m] \in Seq(T)
            /\ \A x : Holds(g[m], x) <=> Holds(g[n], x) \/ Holds(z[m], x)
        BY <3>3, <4>2, <4>3, AppendedHolds
      <4>5. Good(m)
        BY <4>1, <4>3, <4>4
      <4> QED
        BY <3>2, <4>5
    <3> QED
      BY <3>4, <3>5
  <2> HIDE DEF G
  <2>5. Nat \subseteq G
    BY <2>3, <2>4, SetInduction
  <2>6. u \in G
    BY <2>5
  <2>7. Good(u)
    BY <1>3, <2>6 DEF G
  <2> QED
    BY <2>2, <2>7
<1> QED
  BY <1>2, <1>3

(* What comes later in a sequence, or in a later one, is related by R to   *)
(* what comes before.                                                      *)
Rises(R, s) == \A a, b \in DOMAIN s : a < b => <<s[a], s[b]>> \in R
Follows(R, s, t) == \A x, y : Holds(s, x) /\ Holds(t, y) => <<x, y>> \in R

LEMMA AppendedRises ==
  ASSUME NEW T, NEW s \in Seq(T), NEW t \in Seq(T), NEW R,
         Rises(R, s), Rises(R, t), Follows(R, s, t)
  PROVE  Rises(R, s \o t)
<1>1. /\ DOMAIN s = 1..Len(s) /\ DOMAIN t = 1..Len(t)
      /\ DOMAIN (s \o t) = 1..(Len(s) + Len(t))
      /\ Len(s) \in Nat /\ Len(t) \in Nat
      /\ \A k \in 1..(Len(s) + Len(t)) :
           (s \o t)[k] = IF k <= Len(s) THEN s[k] ELSE t[k - Len(s)]
  BY ConcatProperties, LenProperties
<1>2. PICK m, n \in Nat : m = Len(s) /\ n = Len(t)
  BY <1>1
<1>3. PICK w : w = s \o t
  OBVIOUS
<1>4. /\ \A k \in 1..(m + n) : k <= m => k \in 1..m /\ w[k] = s[k]
      /\ \A k \in 1..(m + n) : ~(k <= m) => k - m \in 1..n /\ w[k] = t[k - m]
  BY <1>1, <1>2, <1>3
<1> SUFFICES ASSUME NEW a \in 1..(m + n), NEW b \in 1..(m + n), a < b
             PROVE  <<w[a], w[b]>> \in R
  BY <1>1, <1>2, <1>3 DEF Rises
<1>5. CASE b <= m
  <2>1. a <= m
    BY <1>5
  <2> QED
    BY <1>1, <1>2, <1>4, <1>5, <2>1 DEF Rises
<1>6. CASE a <= m /\ ~(b <= m)
  <2>1. Holds(s, w[a]) /\ Holds(t, w[b])
    BY <1>1, <1>2, <1>4, <1>6 DEF Holds
  <2> QED
    BY <2>1 DEF Follows
<1>7. CASE ~(a <= m) /\ ~(b <= m)
  <2>1. PICK c, d \in 1..n : c = a - m /\ d = b - m
    BY <1>4, <1>7
  <2>2. c < d /\ w[a] = t[c] /\ w[b] = t[d]
    BY <1>4, <1>7, <2>1
  <2> QED
    BY <1>1, <1>2, <2>2 DEF Rises
<1> QED
  BY <1>5, <1>6, <1>7

LEMMA FlattenedRises ==
  ASSUME NEW T, NEW u \in Nat, NEW z \in [1..u -> Seq(T)], NEW R,
         \A i \in 1..u : Rises(R, z[i]),
         \A i, j \in 1..u : i < j => Follows(R, z[i], z[j])
  PROVE  Rises(R, FlattenSeq(z))
<1>1. Len(z) = u
  BY FunctionIsSeq
<1>2. CASE u = 0
  <2>1. FlattenSeq(z) = z
    BY <1>1, <1>2, FlattenIs
  <2>2. DOMAIN z = {}
    BY <1>2
  <2> QED
    BY <2>1, <2>2 DEF Rises
<1>3. CASE u # 0
  <2>1. PICK g : g = JointOf(z)
    OBVIOUS
  <2>2. g = [i \in 1..u |-> Joint(z, g, i)] /\ FlattenSeq(z) = g[u]
    BY <1>1, <1>3, <2>1, FlattenIs, JointExists DEF JointOf
  <2> DEFINE Good(i) == /\ g[i] \in Seq(T)
                        /\ Rises(R, g[i])
                        /\ \A x : Holds(g[i], x)
                                   => \E j \in 1..i : Holds(z[j], x)
             G == {n \in Nat : n \in 1..u => Good(n)}
  <2>3. 0 \in G
    OBVIOUS
  <2>4. ASSUME NEW n \in Nat, n \in G
        PROVE  n + 1 \in G
    <3>1. SUFFICES ASSUME n + 1 \in 1..u
                   PROVE  Good(n + 1)
      OBVIOUS
    <3>2. PICK m : m = n + 1
      OBVIOUS
    <3>3. m \in 1..u /\ g[m] = Joint(z, g, m) /\ z[m] \in Seq(T)
      BY <2>2, <3>1, <3>2
    <3>4. CASE n = 0
      <4>1. m = 1 /\ g[m] = z[m] /\ 1..m = {m}
        BY <3>2, <3>3, <3>4 DEF Joint
      <4>2. Good(m)
        BY <3>3, <4>1
      <4> QED
        BY <3>2, <4>2
    <3>5. CASE n # 0
      <4>1. m # 1 /\ m - 1 = n /\ n \in 1..u /\ 1..m = 1..n \cup {m}
        BY <3>1, <3>2, <3>5
      <4>2. g[m] = g[n] \o z[m]
        BY <3>3, <4>1 DEF Joint
      <4>3. Good(n)
        BY <2>4, <4>1
      <4>4. /\ g[m] \in Seq(T)
            /\ \A x : Holds(g[m], x) <=> Holds(g[n], x) \/ Holds(z[m], x)
        BY <3>3, <4>2, <4>3, AppendedHolds
      <4>5. Follows(R, g[n], z[m])
        <5> SUFFICES ASSUME NEW x, NEW y, Holds(g[n], x), Holds(z[m], y)
                     PROVE  <<x, y>> \in R
          BY DEF Follows
        <5>1. PICK j \in 1..n : Holds(z[j], x)
          BY <4>3
        <5>2. j \in 1..u /\ j < m
          BY <3>2, <4>1, <5>1
        <5>3. Follows(R, z[j], z[m])
          BY <3>3, <5>2
        <5> QED
          BY <5>1, <5>3 DEF Follows
      <4>6. Rises(R, g[m])
        BY <3>3, <4>2, <4>3, <4>5, AppendedRises
      <4>7. Good(m)
        BY <4>1, <4>3, <4>4, <4>6
      <4> QED
        BY <3>2, <4>7
    <3> QED
      BY <3>4, <3>5
  <2> HIDE DEF G
  <2>5. Nat \subseteq G
    BY <2>3, <2>4, SetInduction
  <2>6. u \in G
    BY <2>5
  <2>7. Good(u)
    BY <1>3, <2>6 DEF G
  <2> QED
    BY <2>2, <2>7
<1> QED
  BY <1>2, <1>3

-----------------------------------------------------------------------------
(* Sorting.                                                                *)

(* What comes before x in S, and how much.                                 *)
Below(R, S, x) == {y \in S : <<y, x>> \in R}
Rank(R, S, x) == Cardinality(Below(R, S, x))

StrictOrder(R, S) ==
  /\ \A x \in S : <<x, x>> \notin R
  /\ \A x, y, z \in S : <<x, y>> \in R /\ <<y, z>> \in R => <<x, z>> \in R
  /\ \A x, y \in S : x = y \/ <<x, y>> \in R \/ <<y, x>> \in R

LEMMA RankBounds ==
  ASSUME NEW S, IsFiniteSet(S), NEW R, StrictOrder(R, S), NEW x \in S
  PROVE  Rank(R, S, x) \in 0..(Cardinality(S) - 1) /\ Cardinality(S) \in Nat
<1>1. Below(R, S, x) \in SUBSET S /\ Below(R, S, x) # S
  BY DEF Below, StrictOrder
<1>2. /\ IsFiniteSet(Below(R, S, x))
      /\ Cardinality(Below(R, S, x)) <= Cardinality(S)
      /\ Cardinality(Below(R, S, x)) # Cardinality(S)
  BY <1>1, FS_Subset
<1>3. Cardinality(Below(R, S, x)) \in Nat /\ Cardinality(S) \in Nat
  BY <1>2, FS_CardinalityType
<1> QED
  BY <1>2, <1>3 DEF Rank

LEMMA RankGrows ==
  ASSUME NEW S, IsFiniteSet(S), NEW R, StrictOrder(R, S),
         NEW x \in S, NEW y \in S, <<x, y>> \in R
  PROVE  Rank(R, S, x) < Rank(R, S, y)
<1>1. /\ Below(R, S, x) \in SUBSET Below(R, S, y)
      /\ Below(R, S, x) # Below(R, S, y)
  BY DEF Below, StrictOrder
<1>2. IsFiniteSet(Below(R, S, y))
  <2>1. Below(R, S, y) \in SUBSET S
    BY DEF Below
  <2> QED
    BY <2>1, FS_Subset
<1>3. /\ Cardinality(Below(R, S, x)) <= Cardinality(Below(R, S, y))
      /\ Cardinality(Below(R, S, x)) # Cardinality(Below(R, S, y))
  BY <1>1, <1>2, FS_Subset
<1>4. Rank(R, S, x) \in Int /\ Rank(R, S, y) \in Int
  BY RankBounds
<1> QED
  BY <1>3, <1>4 DEF Rank

(* The k-th of the elements of S in the order R has k - 1 before it.       *)
Sorts(R, S, q) ==
  /\ q \in [1..Cardinality(S) -> S]
  /\ \A k \in 1..Cardinality(S) : Rank(R, S, q[k]) = k - 1

LEMMA RankTaken ==
  ASSUME NEW S, IsFiniteSet(S), NEW R, StrictOrder(R, S),
         NEW k \in 1..Cardinality(S)
  PROVE  \E x \in S : Rank(R, S, x) = k - 1
<1>1. PICK n \in Nat : n = Cardinality(S)
  BY FS_CardinalityType
<1>2. PICK f : f = [x \in S |-> Rank(R, S, x) + 1]
  OBVIOUS
<1>3. ASSUME NEW x \in S
      PROVE  f[x] \in 1..n /\ f[x] = Rank(R, S, x) + 1
  <2>1. Rank(R, S, x) \in 0..(n - 1)
    BY <1>1, RankBounds
  <2> QED
    BY <1>2, <2>1
<1>4. f \in [S -> 1..n]
  BY <1>2, <1>3
<1>5. ASSUME NEW x \in S, NEW y \in S, f[x] = f[y]
      PROVE  x = y
  <2>1. Rank(R, S, x) = Rank(R, S, y) /\ Rank(R, S, x) \in Int
    BY <1>3, <1>5, RankBounds
  <2>2. <<x, y>> \notin R
    BY <2>1, RankGrows
  <2>3. <<y, x>> \notin R
    BY <2>1, RankGrows
  <2> QED
    BY <2>2, <2>3 DEF StrictOrder
<1>6. f \in Injection(S, 1..n)
  BY <1>4, <1>5 DEF Injection, IsInjective
<1>7. IsFiniteSet(1..n) /\ Cardinality(1..n) = n
  BY FS_Interval
<1>8. f \in Surjection(S, 1..n)
  BY <1>1, <1>6, <1>7, FS_Injection
<1>9. PICK x \in S : f[x] = k
  BY <1>1, <1>8 DEF Surjection
<1> QED
  BY <1>3, <1>9, RankBounds

LEMMA SortsIs ==
  ASSUME NEW S, IsFiniteSet(S), NEW R, StrictOrder(R, S),
         NEW q, Sorts(R, S, q)
  PROVE  /\ \A x \in S : \E k \in 1..Cardinality(S) : q[k] = x
         /\ \A j, k \in 1..Cardinality(S) : j < k => <<q[j], q[k]>> \in R
<1>1. PICK n \in Nat : n = Cardinality(S)
  BY FS_CardinalityType
<1>2. q \in [1..n -> S] /\ \A k \in 1..n : Rank(R, S, q[k]) = k - 1
  BY <1>1 DEF Sorts
<1>3. ASSUME NEW x \in S
      PROVE  \E k \in 1..n : q[k] = x
  <2>1. PICK k : k = Rank(R, S, x) + 1
    OBVIOUS
  <2>2. k \in 1..n /\ Rank(R, S, q[k]) = Rank(R, S, x) /\ q[k] \in S
    <3>1. Rank(R, S, x) \in 0..(n - 1)
      BY <1>1, RankBounds
    <3> QED
      BY <1>2, <2>1, <3>1
  <2>3. Rank(R, S, x) \in Int
    BY RankBounds
  <2>4. <<x, q[k]>> \notin R
    BY <2>2, <2>3, RankGrows
  <2>5. <<q[k], x>> \notin R
    BY <2>2, <2>3, RankGrows
  <2>6. q[k] = x
    BY <2>2, <2>4, <2>5 DEF StrictOrder
  <2> QED
    BY <2>2, <2>6
<1>4. ASSUME NEW j \in 1..n, NEW k \in 1..n, j < k
      PROVE  <<q[j], q[k]>> \in R
  <2>1. q[j] \in S /\ q[k] \in S
    BY <1>2
  <2>2. Rank(R, S, q[j]) < Rank(R, S, q[k])
    BY <1>2, <1>4
  <2>3. Rank(R, S, q[j]) \in Int /\ Rank(R, S, q[k]) \in Int
    BY <2>1, RankBounds
  <2>4. <<q[k], q[j]>> \notin R
    <3> SUFFICES ASSUME <<q[k], q[j]>> \in R
                 PROVE  FALSE
      OBVIOUS
    <3>1. Rank(R, S, q[k]) < Rank(R, S, q[j])
      BY <2>1, RankGrows
    <3> QED
      BY <2>2, <2>3, <3>1
  <2>5. q[j] # q[k]
    BY <2>2, <2>3
  <2> QED
    BY <2>1, <2>4, <2>5 DEF StrictOrder
<1> QED
  BY <1>1, <1>3, <1>4

(* The k-th smallest of a set of integers.                                 *)
NthOf(S, k) == CHOOSE x \in S : Cardinality({y \in S : y < x}) = k - 1

Lists(q, S) ==
  /\ q \in [1..Cardinality(S) -> S]
  /\ \A j, k \in 1..Cardinality(S) : j < k => q[j] < q[k]
  /\ \A x \in S : \E k \in 1..Cardinality(S) : q[k] = x

Nths(S) == [k \in 1..Cardinality(S) |-> NthOf(S, k)]

LEMMA IntegersInOrder ==
  ASSUME NEW S, S \subseteq Int, IsFiniteSet(S),
         NEW q, q = Nths(S)
  PROVE  Lists(q, S)
<1>1. PICK u \in Nat : u = Cardinality(S)
  BY FS_CardinalityType
<1>2. PICK R : R = {p \in S \X S : p[1] < p[2]}
  OBVIOUS
<1>3. StrictOrder(R, S)
  <2>1. \A x, y \in S : <<x, y>> \in R <=> x < y
    BY <1>2
  <2> QED
    BY <2>1 DEF StrictOrder
<1>4. ASSUME NEW k \in 1..u
      PROVE  q[k] \in S /\ Rank(R, S, q[k]) = k - 1
  <2>1. PICK e \in S : Rank(R, S, e) = k - 1
    BY <1>1, <1>3, RankTaken
  <2>2. ASSUME NEW x \in S
        PROVE  {y \in S : y < x} = Below(R, S, x)
    BY <1>2 DEF Below
  <2>3. Cardinality({y \in S : y < e}) = k - 1
    BY <2>1, <2>2 DEF Rank
  <2>4. q[k] = NthOf(S, k)
    BY <1>1 DEF Nths
  <2>5. q[k] \in S /\ Cardinality({y \in S : y < q[k]}) = k - 1
    BY <2>3, <2>4 DEF NthOf
  <2> QED
    BY <2>2, <2>5 DEF Rank
<1>5. q \in [1..u -> S]
  <2>1. q = [k \in 1..u |-> q[k]]
    BY <1>1 DEF Nths
  <2> QED
    BY <1>4, <2>1
<1>6. Sorts(R, S, q)
  BY <1>1, <1>4, <1>5 DEF Sorts
<1>7. /\ \A x \in S : \E k \in 1..u : q[k] = x
      /\ \A j, k \in 1..u : j < k => <<q[j], q[k]>> \in R
  BY <1>1, <1>3, <1>6, SortsIs
<1>8. ASSUME NEW j \in 1..u, NEW k \in 1..u, j < k
      PROVE  q[j] < q[k]
  <2>1. PICK p : p = <<q[j], q[k]>>
    OBVIOUS
  <2>2. p \in R /\ p[1] = q[j] /\ p[2] = q[k]
    BY <1>7, <1>8, <2>1
  <2> QED
    BY <1>2, <2>2
<1> QED
  BY <1>1, <1>5, <1>7, <1>8 DEF Lists

(* An order of keys, of which several elements may have the same.          *)
WeakOrder(P, T) ==
  /\ \A x \in T : <<x, x>> \notin P
  /\ \A x, y, z \in T : <<x, y>> \in P /\ <<y, z>> \in P => <<x, z>> \in P
  /\ \A x, y, z \in T : <<x, z>> \in P => <<x, y>> \in P \/ <<y, z>> \in P

(* The place i of s comes before the place j.                              *)
Earlier(P, s, i, j) ==
  <<s[i], s[j]>> \in P \/ (<<s[j], s[i]>> \notin P /\ i < j)

EarlierPairs(P, s, n) == {p \in (1..n) \X (1..n) : Earlier(P, s, p[1], p[2])}

LEMMA EarlierIsStrict ==
  ASSUME NEW n \in Nat, NEW T, NEW P, WeakOrder(P, T), NEW s \in [1..n -> T]
  PROVE  StrictOrder(EarlierPairs(P, s, n), 1..n)
<1>1. PICK R : R = EarlierPairs(P, s, n)
  OBVIOUS
<1>2. ASSUME NEW i \in 1..n, NEW j \in 1..n
      PROVE  <<i, j>> \in R <=> Earlier(P, s, i, j)
  BY <1>1 DEF EarlierPairs
<1>3. ASSUME NEW i \in 1..n
      PROVE  <<i, i>> \notin R
  <2>1. s[i] \in T /\ ~(i < i)
    OBVIOUS
  <2> QED
    BY <1>2, <2>1 DEF WeakOrder, Earlier
<1>4. ASSUME NEW i \in 1..n, NEW j \in 1..n, NEW k \in 1..n,
             <<i, j>> \in R, <<j, k>> \in R
      PROVE  <<i, k>> \in R
  <2>1. PICK x, y, z \in T : x = s[i] /\ y = s[j] /\ z = s[k]
    OBVIOUS
  <2>2. /\ <<x, y>> \in P \/ (<<y, x>> \notin P /\ i < j)
        /\ <<y, z>> \in P \/ (<<z, y>> \notin P /\ j < k)
    BY <1>2, <1>4, <2>1 DEF Earlier
  <2>3. <<x, z>> \in P \/ (<<z, x>> \notin P /\ i < k)
    BY <2>2 DEF WeakOrder
  <2> QED
    BY <1>2, <2>1, <2>3 DEF Earlier
<1>5. ASSUME NEW i \in 1..n, NEW j \in 1..n, i # j
      PROVE  <<i, j>> \in R \/ <<j, i>> \in R
  <2>1. i < j \/ j < i
    BY <1>5
  <2> QED
    BY <1>2, <2>1 DEF Earlier
<1>6. StrictOrder(R, 1..n)
  BY <1>3, <1>4, <1>5 DEF StrictOrder
<1> QED
  BY <1>1, <1>6

EarlierTo(P, s, n, x) == {y \in 1..n : Earlier(P, s, y, x)}
Arranged(s, q, n) == [k \in 1..n |-> s[q[k]]]

LEMMA EarlierAreBelow ==
  ASSUME NEW n \in Nat, NEW P, NEW s, NEW x \in 1..n
  PROVE  Cardinality(EarlierTo(P, s, n, x)) = Rank(EarlierPairs(P, s, n), 1..n, x)
<1>1. EarlierTo(P, s, n, x) = Below(EarlierPairs(P, s, n), 1..n, x)
  BY DEF Below, EarlierPairs, EarlierTo
<1> QED
  BY <1>1 DEF Rank

LEMMA PlaceExists ==
  ASSUME NEW n \in Nat, NEW T, NEW P, WeakOrder(P, T), NEW s \in [1..n -> T],
         NEW k \in 1..n
  PROVE  \E x \in 1..n : Cardinality(EarlierTo(P, s, n, x)) = k - 1
<1>1. PICK R, S : R = EarlierPairs(P, s, n) /\ S = 1..n
  OBVIOUS
<1>2. StrictOrder(R, S) /\ IsFiniteSet(S) /\ Cardinality(S) = n
  BY <1>1, EarlierIsStrict, FS_Interval
<1>3. k \in 1..Cardinality(S)
  BY <1>2
<1>4. PICK e \in S : Rank(R, S, e) = k - 1
  BY <1>2, <1>3, RankTaken
<1> QED
  BY <1>1, <1>4, EarlierAreBelow

(* The k-th place of q has k - 1 earlier ones; and what that says of q.    *)
InPlace(P, s, n, q) ==
  /\ q \in [1..n -> 1..n]
  /\ \A k \in 1..n : Cardinality(EarlierTo(P, s, n, q[k])) = k - 1

InOrder(P, s, n, q) ==
  /\ q \in [1..n -> 1..n]
  /\ \A x \in 1..n : \E k \in 1..n : q[k] = x
  /\ \A j, k \in 1..n : j < k => Earlier(P, s, q[j], q[k])

LEMMA StablePlaces ==
  ASSUME NEW n \in Nat, NEW T, NEW P, WeakOrder(P, T), NEW s \in [1..n -> T],
         NEW q, InPlace(P, s, n, q)
  PROVE  InOrder(P, s, n, q)
<1>0. /\ q \in [1..n -> 1..n]
      /\ \A k \in 1..n : Cardinality(EarlierTo(P, s, n, q[k])) = k - 1
  BY DEF InPlace
<1>1. PICK R, S : R = EarlierPairs(P, s, n) /\ S = 1..n
  OBVIOUS
<1>2. StrictOrder(R, S) /\ IsFiniteSet(S) /\ Cardinality(S) = n
  BY <1>1, EarlierIsStrict, FS_Interval
<1>3. ASSUME NEW k \in 1..n
      PROVE  Rank(R, S, q[k]) = k - 1
  <2>1. PICK x \in 1..n : x = q[k]
    BY <1>0
  <2>2. Cardinality(EarlierTo(P, s, n, x)) = k - 1
    BY <1>0, <2>1
  <2> QED
    BY <1>1, <2>1, <2>2, EarlierAreBelow
<1>5. Sorts(R, S, q)
  <2>1. PICK u : u = Cardinality(S)
    OBVIOUS
  <2>2. q \in [1..u -> S] /\ \A k \in 1..u : Rank(R, S, q[k]) = k - 1
    BY <1>0, <1>1, <1>2, <1>3, <2>1
  <2> QED
    BY <2>1, <2>2 DEF Sorts
<1>6. /\ \A x \in S : \E k \in 1..n : q[k] = x
      /\ \A j, k \in 1..n : j < k => <<q[j], q[k]>> \in R
  <2>1. PICK u : u = Cardinality(S)
    OBVIOUS
  <2>2. \A x \in S : \E k \in 1..u : q[k] = x
    BY <1>2, <1>5, <2>1, SortsIs
  <2>3. \A j, k \in 1..u : j < k => <<q[j], q[k]>> \in R
    BY <1>2, <1>5, <2>1, SortsIs
  <2> QED
    BY <1>2, <2>1, <2>2, <2>3
<1>7. ASSUME NEW j \in 1..n, NEW k \in 1..n, j < k
      PROVE  Earlier(P, s, q[j], q[k])
  <2>1. PICK p : p = <<q[j], q[k]>>
    OBVIOUS
  <2>2. p \in R /\ p[1] = q[j] /\ p[2] = q[k]
    BY <1>6, <1>7, <2>1
  <2> QED
    BY <1>1, <2>2 DEF EarlierPairs
<1> QED
  BY <1>0, <1>1, <1>6, <1>7 DEF InOrder

LEMMA StableSorts ==
  ASSUME NEW n \in Nat, NEW T, NEW P, WeakOrder(P, T), NEW s \in [1..n -> T],
         NEW q, InOrder(P, s, n, q), NEW r, r = Arranged(s, q, n)
  PROVE  /\ r \in [1..n -> T]
         /\ \A x : Holds(r, x) <=> Holds(s, x)
         /\ \A j, k \in 1..n : j < k => <<r[k], r[j]>> \notin P
         /\ \A R : Rises(R, s) =>
              \A j, k \in 1..n : j < k =>
                <<r[j], r[k]>> \in P \/ <<r[j], r[k]>> \in R
<1>0. /\ q \in [1..n -> 1..n]
      /\ \A x \in 1..n : \E k \in 1..n : q[k] = x
      /\ \A j, k \in 1..n : j < k => Earlier(P, s, q[j], q[k])
  BY DEF InOrder
<1>1. r \in [1..n -> T]
  BY <1>0 DEF Arranged
<1>2. ASSUME NEW x, Holds(r, x)
      PROVE  Holds(s, x)
  <2>1. PICK k \in 1..n : r[k] = x
    BY <1>1, <1>2 DEF Holds
  <2>2. q[k] \in DOMAIN s /\ s[q[k]] = x
    BY <1>0, <1>1, <2>1 DEF Arranged
  <2> QED
    BY <2>2 DEF Holds
<1>3. ASSUME NEW x, Holds(s, x)
      PROVE  Holds(r, x)
  <2>1. PICK i \in 1..n : s[i] = x
    BY <1>3 DEF Holds
  <2>2. PICK k \in 1..n : q[k] = i
    BY <1>0
  <2>3. k \in DOMAIN r /\ r[k] = x
    BY <1>1, <2>1, <2>2 DEF Arranged
  <2> QED
    BY <2>3 DEF Holds
<1>4. ASSUME NEW j \in 1..n, NEW k \in 1..n, j < k
      PROVE  <<r[k], r[j]>> \notin P
  <2>1. PICK a, b \in 1..n : a = q[j] /\ b = q[k]
    BY <1>0
  <2>2. Earlier(P, s, a, b)
    BY <1>0, <1>4, <2>1
  <2>3. s[a] \in T /\ s[b] \in T /\ r[j] = s[a] /\ r[k] = s[b]
    BY <2>1 DEF Arranged
  <2> QED
    BY <2>2, <2>3 DEF Earlier, WeakOrder
<1>5. ASSUME NEW R, Rises(R, s), NEW j \in 1..n, NEW k \in 1..n, j < k
      PROVE  <<r[j], r[k]>> \in P \/ <<r[j], r[k]>> \in R
  <2>1. PICK a, b \in 1..n : a = q[j] /\ b = q[k]
    BY <1>0
  <2>2. Earlier(P, s, a, b)
    BY <1>0, <1>5, <2>1
  <2>3. r[j] = s[a] /\ r[k] = s[b] /\ DOMAIN s = 1..n
    BY <2>1 DEF Arranged
  <2> QED
    BY <1>5, <2>2, <2>3 DEF Earlier, Rises
<1> QED
  BY <1>1, <1>2, <1>3, <1>4, <1>5

=============================================================================
