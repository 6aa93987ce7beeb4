-------------------------- MODULE SequenceLemmas --------------------------
(***************************************************************************)
(* What the sequence operators of the models compute, for arguments of any *)
(* length.  FlattenSeq is a recursive function and SetToSeq a CHOOSE; the  *)
(* induction they need is taken over a set of naturals, so that it is an   *)
(* instance of a first-order lemma.                                        *)
(***************************************************************************)
EXTENDS Integers, Sequences, SequencesExt, FiniteSetTheorems, FunctionTheorems,
        SequenceTheorems, TLAPS

(* Every nonempty set of naturals has a least element. *)
LEMMA LeastNatural ==
    ASSUME NEW T, T \subseteq Nat, T # {}
    PROVE  \E n \in T : \A m \in T : n <= m
<1> DEFINE I == {0..n : n \in T}
<1>1. I \subseteq FiniteSubsetsOf(Nat)
  <2>1. \A n \in Nat : IsFiniteSet(0..n)
    BY FS_Interval
  <2> QED
    BY <2>1 DEF FiniteSubsetsOf
<1>2. I # {}
  OBVIOUS
<1>3. PICK J \in I : \A K \in I : <<K, J>> \notin StrictSubsetOrdering(Nat)
  BY <1>1, <1>2, FS_StrictSubsetOrderingWellFounded, WFMin
<1>4. PICK x \in T : J = 0..x
  OBVIOUS
<1>5. ASSUME NEW y \in T, ~(x <= y) PROVE FALSE
  <2>1. y < x /\ x \in Nat /\ y \in Nat
    BY <1>5
  <2> DEFINE K == 0..y
  <2>2. K \in SUBSET Nat /\ J \in SUBSET Nat /\ K \subseteq J
    BY <1>4, <2>1
  <2>3. K # J
    <3>1. x \in J /\ x \notin K
      BY <1>4, <2>1
    <3> QED
      BY <3>1
  <2>4. <<K, J>> \in StrictSubsetOrdering(Nat)
    BY <2>2, <2>3 DEF StrictSubsetOrdering
  <2> QED
    BY <2>4, <1>3
<1> QED
  BY <1>5

(* Induction: T is the set of naturals a formula holds for. *)
LEMMA NaturalInduction ==
    ASSUME NEW T, 0 \in T, \A n \in Nat : n \in T => n + 1 \in T
    PROVE  \A n \in Nat : n \in T
<1> SUFFICES ASSUME Nat \ T # {} PROVE FALSE
  OBVIOUS
<1>1. PICK n \in Nat \ T : \A m \in Nat \ T : n <= m
  BY LeastNatural
<1>2. n # 0 /\ n - 1 \in Nat
  OBVIOUS
<1>3. n - 1 \in T
  BY <1>1, <1>2
<1>4. (n - 1) + 1 \in T
  BY <1>2, <1>3
<1> QED
  BY <1>4

----------------------------------------------------------------------------
(* SetToSeq lists a finite set without repetition. *)
LEMMA SetToSeqLists ==
    ASSUME NEW S, IsFiniteSet(S)
    PROVE  /\ SetToSeq(S) \in [1..Cardinality(S) -> S] /\ Cardinality(S) \in Nat
           /\ IsInjective(SetToSeq(S))
           /\ SetToSeq(S) \in Seq(S) /\ Len(SetToSeq(S)) = Cardinality(S)
<1>1. PICK f \in Bijection(1..Cardinality(S), S) : TRUE
  BY FS_CardinalityType DEF ExistsBijection
<1>2. f \in [1..Cardinality(S) -> S] /\ IsInjective(f)
  BY <1>1 DEF Bijection, Injection
<1>3. SetToSeq(S) \in [1..Cardinality(S) -> S] /\ IsInjective(SetToSeq(S))
  BY <1>2 DEF SetToSeq
<1>4. Cardinality(S) \in Nat
  BY FS_CardinalityType
<1> QED
  BY <1>3, <1>4

----------------------------------------------------------------------------
(* FlattenSeq *)
Flattens(f, ss, n) ==
    f = [i \in 1..n |-> IF i = 1 THEN ss[i] ELSE f[i - 1] \o ss[i]]

(* The recursion of FlattenSeq has a solution. *)
LEMMA FlattensExists ==
    ASSUME NEW ss
    PROVE  \A n \in Nat : \E f : Flattens(f, ss, n)
<1> DEFINE T == {n \in Nat : \E f : Flattens(f, ss, n)}
<1>1. 0 \in T
  <2>1. Flattens([i \in 1..0 |-> ss[i]], ss, 0)
    BY DEF Flattens
  <2> QED
    BY <2>1
<1>2. ASSUME NEW n \in Nat, n \in T PROVE n + 1 \in T
  <2>1. PICK f : Flattens(f, ss, n)
    BY <1>2
  <2> DEFINE last == IF n = 0 THEN ss[1] ELSE f[n] \o ss[n + 1]
             g == [i \in 1..(n + 1) |-> IF i = n + 1 THEN last ELSE f[i]]
  <2>2. ASSUME NEW i \in 1..(n + 1)
        PROVE  g[i] = IF i = 1 THEN ss[i] ELSE g[i - 1] \o ss[i]
    <3>1. CASE i = n + 1
      BY <3>1
    <3>2. CASE i # n + 1
      <4>1. i \in 1..n /\ (i # 1 => i - 1 \in 1..n)
        BY <3>2
      <4>2. f[i] = IF i = 1 THEN ss[i] ELSE f[i - 1] \o ss[i]
        BY <2>1, <4>1 DEF Flattens
      <4>3. g[i] = f[i]
        BY <3>2
      <4>4. i # 1 => g[i - 1] = f[i - 1]
        BY <4>1
      <4> QED
        BY <4>2, <4>3, <4>4
    <3> QED
      BY <3>1, <3>2
  <2>3. g = [i \in 1..(n + 1) |-> g[i]]
    OBVIOUS
  <2> HIDE DEF g
  <2>4. Flattens(g, ss, n + 1)
    BY <2>2, <2>3 DEF Flattens
  <2> QED
    BY <2>4
<1>3. \A n \in Nat : n \in T
  <2> HIDE DEF T
  <2> QED
    BY <1>1, <1>2, NaturalInduction
<1> QED
  BY <1>3

(* FlattenSeq is the value at the end of a function that flattens prefixes. *)
LEMMA FlattenSeqIs ==
    ASSUME NEW S, NEW ss \in Seq(S), ss # <<>>
    PROVE  \E f : Flattens(f, ss, Len(ss)) /\ FlattenSeq(ss) = f[Len(ss)]
<1>1. Len(ss) \in Nat /\ Len(ss) # 0
  BY EmptySeq
<1>2. \E f : Flattens(f, ss, Len(ss))
  BY <1>1, FlattensExists
<1> QED
  BY <1>1, <1>2 DEF FlattenSeq, Flattens

(* The elements of the flat sequence are the elements of its parts. *)
LEMMA FlattenSeqElements ==
    ASSUME NEW S, NEW ss \in Seq(Seq(S))
    PROVE  /\ FlattenSeq(ss) \in Seq(S)
           /\ Range(FlattenSeq(ss)) = UNION {Range(ss[n]) : n \in DOMAIN ss}
<1>1. CASE ss = <<>>
  <2>1. FlattenSeq(ss) = <<>>
    BY <1>1 DEF FlattenSeq
  <2>2. DOMAIN ss = {} /\ Range(<<>>) = {}
    BY <1>1 DEF Range
  <2>3. UNION {Range(ss[n]) : n \in DOMAIN ss} = {}
    BY <2>2
  <2>4. <<>> \in Seq(S)
    BY EmptySeq
  <2> QED
    BY <2>1, <2>2, <2>3, <2>4
<1>2. CASE ss # <<>>
  <2>1. PICK f : Flattens(f, ss, Len(ss)) /\ FlattenSeq(ss) = f[Len(ss)]
    BY <1>2, FlattenSeqIs
  <2>2. Len(ss) \in Nat /\ Len(ss) # 0 /\ DOMAIN ss = 1..Len(ss)
    BY <1>2, EmptySeq
  <2> DEFINE Upto(n) == UNION {Range(ss[m]) : m \in 1..n}
             T == {n \in Nat : n + 1 \in 1..Len(ss) =>
                      f[n + 1] \in Seq(S) /\ Range(f[n + 1]) = Upto(n + 1)}
  <2>3. 0 \in T
    <3>1. f[1] = ss[1] /\ ss[1] \in Seq(S)
      BY <2>1, <2>2 DEF Flattens
    <3>2. 1..1 = {1}
      OBVIOUS
    <3>3. Upto(1) = Range(ss[1])
      BY <3>2
    <3>4. 0 + 1 = 1
      OBVIOUS
    <3> HIDE DEF Upto
    <3> QED
      BY <3>1, <3>3, <3>4
  <2>4. ASSUME NEW n \in Nat, n \in T PROVE n + 1 \in T
    <3> SUFFICES ASSUME (n + 1) + 1 \in 1..Len(ss)
                 PROVE  f[(n + 1) + 1] \in Seq(S) /\ Range(f[(n + 1) + 1]) = Upto((n + 1) + 1)
      OBVIOUS
    <3>1. n + 2 \in 1..Len(ss) /\ n + 1 \in 1..Len(ss) /\ n + 2 # 1 /\ (n + 1) + 1 = n + 2
          /\ n + 2 - 1 = n + 1
      BY <2>2
    <3>2. f[n + 1] \in Seq(S) /\ Range(f[n + 1]) = Upto(n + 1)
      BY <2>4, <3>1
    <3>3. f[n + 2] = f[n + 1] \o ss[n + 2]
      <4>1. \A i \in 1..Len(ss) : f[i] = IF i = 1 THEN ss[i] ELSE f[i - 1] \o ss[i]
        BY <2>1 DEF Flattens
      <4>2. f[n + 2] = f[(n + 2) - 1] \o ss[n + 2]
        BY <3>1, <4>1
      <4>3. (n + 2) - 1 = n + 1
        OBVIOUS
      <4> QED
        BY <4>2, <4>3
    <3>4. ss[n + 2] \in Seq(S)
      BY <3>1, <2>2
    <3>5. Upto(n + 2) = Upto(n + 1) \cup Range(ss[n + 2])
      <4>1. 1..(n + 2) = (1..(n + 1)) \cup {n + 2}
        OBVIOUS
      <4> QED
        BY <4>1
    <3>6. Range(f[n + 1] \o ss[n + 2]) = Range(f[n + 1]) \cup Range(ss[n + 2])
      BY <3>2, <3>4, RangeConcatenation
    <3>7. f[n + 2] \in Seq(S)
      BY <3>2, <3>3, <3>4, ConcatProperties
    <3> QED
      BY <3>1, <3>2, <3>3, <3>5, <3>6, <3>7
  <2>5. \A n \in Nat : n \in T
    <3> HIDE DEF T
    <3> QED
      BY <2>3, <2>4, NaturalInduction
  <2>6. Len(ss) - 1 \in Nat /\ (Len(ss) - 1) + 1 = Len(ss) /\ Len(ss) \in 1..Len(ss)
    BY <2>2
  <2>7. f[Len(ss)] \in Seq(S) /\ Range(f[Len(ss)]) = Upto(Len(ss))
    BY <2>5, <2>6
  <2> QED
    BY <2>1, <2>2, <2>7
<1> QED
  BY <1>1, <1>2

----------------------------------------------------------------------------
(* Sorting by rank: the n-th element is the one with n - 1 below it.       *)
SortedBy(R, rank) ==
    [n \in 1..Cardinality(R) |->
        CHOOSE s \in R : Cardinality({t \in R : rank[t] < rank[s]}) = n - 1]

(* Counting the elements below one tells different elements apart and      *)
(* reaches every number below the size of the set.                         *)
LEMMA RanksCount ==
    ASSUME NEW R, IsFiniteSet(R), NEW rank, \A s \in R : rank[s] \in Nat,
           \A s, t \in R : rank[s] = rank[t] => s = t,
           NEW count, count = [s \in R |-> Cardinality({t \in R : rank[t] < rank[s]})]
    PROVE  /\ count \in [R -> 0..(Cardinality(R) - 1)] /\ Cardinality(R) \in Nat
           /\ \A s, t \in R : rank[s] < rank[t] => count[s] < count[t]
           /\ \A n \in 1..Cardinality(R) : \E s \in R : count[s] = n - 1
<1> DEFINE below(s) == {t \in R : rank[t] < rank[s]}
<1>1. \A s \in R : /\ IsFiniteSet(below(s)) /\ Cardinality(below(s)) \in Nat
                   /\ count[s] = Cardinality(below(s))
  <2> TAKE s \in R
  <2>1. below(s) \in SUBSET R
    OBVIOUS
  <2>2. IsFiniteSet(below(s))
    BY <2>1, FS_Subset
  <2> QED
    BY <2>2, FS_CardinalityType
<1>2. Cardinality(R) \in Nat
  BY FS_CardinalityType
<1>3. \A s \in R : count[s] \in 0..(Cardinality(R) - 1)
  <2> TAKE s \in R
  <2>1. below(s) \in SUBSET (R \ {s})
    OBVIOUS
  <2>2. IsFiniteSet(R \ {s}) /\ Cardinality(R \ {s}) = Cardinality(R) - 1
    BY FS_RemoveElement
  <2>3. Cardinality(below(s)) <= Cardinality(R) - 1
    BY <2>1, <2>2, FS_Subset
  <2> QED
    BY <1>1, <1>2, <2>3
<1>4. ASSUME NEW s \in R, NEW t \in R, rank[s] < rank[t] PROVE count[s] < count[t]
  <2>1. below(s) \cup {s} \in SUBSET below(t)
    BY <1>4
  <2>2. s \notin below(s)
    OBVIOUS
  <2>3. Cardinality(below(s) \cup {s}) = Cardinality(below(s)) + 1
    BY <1>1, <2>2, FS_AddElement
  <2>4. Cardinality(below(s) \cup {s}) <= Cardinality(below(t))
    BY <1>1, <2>1, FS_Subset
  <2> QED
    BY <1>1, <2>3, <2>4
<1> HIDE DEF below
<1>4a. \A s, t \in R : rank[s] < rank[t] => count[s] < count[t]
  BY <1>4
<1>5. count \in Injection(R, 0..(Cardinality(R) - 1))
  <2>1. count \in [R -> 0..(Cardinality(R) - 1)]
    BY <1>3
  <2>2. ASSUME NEW s \in R, NEW t \in R, count[s] = count[t] PROVE s = t
    <3> DEFINE k == count[s]
    <3>1. k \in Nat /\ count[t] = k /\ count[s] = k
      BY <1>1, <2>2
    <3> HIDE DEF k
    <3>2. ~(k < k)
      BY <3>1
    <3>3. ~(rank[s] < rank[t]) /\ ~(rank[t] < rank[s])
      BY <1>4a, <3>1, <3>2
    <3> QED
      BY <3>3
  <2> QED
    BY <2>1, <2>2 DEF Injection, IsInjective
<1>6. count \in Surjection(R, 0..(Cardinality(R) - 1))
  <2>1. IsFiniteSet(0..(Cardinality(R) - 1))
        /\ Cardinality(0..(Cardinality(R) - 1)) = Cardinality(R)
    BY <1>2, FS_Interval
  <2> QED
    BY <1>5, <2>1, FS_Injection
<1>7. \A n \in 1..Cardinality(R) : \E s \in R : count[s] = n - 1
  <2> TAKE n \in 1..Cardinality(R)
  <2>1. n - 1 \in 0..(Cardinality(R) - 1)
    BY <1>2
  <2> QED
    BY <1>6, <2>1 DEF Surjection
<1> QED
  BY <1>2, <1>3, <1>4a, <1>7

(* The sorted list has every element of the set once, in increasing rank.  *)
LEMMA SortedByLists ==
    ASSUME NEW R, IsFiniteSet(R), NEW rank, \A s \in R : rank[s] \in Nat,
           \A s, t \in R : rank[s] = rank[t] => s = t
    PROVE  /\ SortedBy(R, rank) \in Seq(R) /\ Cardinality(R) \in Nat
           /\ Len(SortedBy(R, rank)) = Cardinality(R)
           /\ Range(SortedBy(R, rank)) = R
           /\ \A m, n \in 1..Cardinality(R) :
                 m < n => rank[SortedBy(R, rank)[m]] < rank[SortedBy(R, rank)[n]]
<1> DEFINE count == [s \in R |-> Cardinality({t \in R : rank[t] < rank[s]})]
           q == SortedBy(R, rank)
<1>1. /\ count \in [R -> 0..(Cardinality(R) - 1)] /\ Cardinality(R) \in Nat
      /\ \A s, t \in R : rank[s] < rank[t] => count[s] < count[t]
      /\ \A n \in 1..Cardinality(R) : \E s \in R : count[s] = n - 1
  <2>1. count = [s \in R |-> Cardinality({t \in R : rank[t] < rank[s]})]
    OBVIOUS
  <2> HIDE DEF count
  <2> QED
    BY <2>1, RanksCount
<1>2. /\ DOMAIN q = 1..Cardinality(R)
      /\ \A n \in 1..Cardinality(R) :
            q[n] = CHOOSE s \in R : Cardinality({t \in R : rank[t] < rank[s]}) = n - 1
  BY DEF SortedBy
<1>3. \A n \in 1..Cardinality(R) : q[n] \in R /\ count[q[n]] = n - 1
  <2> TAKE n \in 1..Cardinality(R)
  <2>1. \E s \in R : Cardinality({t \in R : rank[t] < rank[s]}) = n - 1
    BY <1>1
  <2> HIDE DEF q
  <2>2. q[n] \in R /\ Cardinality({t \in R : rank[t] < rank[q[n]]}) = n - 1
    BY <1>2, <2>1
  <2> QED
    BY <2>2
<1> HIDE DEF count
<1>4. q \in Seq(R) /\ Len(q) = Cardinality(R) /\ DOMAIN q = 1..Cardinality(R)
  <2>1. q \in [1..Cardinality(R) -> R]
    <3> DEFINE g(n) == CHOOSE s \in R : Cardinality({t \in R : rank[t] < rank[s]}) = n - 1
    <3>1. q = [n \in 1..Cardinality(R) |-> g(n)]
      BY DEF SortedBy
    <3>2. \A n \in 1..Cardinality(R) : g(n) \in R
      BY <1>2, <1>3
    <3> HIDE DEF q, g
    <3> QED
      BY <3>1, <3>2
  <2> HIDE DEF q
  <2> QED
    BY <1>1, <2>1
<1> HIDE DEF q
<1>5. \A m, n \in 1..Cardinality(R) : m < n => rank[q[m]] < rank[q[n]]
  <2> SUFFICES ASSUME NEW m \in 1..Cardinality(R), NEW n \in 1..Cardinality(R), m < n
               PROVE  rank[q[m]] < rank[q[n]]
    OBVIOUS
  <2>1. q[m] \in R /\ q[n] \in R /\ count[q[m]] = m - 1 /\ count[q[n]] = n - 1
    BY <1>3
  <2>2. q[m] # q[n] /\ ~(rank[q[n]] < rank[q[m]])
    BY <1>1, <2>1
  <2> QED
    BY <2>1, <2>2
<1>6. Range(q) = R
  <2>1. ASSUME NEW s \in R PROVE s \in Range(q)
    <3>1. count[s] + 1 \in 1..Cardinality(R)
      BY <1>1
    <3> DEFINE n == count[s] + 1
    <3>2. q[n] \in R /\ count[q[n]] = count[s]
      BY <1>1, <1>3, <3>1
    <3>3. ~(rank[q[n]] < rank[s]) /\ ~(rank[s] < rank[q[n]])
      BY <1>1, <3>2
    <3>4. q[n] = s
      BY <3>2, <3>3
    <3> QED
      BY <1>4, <3>1, <3>4 DEF Range
  <2> QED
    BY <1>3, <1>4, <2>1 DEF Range
<1> QED
  BY <1>1, <1>4, <1>5, <1>6 DEF q
=============================================================================
