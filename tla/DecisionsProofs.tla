--------------------------- MODULE DecisionsProofs --------------------------
(***************************************************************************)
(* What the pure decisions promise, for inputs of any size: packing and    *)
(* batching, by least counterexamples on the naturals; the scoring of a    *)
(* case; the grants of tools; the reading of a catalogue file, the calls   *)
(* an adapter assembles and the rows search answers with, by what an order *)
(* by rank lists.  The state machine's invariants follow, since everything *)
(* it asks is an input of those kinds.                                     *)
(***************************************************************************)
EXTENDS Decisions, SequenceTheorems, FiniteSetTheorems, FunctionTheorems,
        WellFoundedInduction, TLAPS

-----------------------------------------------------------------------------
(* Induction.  A set of naturals with a member has a least one, and a set of  *)
(* naturals below a bound a greatest.                                         *)

LEMMA LeastOf ==
    ASSUME NEW T \in SUBSET Nat, T # {}
    PROVE  \E x \in T : \A y \in T : x <= y
<1> DEFINE R == OpToRel(<, Nat)
<1>1. IsWellFoundedOn(R, Nat)
  BY NatLessThanWellFounded
<1> HIDE DEF R
<1>2. PICK x \in T : \A y \in T : ~ (<<y, x>> \in R)
  BY <1>1, WFMin
<1>3. \A y \in T : y < x => <<y, x>> \in R
  BY DEF R, OpToRel
<1>4. x \in Nat /\ \A y \in T : y \in Nat /\ ~(y < x)
  BY <1>2, <1>3
<1>5. \A y \in T : x <= y
  <2> TAKE y \in T
  <2>1. x \in Nat /\ y \in Nat /\ ~(y < x)
    BY <1>4
  <2> QED BY <2>1
<1> QED BY <1>5

LEMMA GreatestOf ==
    ASSUME NEW i \in Nat, NEW n \in Nat, NEW S \in SUBSET (i .. n), S # {}
    PROVE  \E x \in S : \A y \in S : y <= x
<1> DEFINE T == {n - y : y \in S}
<1>1. T \in SUBSET Nat /\ T # {}
  <2>1. \A y \in S : y \in i .. n
    OBVIOUS
  <2>2. \A y \in i .. n : n - y \in Nat
    OBVIOUS
  <2> QED BY <2>1, <2>2
<1>2. PICK m \in T : \A y \in T : m <= y
  BY <1>1, LeastOf
<1>3. PICK x \in S : m = n - x
  BY <1>2
<1>4. \A y \in S : y <= x
  BY <1>2, <1>3
<1> QED BY <1>4

LEMMA IntervalCounts ==
    ASSUME NEW N \in Nat
    PROVE  IsFiniteSet(1 .. N) /\ Cardinality(1 .. N) = N
<1>1. IsFiniteSet(1 .. N) /\ Cardinality(1 .. N) = IF 1 > N THEN 0 ELSE N - 1 + 1
  BY FS_Interval
<1> QED BY <1>1

-----------------------------------------------------------------------------
(* Orders by rank.  A chain tells of each member of a finite set which are     *)
(* below it.                                                                   *)

Chained(S, below) ==
    /\ IsFiniteSet(S) /\ below \in [S -> SUBSET S]
    /\ \A x \in S : x \notin below[x] /\ \A y \in below[x] : below[y] \subseteq below[x]
    /\ \A x, y \in S : x = y \/ x \in below[y] \/ y \in below[x]

\* c lists S by rank.
Lists(c, S, below) ==
    /\ c \in [1 .. Cardinality(S) -> S]
    /\ \A n \in 1 .. Cardinality(S) : Cardinality(below[c[n]]) = n - 1

LEMMA LowerHasFewer ==
    ASSUME NEW S, NEW below, Chained(S, below), NEW x \in S
    PROVE  /\ Cardinality(below[x]) \in 0 .. Cardinality(S) - 1
           /\ \A y \in below[x] : Cardinality(below[y]) < Cardinality(below[x])
<1>1. /\ below[x] \in SUBSET S /\ x \notin below[x]
      /\ \A y \in below[x] : y \in S /\ below[y] \in SUBSET below[x] /\ y \notin below[y]
  BY DEF Chained
<1>2. IsFiniteSet(S) /\ IsFiniteSet(below[x])
  BY <1>1, FS_Subset DEF Chained
<1>3. Cardinality(below[x]) \in Nat /\ Cardinality(S) \in Nat
  BY <1>2, FS_CardinalityType
<1>4. Cardinality(below[x]) <= Cardinality(S) /\ Cardinality(below[x]) # Cardinality(S)
  <2>1. /\ Cardinality(below[x]) <= Cardinality(S)
        /\ Cardinality(S) = Cardinality(below[x]) => S = below[x]
    BY <1>1, <1>2, FS_Subset
  <2> QED BY <1>1, <2>1
<1>5. ASSUME NEW y \in below[x] PROVE Cardinality(below[y]) < Cardinality(below[x])
  <2>1. below[y] \in SUBSET below[x] /\ y \notin below[y]
    BY <1>1
  <2>2. /\ IsFiniteSet(below[y]) /\ Cardinality(below[y]) <= Cardinality(below[x])
        /\ Cardinality(below[x]) = Cardinality(below[y]) => below[x] = below[y]
    BY <1>2, <2>1, FS_Subset
  <2>3. Cardinality(below[y]) \in Nat
    BY <2>2, FS_CardinalityType
  <2> QED BY <1>3, <2>1, <2>2, <2>3
<1> QED BY <1>3, <1>4, <1>5

LEMMA EveryRankIsTaken ==
    ASSUME NEW S, NEW below, Chained(S, below)
    PROVE  \A n \in 1 .. Cardinality(S) : \E x \in S : Cardinality(below[x]) = n - 1
<1> DEFINE N == Cardinality(S)
           rank == [x \in S |-> Cardinality(below[x]) + 1]
<1>1. IsFiniteSet(S) /\ N \in Nat
  BY FS_CardinalityType DEF Chained
<1>2. ASSUME NEW x \in S PROVE rank[x] \in 1 .. N
  <2>1. Cardinality(below[x]) \in 0 .. N - 1
    BY LowerHasFewer
  <2> HIDE DEF N
  <2> QED BY <1>1, <2>1
<1>3. ASSUME NEW x \in S, NEW y \in S, rank[x] = rank[y] PROVE x = y
  <2>1. /\ Cardinality(below[x]) \in Nat /\ Cardinality(below[y]) \in Nat
        /\ Cardinality(below[x]) = Cardinality(below[y])
    BY <1>1, <1>3, LowerHasFewer
  <2>2. x = y \/ x \in below[y] \/ y \in below[x]
    BY DEF Chained
  <2>3. x \notin below[y] /\ y \notin below[x]
    BY <2>1, LowerHasFewer
  <2> QED BY <2>2, <2>3
<1>4. rank \in Injection(S, 1 .. N)
  <2>1. rank \in [S -> 1 .. N]
    BY <1>2
  <2>2. IsInjective(rank)
    BY <1>3 DEF IsInjective
  <2> HIDE DEF rank
  <2> QED BY <2>1, <2>2 DEF Injection
<1>5. IsFiniteSet(1 .. N) /\ Cardinality(1 .. N) = N
  <2>1. IsFiniteSet(1 .. N) /\ Cardinality(1 .. N) = IF 1 > N THEN 0 ELSE N - 1 + 1
    BY <1>1, FS_Interval
  <2> QED BY <1>1, <2>1
<1>6. rank \in Surjection(S, 1 .. N)
  <2> HIDE DEF rank
  <2> QED BY <1>4, <1>5, FS_Injection
<1>7. ASSUME NEW n \in 1 .. N PROVE \E x \in S : Cardinality(below[x]) = n - 1
  <2>1. PICK x \in S : rank[x] = n
    <3> HIDE DEF rank
    <3> QED BY <1>6 DEF Surjection
  <2>2. Cardinality(below[x]) \in Nat
    BY <1>1, LowerHasFewer
  <2> QED BY <1>1, <2>1, <2>2
<1> QED BY <1>7

LEMMA ListingIsInOrder ==
    ASSUME NEW S, NEW below, Chained(S, below), NEW c, Lists(c, S, below)
    PROVE  /\ Cardinality(S) \in Nat
           /\ \A x \in S : \E n \in 1 .. Cardinality(S) : c[n] = x
           /\ \A m, n \in 1 .. Cardinality(S) : c[m] = c[n] => m = n
           /\ \A m, n \in 1 .. Cardinality(S) : m < n <=> c[m] \in below[c[n]]
<1> DEFINE N == Cardinality(S)
<1>1. IsFiniteSet(S) /\ N \in Nat
  BY FS_CardinalityType DEF Chained
<1>2. \A n \in 1 .. N : c[n] \in S /\ Cardinality(below[c[n]]) = n - 1
  BY DEF Lists
<1> HIDE DEF N
<1>3. ASSUME NEW m \in 1 .. N, NEW n \in 1 .. N, c[m] = c[n] PROVE m = n
  <2>1. m - 1 = n - 1
    BY <1>2, <1>3
  <2> QED BY <1>1, <2>1
<1>4. ASSUME NEW m \in 1 .. N, NEW n \in 1 .. N PROVE m < n <=> c[m] \in below[c[n]]
  <2>1. c[m] \in S /\ c[n] \in S
    BY <1>2
  <2>2. c[m] = c[n] \/ c[m] \in below[c[n]] \/ c[n] \in below[c[m]]
    BY <2>1 DEF Chained
  <2>3. c[m] \in below[c[n]] => m - 1 < n - 1
    BY <1>2, <2>1, LowerHasFewer
  <2>4. c[n] \in below[c[m]] => n - 1 < m - 1
    BY <1>2, <2>1, LowerHasFewer
  <2>5. c[m] = c[n] => m = n
    BY <1>3
  <2>6. m \in Nat /\ n \in Nat
    BY <1>1
  <2> QED BY <2>2, <2>3, <2>4, <2>5, <2>6
<1>5. ASSUME NEW x \in S PROVE \E n \in 1 .. N : c[n] = x
  <2> DEFINE n == Cardinality(below[x]) + 1
  <2>1. n \in 1 .. N /\ Cardinality(below[x]) = n - 1
    <3>1. Cardinality(below[x]) \in 0 .. N - 1
      BY LowerHasFewer DEF N
    <3> QED BY <1>1, <3>1
  <2> HIDE DEF n
  <2>2. Cardinality(below[c[n]]) = Cardinality(below[x]) /\ c[n] \in S
    BY <1>2, <2>1
  <2>3. Cardinality(below[x]) \in Nat
    BY <1>1, <2>1
  <2>4. c[n] = x \/ c[n] \in below[x] \/ x \in below[c[n]]
    BY <2>2 DEF Chained
  <2>5. c[n] \notin below[x] /\ x \notin below[c[n]]
    BY <2>2, <2>3, LowerHasFewer
  <2> QED BY <2>1, <2>4, <2>5
<1> QED BY <1>1, <1>3, <1>4, <1>5 DEF N

\* d runs through S upwards.
Climbs(d, L, S, below) ==
    /\ L \in Nat /\ d \in [1 .. L -> S]
    /\ \A x \in S : \E n \in 1 .. L : d[n] = x
    /\ \A m, n \in 1 .. L : m < n => d[m] \in below[d[n]]

LEMMA OnlyOneListing ==
    ASSUME NEW S, NEW below, Chained(S, below), NEW c, Lists(c, S, below),
           NEW d, NEW L, Climbs(d, L, S, below)
    PROVE  L = Cardinality(S) /\ d = c
<1>a. /\ L \in Nat /\ d \in [1 .. L -> S]
      /\ \A x \in S : \E n \in 1 .. L : d[n] = x
      /\ \A m, n \in 1 .. L : m < n => d[m] \in below[d[n]]
  BY DEF Climbs
<1>1. ASSUME NEW m \in 1 .. L, NEW n \in 1 .. L, d[m] = d[n] PROVE m = n
  <2>1. m \in Nat /\ n \in Nat /\ d[m] \in S
    BY <1>a
  <2>2. ~(m < n) /\ ~(n < m)
    BY <1>1, <1>a, <2>1 DEF Chained
  <2> QED BY <2>1, <2>2
<1>2. IsFiniteSet(1 .. L) /\ Cardinality(1 .. L) = L
  <2>1. IsFiniteSet(1 .. L) /\ Cardinality(1 .. L) = IF 1 > L THEN 0 ELSE L - 1 + 1
    BY <1>a, FS_Interval
  <2> QED BY <1>a, <2>1
<1>3. d \in Bijection(1 .. L, S)
  BY <1>1, <1>a DEF Bijection, Injection, Surjection, IsInjective
<1>4. Cardinality(S) = L
  <2>1. ExistsBijection(1 .. L, S)
    BY <1>3 DEF ExistsBijection
  <2> QED BY <1>2, <2>1, FS_Bijection
<1>5. ASSUME NEW n \in 1 .. L PROVE Cardinality(below[d[n]]) = n - 1
  <2> DEFINE low == 1 .. n - 1
             e == [m \in low |-> d[m]]
  <2>1. n - 1 \in Nat /\ \A m \in low : m \in 1 .. L /\ m < n
    BY <1>a
  <2>2. IsFiniteSet(low) /\ Cardinality(low) = n - 1
    <3>1. /\ IsFiniteSet(1 .. n - 1)
          /\ Cardinality(1 .. n - 1) = IF 1 > n - 1 THEN 0 ELSE (n - 1) - 1 + 1
      BY <2>1, FS_Interval
    <3> QED BY <2>1, <3>1
  <2>3. \A m \in low : d[m] \in below[d[n]]
    BY <1>a, <2>1
  <2>4. ASSUME NEW x \in below[d[n]] PROVE \E m \in low : d[m] = x
    <3>1. x \in S
      BY <1>a DEF Chained
    <3>2. PICK m \in 1 .. L : d[m] = x
      BY <1>a, <3>1
    <3>3. m # n /\ ~(n < m)
      BY <1>a, <3>1, <3>2, <2>4 DEF Chained
    <3>4. m \in low
      BY <1>a, <3>3
    <3> QED BY <3>2, <3>4
  <2>5. e \in Bijection(low, below[d[n]])
    <3>1. e \in [low -> below[d[n]]] /\ \A m \in low : e[m] = d[m]
      BY <2>3
    <3>2. DOMAIN e = low /\ \A m, k \in low : e[m] = e[k] => m = k
      BY <1>1, <2>1, <3>1
    <3>3. \A x \in below[d[n]] : \E m \in low : e[m] = x
      BY <2>4, <3>1
    <3> HIDE DEF e, low
    <3> QED BY <3>1, <3>2, <3>3 DEF Bijection, Injection, Surjection, IsInjective
  <2>6. ExistsBijection(low, below[d[n]])
    BY <2>5 DEF ExistsBijection
  <2> QED BY <2>2, <2>6, FS_Bijection
<1>6. ASSUME NEW n \in 1 .. L PROVE d[n] = c[n]
  <2>1. c[n] \in S /\ Cardinality(below[c[n]]) = n - 1
    BY <1>4 DEF Lists
  <2>a. d[n] \in S
    BY <1>a
  <2>2. d[n] = c[n] \/ d[n] \in below[c[n]] \/ c[n] \in below[d[n]]
    BY <2>1, <2>a DEF Chained
  <2>3. d[n] \notin below[c[n]] /\ c[n] \notin below[d[n]]
    BY <1>5, <1>a, <2>1, <2>a, LowerHasFewer
  <2> QED BY <2>2, <2>3
<1>7. c \in [1 .. L -> S]
  BY <1>4 DEF Lists
<1> QED BY <1>4, <1>6, <1>7, <1>a

Lower(S) == [x \in S |-> {y \in S : y < x}]

LEMMA IncreasingLists ==
    ASSUME NEW S \in SUBSET Nat, IsFiniteSet(S)
    PROVE  Chained(S, Lower(S)) /\ Lists(Increasing(S), S, Lower(S))
<1>1. Chained(S, Lower(S))
  <2>1. Lower(S) \in [S -> SUBSET S]
    BY DEF Lower
  <2>2. \A x \in S : /\ x \notin Lower(S)[x]
                    /\ \A y \in Lower(S)[x] : Lower(S)[y] \subseteq Lower(S)[x]
    <3> SUFFICES ASSUME NEW x \in S, NEW y \in Lower(S)[x], NEW z \in Lower(S)[y]
                 PROVE  x \notin Lower(S)[x] /\ z \in Lower(S)[x]
      BY DEF Lower
    <3>1. x \in Nat /\ y \in S /\ y \in Nat /\ y < x
      BY DEF Lower
    <3>2. z \in S /\ z \in Nat /\ z < y
      BY <3>1 DEF Lower
    <3> QED BY <3>1, <3>2 DEF Lower
  <2>3. \A x, y \in S : x = y \/ x \in Lower(S)[y] \/ y \in Lower(S)[x]
    BY DEF Lower
  <2> QED BY <2>1, <2>2, <2>3 DEF Chained
<1>2. \A n \in 1 .. Cardinality(S) : \E x \in S : Cardinality({y \in S : y < x}) = n - 1
  <2>1. \A x \in S : Lower(S)[x] = {y \in S : y < x}
    BY DEF Lower
  <2>2. \A n \in 1 .. Cardinality(S) : \E x \in S : Cardinality(Lower(S)[x]) = n - 1
    BY <1>1, EveryRankIsTaken
  <2> QED BY <2>1, <2>2
<1> DEFINE at == Increasing(S)
<1>3. at = [n \in 1 .. Cardinality(S) |->
              CHOOSE x \in S : Cardinality({y \in S : y < x}) = n - 1]
  BY DEF Increasing, Ranked
<1>4. ASSUME NEW n \in 1 .. Cardinality(S)
      PROVE  at[n] \in S /\ Cardinality({y \in S : y < at[n]}) = n - 1
  <2>1. at[n] = CHOOSE x \in S : Cardinality({y \in S : y < x}) = n - 1
    BY <1>3
  <2> HIDE DEF at
  <2> QED BY <1>2, <2>1
<1> HIDE DEF at
<1>5. at \in [1 .. Cardinality(S) -> S]
  BY <1>3, <1>4
<1>6. \A n \in 1 .. Cardinality(S) : Cardinality(Lower(S)[at[n]]) = n - 1
  BY <1>4 DEF Lower
<1> QED BY <1>1, <1>5, <1>6 DEF Lists, at

LEMMA IncreasingIsInOrder ==
    ASSUME NEW S \in SUBSET Nat, IsFiniteSet(S)
    PROVE  LET at == Increasing(S)  N == Cardinality(S) IN
           /\ N \in Nat /\ at \in [1 .. N -> S]
           /\ \A x \in S : \E n \in 1 .. N : at[n] = x
           /\ \A m, n \in 1 .. N : at[m] = at[n] => m = n
           /\ \A m, n \in 1 .. N : m < n => at[m] < at[n]
<1>1. Chained(S, Lower(S)) /\ Lists(Increasing(S), S, Lower(S))
  BY IncreasingLists
<1> DEFINE at == Increasing(S)
           N == Cardinality(S)
<1>2. /\ N \in Nat
      /\ \A x \in S : \E n \in 1 .. N : at[n] = x
      /\ \A m, n \in 1 .. N : at[m] = at[n] => m = n
      /\ \A m, n \in 1 .. N : m < n <=> at[m] \in Lower(S)[at[n]]
  BY <1>1, ListingIsInOrder
<1>3. at \in [1 .. N -> S]
  BY <1>1 DEF Lists
<1>4. \A m, n \in 1 .. N : m < n => at[m] < at[n]
  BY <1>2, <1>3 DEF Lower
<1> QED BY <1>2, <1>3, <1>4

LEMMA IncreasingIsUnique ==
    ASSUME NEW S \in SUBSET Nat, IsFiniteSet(S), NEW L \in Nat, NEW d \in [1 .. L -> S],
           \A x \in S : \E n \in 1 .. L : d[n] = x,
           \A m, n \in 1 .. L : m < n => d[m] < d[n]
    PROVE  Increasing(S) = d
<1>1. Chained(S, Lower(S)) /\ Lists(Increasing(S), S, Lower(S))
  BY IncreasingLists
<1>2. \A m, n \in 1 .. L : m < n => d[m] \in Lower(S)[d[n]]
  <2> SUFFICES ASSUME NEW m \in 1 .. L, NEW n \in 1 .. L, m < n PROVE d[m] \in Lower(S)[d[n]]
    OBVIOUS
  <2>1. d[m] \in S /\ d[n] \in S /\ d[m] < d[n]
    OBVIOUS
  <2> QED BY <2>1 DEF Lower
<1>3. Climbs(d, L, S, Lower(S))
  BY <1>2 DEF Climbs
<1> QED BY <1>1, <1>3, OnlyOneListing

LEMMA IncreasingGrows ==
    ASSUME NEW S \in SUBSET Nat, IsFiniteSet(S), NEW x \in Nat, \A y \in S : y < x
    PROVE  Increasing(S \cup {x}) = Append(Increasing(S), x)
<1> DEFINE at == Increasing(S)
           N == Cardinality(S)
           d == Append(at, x)
<1>1. /\ N \in Nat /\ at \in [1 .. N -> S]
      /\ \A y \in S : \E n \in 1 .. N : at[n] = y
      /\ \A m, n \in 1 .. N : m < n => at[m] < at[n]
  BY IncreasingIsInOrder
<1> HIDE DEF at, N
<1>2. at \in Seq(S) /\ Len(at) = N
  BY <1>1
<1>3. /\ d \in Seq(S \cup {x}) /\ Len(d) = N + 1
      /\ \A n \in 1 .. N : d[n] = at[n]
      /\ d[N + 1] = x
  BY <1>1, <1>2
<1> HIDE DEF d
<1>4. d \in [1 .. N + 1 -> S \cup {x}]
  BY <1>1, <1>3
<1>5. \A y \in S \cup {x} : \E n \in 1 .. N + 1 : d[n] = y
  <2> SUFFICES ASSUME NEW y \in S \cup {x} PROVE \E n \in 1 .. N + 1 : d[n] = y
    OBVIOUS
  <2>1. CASE y = x
    BY <1>1, <1>3, <2>1
  <2>2. CASE y \in S
    <3>1. PICK n \in 1 .. N : at[n] = y
      BY <1>1, <2>2
    <3>2. n \in 1 .. N + 1
      BY <1>1
    <3> QED BY <1>3, <3>1, <3>2
  <2> QED BY <2>1, <2>2
<1>6. \A m, n \in 1 .. N + 1 : m < n => d[m] < d[n]
  <2> SUFFICES ASSUME NEW m \in 1 .. N + 1, NEW n \in 1 .. N + 1, m < n PROVE d[m] < d[n]
    OBVIOUS
  <2>1. m \in 1 .. N /\ d[m] = at[m] /\ at[m] \in S
    BY <1>1, <1>3
  <2>2. CASE n = N + 1
    BY <1>3, <2>1, <2>2
  <2>3. CASE n # N + 1
    <3>1. n \in 1 .. N
      BY <1>1, <2>3
    <3> QED BY <1>1, <1>3, <2>1, <3>1
  <2> QED BY <2>2, <2>3
<1>7. IsFiniteSet(S \cup {x}) /\ S \cup {x} \in SUBSET Nat /\ N + 1 \in Nat
  BY <1>1, FS_AddElement
<1>8. Increasing(S \cup {x}) = d
  BY <1>4, <1>5, <1>6, <1>7, IncreasingIsUnique
<1> QED BY <1>8 DEF d, at

LEMMA KeptIsShort ==
    ASSUME NEW s, NEW S \in SUBSET Nat, IsFiniteSet(S)
    PROVE  /\ Cardinality(S) \in Nat /\ DOMAIN KeptAt(s, S) = 1 .. Cardinality(S)
           /\ \A r : (\A y \in S : r[y] = s[y]) => KeptAt(r, S) = KeptAt(s, S)
           /\ S = {} => KeptAt(s, S) = <<>>
<1> DEFINE at == Increasing(S)
           N == Cardinality(S)
<1>1. N \in Nat /\ at \in [1 .. N -> S]
  BY IncreasingIsInOrder
<1>2. \A r : KeptAt(r, S) = [n \in 1 .. N |-> r[at[n]]]
  BY <1>1 DEF KeptAt
<1>3. S = {} => N = 0
  BY FS_EmptySet
<1> HIDE DEF at, N
<1>4. \A r : (\A y \in S : r[y] = s[y]) => KeptAt(r, S) = KeptAt(s, S)
  <2> SUFFICES ASSUME NEW r, \A y \in S : r[y] = s[y] PROVE KeptAt(r, S) = KeptAt(s, S)
    OBVIOUS
  <2>1. \A n \in 1 .. N : r[at[n]] = s[at[n]]
    BY <1>1
  <2>2. KeptAt(r, S) = [n \in 1 .. N |-> r[at[n]]] /\ KeptAt(s, S) = [n \in 1 .. N |-> s[at[n]]]
    BY <1>2
  <2> QED BY <2>1, <2>2
<1>5. S = {} => KeptAt(s, S) = <<>>
  BY <1>2, <1>3
<1> QED BY <1>1, <1>2, <1>4, <1>5 DEF N

\* r is s on S, and x comes after S.
Continues(r, s, S, x) == \A y \in S : y < x /\ r[y] = s[y]

LEMMA KeptGrows ==
    ASSUME NEW s, NEW r, NEW S \in SUBSET Nat, IsFiniteSet(S), NEW x \in Nat,
           Continues(r, s, S, x)
    PROVE  KeptAt(r, S \cup {x}) = Append(KeptAt(s, S), r[x])
<1> DEFINE at == Increasing(S)
           N == Cardinality(S)
           k == KeptAt(s, S)
<1>a. \A y \in S : y < x /\ r[y] = s[y]
  BY DEF Continues
<1>1. N \in Nat /\ at \in [1 .. N -> S]
  BY IncreasingIsInOrder
<1>2. Increasing(S \cup {x}) = Append(at, x)
  BY <1>a, IncreasingGrows
<1> HIDE DEF at, N
<1>3. k = [n \in 1 .. N |-> s[at[n]]]
  BY <1>1 DEF KeptAt, at
<1>4. KeptAt(r, S \cup {x}) = [n \in DOMAIN Append(at, x) |-> r[Append(at, x)[n]]]
  BY <1>2 DEF KeptAt
<1>5. /\ at \in Seq(S) /\ Len(at) = N
      /\ DOMAIN Append(at, x) = 1 .. N + 1
      /\ \A n \in 1 .. N : Append(at, x)[n] = at[n]
      /\ Append(at, x)[N + 1] = x
  BY <1>1
<1> DEFINE V == {r[y] : y \in S \cup {x}}
<1>6. k \in Seq(V) /\ Len(k) = N /\ r[x] \in V
  <2>1. k \in [1 .. N -> V]
    <3>1. \A n \in 1 .. N : at[n] \in S /\ s[at[n]] = r[at[n]]
      BY <1>1, <1>a
    <3> QED BY <1>3, <3>1
  <2>2. r[x] \in V
    OBVIOUS
  <2> HIDE DEF V, k
  <2> QED BY <1>1, <2>1, <2>2
<1> HIDE DEF k, V
<1>7. /\ DOMAIN Append(k, r[x]) = 1 .. N + 1
      /\ \A n \in 1 .. N : Append(k, r[x])[n] = k[n]
      /\ Append(k, r[x])[N + 1] = r[x]
      /\ Append(k, r[x]) \in Seq(V)
  BY <1>1, <1>6
<1>8. ASSUME NEW n \in 1 .. N + 1
      PROVE  r[Append(at, x)[n]] = Append(k, r[x])[n]
  <2>1. CASE n = N + 1
    BY <1>5, <1>7, <2>1
  <2>2. CASE n # N + 1
    <3>1. n \in 1 .. N
      BY <1>1, <2>2
    <3>2. at[n] \in S /\ r[at[n]] = s[at[n]]
      BY <1>1, <1>a, <3>1
    <3> QED BY <1>3, <1>5, <1>7, <3>1, <3>2
  <2> QED BY <2>1, <2>2
<1>9. Append(k, r[x]) = [n \in 1 .. N + 1 |-> Append(k, r[x])[n]]
  <2>1. \A t \in Seq(V) : t = [n \in DOMAIN t |-> t[n]]
    OBVIOUS
  <2> QED BY <1>7, <2>1
<1> QED BY <1>4, <1>5, <1>8, <1>9 DEF k

-----------------------------------------------------------------------------
(* Where a chunk ends, and where the next one starts. *)

Fits(s, i, k, target) == Tokens(WordsIn(s, i, k)) <= target

LEMMA PackedToIsLast ==
    ASSUME NEW s, Len(s) \in Nat, NEW i \in 1 .. Len(s), NEW target
    PROVE  LET j == PackedTo(s, i, target) IN
           /\ j \in i .. Len(s)
           /\ j = i \/ Fits(s, i, j, target)
           /\ \A k \in j + 1 .. Len(s) : ~Fits(s, i, k, target)
<1> DEFINE fit == {k \in i .. Len(s) : k = i \/ Tokens(WordsIn(s, i, k)) <= target}
           j == PackedTo(s, i, target)
<1>1. fit \in SUBSET (i .. Len(s)) /\ i \in fit /\ i \in Nat
  OBVIOUS
<1>2. j = CHOOSE x \in fit : \A y \in fit : y <= x
  BY DEF PackedTo
<1>3. \A k \in i .. Len(s) : k \in fit <=> k = i \/ Fits(s, i, k, target)
  BY DEF Fits
<1> HIDE DEF fit, j
<1>4. \E x \in fit : \A y \in fit : y <= x
  <2>1. fit # {}
    BY <1>1
  <2> QED BY <1>1, <2>1, GreatestOf
<1>5. j \in fit /\ \A y \in fit : y <= j
  BY <1>2, <1>4
<1>6. j \in i .. Len(s)
  BY <1>1, <1>5
<1>7. \A k \in j + 1 .. Len(s) : k \in i .. Len(s) /\ k # i /\ ~(k <= j)
  BY <1>6
<1> QED BY <1>3, <1>5, <1>6, <1>7 DEF j

LongEnough(s, b, j, target, percent) == 100 * Tokens(WordsIn(s, b, j)) >= percent * target

LEMMA NextStartIsAhead ==
    ASSUME NEW s, NEW i \in Nat, NEW j \in Nat, i <= j, NEW target, NEW percent
    PROVE  LET n == NextStart(s, i, j, target, percent) IN
           /\ n \in i + 1 .. j + 1
           /\ n <= j => \A b \in n + 1 .. j + 1 : ~LongEnough(s, b, j, target, percent)
<1> DEFINE enough == {b \in i .. (j + 1) :
                        b = i \/ 100 * Tokens(WordsIn(s, b, j)) >= percent * target}
           back == BackedTo(s, i, j, target, percent)
           n == NextStart(s, i, j, target, percent)
<1>1. enough \in SUBSET (i .. j + 1) /\ i \in enough /\ j + 1 \in Nat
  OBVIOUS
<1>2. back = CHOOSE x \in enough : \A y \in enough : y <= x
  BY DEF BackedTo
<1>3. \A b \in i .. j + 1 : b \in enough <=> b = i \/ LongEnough(s, b, j, target, percent)
  BY DEF LongEnough
<1>4. n = IF back > i THEN back ELSE j + 1
  BY DEF NextStart
<1> HIDE DEF enough, back, n
<1>5. \E x \in enough : \A y \in enough : y <= x
  <2>1. enough # {}
    BY <1>1
  <2> QED BY <1>1, <2>1, GreatestOf
<1>6. back \in enough /\ \A y \in enough : y <= back
  BY <1>2, <1>5
<1>7. back \in i .. j + 1
  BY <1>1, <1>6
<1>8. n \in i + 1 .. j + 1 /\ (n = back \/ n = j + 1)
  BY <1>4, <1>7
<1>9. ASSUME n <= j, NEW b \in n + 1 .. j + 1 PROVE ~LongEnough(s, b, j, target, percent)
  <2>1. b \in i .. j + 1 /\ b # i /\ n = back /\ ~(b <= back)
    BY <1>8, <1>7, <1>9
  <2> QED BY <1>3, <1>6, <2>1
<1> QED BY <1>8, <1>9 DEF n

-----------------------------------------------------------------------------
(* The recursion of _pack_sentences has a solution, built from its end. *)

Step(s, target, percent, from, i) ==
    IF i > Len(s) THEN <<>>
    ELSE LET j == PackedTo(s, i, target)
         IN <<<<i, j>>>> \o (IF j = Len(s) THEN <<>>
                             ELSE from[NextStart(s, i, j, target, percent)])

LEMMA StepLooksAhead ==
    ASSUME NEW s, Len(s) \in Nat, NEW target, NEW percent, NEW i \in 1 .. Len(s) + 1,
           NEW f, NEW g, \A k \in i + 1 .. Len(s) + 1 : f[k] = g[k]
    PROVE  Step(s, target, percent, f, i) = Step(s, target, percent, g, i)
<1>1. CASE i > Len(s)
  BY <1>1 DEF Step
<1>2. CASE ~(i > Len(s))
  <2> DEFINE j == PackedTo(s, i, target)
             n == NextStart(s, i, j, target, percent)
  <2>1. i \in 1 .. Len(s)
    BY <1>2
  <2>2. j \in i .. Len(s)
    BY <2>1, PackedToIsLast
  <2>3. n \in i + 1 .. j + 1
    BY <2>1, <2>2, NextStartIsAhead
  <2>4. j # Len(s) => f[n] = g[n]
    BY <2>1, <2>2, <2>3
  <2> QED BY <1>2, <2>4 DEF Step
<1> QED BY <1>1, <1>2

Solves(s, target, percent, f, m) ==
    \A i \in m .. Len(s) + 1 : f[i] = Step(s, target, percent, f, i)

LEMMA PackingHasASolution ==
    ASSUME NEW s, Len(s) \in Nat, NEW target, NEW percent
    PROVE  \E f : Solves(s, target, percent, f, 1)
<1> DEFINE N == Len(s)
           Bad == {k \in 0 .. N : ~\E f : Solves(s, target, percent, f, N + 1 - k)}
<1>1. SUFFICES ASSUME Bad # {} PROVE FALSE
  BY DEF Solves
<1>2. PICK k \in Bad : \A y \in Bad : k <= y
  <2>1. Bad \in SUBSET Nat
    OBVIOUS
  <2> HIDE DEF Bad
  <2> QED BY <1>1, <2>1, LeastOf
<1>3. CASE k = 0
  <2> DEFINE f == [i \in N + 1 .. N + 1 |-> <<>>]
  <2>1. Solves(s, target, percent, f, N + 1)
    BY DEF Solves, Step
  <2> QED BY <1>2, <1>3, <2>1
<1>4. CASE k # 0
  <2> DEFINE m == N + 1 - k
  <2>1. k - 1 \in 0 .. N /\ k - 1 \notin Bad /\ m \in 1 .. N /\ N + 1 - (k - 1) = m + 1
    BY <1>2, <1>4
  <2>2. PICK f : Solves(s, target, percent, f, m + 1)
    BY <2>1
  <2> DEFINE g == [i \in m .. N + 1 |-> IF i = m THEN Step(s, target, percent, f, m) ELSE f[i]]
  <2>3. \A i \in m + 1 .. N + 1 : g[i] = f[i]
    BY <2>1
  <2>4. g[m] = Step(s, target, percent, f, m)
    BY <2>1
  <2> HIDE DEF g
  <2>5. ASSUME NEW i \in m .. N + 1 PROVE g[i] = Step(s, target, percent, g, i)
    <3>1. Step(s, target, percent, f, i) = Step(s, target, percent, g, i)
      BY <2>1, <2>3, StepLooksAhead
    <3>2. CASE i = m
      BY <3>1, <3>2, <2>4
    <3>3. CASE i # m
      BY SMTT(30), <3>1, <3>3, <2>1, <2>2, <2>3 DEF Solves
    <3> QED BY <3>2, <3>3
  <2>6. Solves(s, target, percent, g, m)
    BY <2>5 DEF Solves
  <2> QED BY <1>2, <2>6
<1> QED BY <1>3, <1>4

LEMMA PackSentencesUnfolds ==
    ASSUME NEW s, Len(s) \in Nat, NEW target, NEW percent
    PROVE  \E from : /\ Solves(s, target, percent, from, 1)
                     /\ PackSentences(s, target, percent) = from[1]
<1> DEFINE D == 1 .. Len(s) + 1
           Eq(f) == f = [i \in D |-> Step(s, target, percent, f, i)]
           from == CHOOSE f : Eq(f)
<1>1. PICK h : Solves(s, target, percent, h, 1)
  BY PackingHasASolution
<1> DEFINE f == [i \in D |-> h[i]]
<1>2. \A i \in D : f[i] = h[i]
  OBVIOUS
<1>3. ASSUME NEW i \in D PROVE h[i] = Step(s, target, percent, f, i)
  <2>1. Step(s, target, percent, h, i) = Step(s, target, percent, f, i)
    <3> HIDE DEF f
    <3> QED BY <1>2, StepLooksAhead
  <2> QED BY <1>1, <2>1 DEF Solves
<1>4. Eq(f)
  BY <1>3
<1>5. Eq(from)
  <2> HIDE DEF Eq, f
  <2> QED BY <1>4
<1>6. PackSentences(s, target, percent) = from[1]
  BY DEF PackSentences, Step
<1>7. Solves(s, target, percent, from, 1)
  <2>1. from = [i \in D |-> Step(s, target, percent, from, i)]
    BY <1>5
  <2> HIDE DEF from
  <2> QED BY <2>1 DEF Solves
<1> QED BY <1>6, <1>7

-----------------------------------------------------------------------------
(* The chunks of a section from sentence i on. *)

Chain(s, target, percent, sp, i) ==
    /\ sp \in Seq(Nat \X Nat) /\ Len(sp) > 0
    /\ sp[1][1] = i /\ sp[Len(sp)][2] = Len(s)
    /\ \A k \in 1 .. Len(sp) :
          sp[k][1] \in i .. Len(s) /\ sp[k][2] = PackedTo(s, sp[k][1], target)
    /\ \A k \in 1 .. Len(sp) - 1 :
          sp[k][2] # Len(s) /\ sp[k + 1][1] = NextStart(s, sp[k][1], sp[k][2], target, percent)
    /\ \A n \in i .. Len(s) : \E k \in 1 .. Len(sp) : n \in sp[k][1] .. sp[k][2]

LEMMA LastChunk ==
    ASSUME NEW s, Len(s) \in Nat, NEW target, NEW percent, NEW i \in 1 .. Len(s),
           PackedTo(s, i, target) = Len(s)
    PROVE  Chain(s, target, percent, <<<<i, Len(s)>>>>, i)
BY DEF Chain

LEMMA Prepended ==
    ASSUME NEW S, NEW e \in S, NEW rest \in Seq(S)
    PROVE  /\ <<e>> \o rest \in Seq(S) /\ Len(<<e>> \o rest) = Len(rest) + 1
           /\ (<<e>> \o rest)[1] = e
           /\ \A k \in 1 .. Len(rest) : (<<e>> \o rest)[k + 1] = rest[k]
<1>1. <<e>> \in Seq(S) /\ Len(<<e>>) = 1 /\ <<e>>[1] = e
  OBVIOUS
<1>2. Len(rest) \in Nat
  OBVIOUS
<1> DEFINE one == <<e>>
<1> HIDE DEF one
<1>3. one \in Seq(S) /\ Len(one) = 1 /\ one[1] = e
  BY <1>1 DEF one
<1>4. /\ one \o rest \in Seq(S) /\ Len(one \o rest) = 1 + Len(rest)
      /\ \A k \in 1 .. Len(one) + Len(rest) :
            (one \o rest)[k] = IF k <= Len(one) THEN one[k] ELSE rest[k - Len(one)]
  BY ZenonT(30), <1>3, ConcatProperties
<1>5. (one \o rest)[1] = e
  BY <1>2, <1>3, <1>4
<1>6. ASSUME NEW k \in 1 .. Len(rest) PROVE (one \o rest)[k + 1] = rest[k]
  <2>1. /\ k + 1 \in 1 .. Len(one) + Len(rest) /\ ~(k + 1 <= Len(one))
        /\ (k + 1) - Len(one) = k
    BY <1>2, <1>3
  <2> QED BY <1>4, <2>1
<1> QED BY <1>2, <1>4, <1>5, <1>6 DEF one

LEMMA LongerChain ==
    ASSUME NEW s, Len(s) \in Nat, NEW target, NEW percent, NEW i \in 1 .. Len(s),
           PackedTo(s, i, target) # Len(s),
           NEW rest,
           Chain(s, target, percent, rest,
                 NextStart(s, i, PackedTo(s, i, target), target, percent))
    PROVE  Chain(s, target, percent, <<<<i, PackedTo(s, i, target)>>>> \o rest, i)
<1> DEFINE j == PackedTo(s, i, target)
           n == NextStart(s, i, j, target, percent)
           all == <<<<i, j>>>> \o rest
<1>1. j \in i .. Len(s) /\ j # Len(s)
  BY PackedToIsLast
<1>2. n \in i + 1 .. j + 1
  BY <1>1, NextStartIsAhead
<1>3. <<i, j>> \in Nat \X Nat
  BY <1>1
<1>4. Chain(s, target, percent, rest, n)
  OBVIOUS
<1> HIDE DEF j, n
<1>5. rest \in Seq(Nat \X Nat) /\ Len(rest) \in Nat /\ Len(rest) > 0
  BY <1>4 DEF Chain
<1>6. /\ all \in Seq(Nat \X Nat) /\ Len(all) = Len(rest) + 1
      /\ all[1] = <<i, j>>
      /\ \A k \in 1 .. Len(rest) : all[k + 1] = rest[k]
  <2> DEFINE e == <<i, j>>
             P == Nat \X Nat
  <2>1. e \in P /\ rest \in Seq(P)
    BY <1>3, <1>5
  <2> HIDE DEF e, P
  <2>2. /\ <<e>> \o rest \in Seq(P) /\ Len(<<e>> \o rest) = Len(rest) + 1
        /\ (<<e>> \o rest)[1] = e
        /\ \A k \in 1 .. Len(rest) : (<<e>> \o rest)[k + 1] = rest[k]
    BY <2>1, Prepended
  <2>3. all = <<e>> \o rest
    BY DEF e
  <2> HIDE DEF all
  <2> QED BY <2>2, <2>3 DEF e, P
<1> HIDE DEF all
<1>7. ASSUME NEW k \in 1 .. Len(all)
      PROVE  k = 1 \/ \E m \in 1 .. Len(rest) : k = m + 1 /\ all[k] = rest[m]
  <2>1. CASE k # 1
    <3>1. k - 1 \in 1 .. Len(rest) /\ k = (k - 1) + 1
      BY <1>5, <1>6, <2>1
    <3> QED BY <1>6, <3>1
  <2> QED BY <2>1
<1>8. all[Len(all)][2] = Len(s)
  <2>1. Len(rest) \in 1 .. Len(rest)
    BY <1>5
  <2>2. all[Len(rest) + 1] = rest[Len(rest)]
    BY <1>6, <2>1
  <2> QED BY <1>4, <1>6, <2>2 DEF Chain
<1>9. ASSUME NEW k \in 1 .. Len(all)
      PROVE  all[k][1] \in i .. Len(s) /\ all[k][2] = PackedTo(s, all[k][1], target)
  <2>1. CASE k = 1
    BY <2>1, <1>1, <1>6 DEF j
  <2>2. ASSUME NEW m \in 1 .. Len(rest), all[k] = rest[m] PROVE <1>9!2
    <3>1. rest[m][1] \in n .. Len(s) /\ rest[m][2] = PackedTo(s, rest[m][1], target)
      BY <1>4 DEF Chain
    <3> QED BY <1>1, <1>2, <2>2, <3>1
  <2> QED BY <1>7, <2>1, <2>2
<1>10. ASSUME NEW k \in 1 .. Len(all) - 1
       PROVE  /\ all[k][2] # Len(s)
              /\ all[k + 1][1] = NextStart(s, all[k][1], all[k][2], target, percent)
  <2>1. CASE k = 1
    <3>1. all[2] = rest[1] /\ rest[1][1] = n
      BY <1>4, <1>5, <1>6 DEF Chain
    <3> QED BY <2>1, <3>1, <1>1, <1>6 DEF n
  <2>2. CASE k # 1
    <3> DEFINE m == k - 1
    <3>1. m \in 1 .. Len(rest) - 1 /\ k = m + 1 /\ m \in 1 .. Len(rest) /\ m + 1 \in 1 .. Len(rest)
      BY <1>5, <1>6, <2>2
    <3>2. /\ rest[m][2] # Len(s)
          /\ rest[m + 1][1] = NextStart(s, rest[m][1], rest[m][2], target, percent)
      BY <1>4, <3>1 DEF Chain
    <3> HIDE DEF m
    <3>3. all[k] = rest[m] /\ all[k + 1] = rest[m + 1]
      BY <1>6, <3>1
    <3> QED BY <3>2, <3>3
  <2> QED BY <2>1, <2>2
<1>11. ASSUME NEW x \in i .. Len(s) PROVE \E k \in 1 .. Len(all) : x \in all[k][1] .. all[k][2]
  <2>1. CASE x <= j
    <3>1. 1 \in 1 .. Len(all) /\ x \in all[1][1] .. all[1][2]
      BY <1>1, <1>5, <1>6, <2>1
    <3> QED BY <3>1
  <2>2. CASE ~(x <= j)
    <3>1. x \in n .. Len(s)
      BY <1>1, <1>2, <2>2
    <3>2. PICK m \in 1 .. Len(rest) : x \in rest[m][1] .. rest[m][2]
      BY <1>4, <3>1 DEF Chain
    <3>3. m + 1 \in 1 .. Len(rest) + 1 /\ all[m + 1] = rest[m]
      <4>1. Len(rest) \in Nat /\ m \in 1 .. Len(rest)
        BY <1>5
      <4>2. m + 1 \in 1 .. Len(rest) + 1
        BY <4>1
      <4> QED BY <1>6, <4>2
    <3>4. m + 1 \in 1 .. Len(all)
      BY <1>6, <3>3
    <3> QED BY <3>2, <3>3, <3>4
  <2> QED BY <2>1, <2>2
<1>12. all \in Seq(Nat \X Nat) /\ Len(all) > 0 /\ all[1][1] = i
  BY <1>5, <1>6
<1>13. Chain(s, target, percent, all, i)
  BY <1>8, <1>9, <1>10, <1>11, <1>12 DEF Chain
<1> QED BY <1>13 DEF all, j

(* However the sentences fall: every chunk starts where NextStart says, ends  *)
(* where PackedTo says, and the last one with the section.                    *)
LEMMA SectionIsChained ==
    ASSUME NEW s, Len(s) \in Nat, Len(s) > 0, NEW target, NEW percent
    PROVE  Chain(s, target, percent, PackSentences(s, target, percent), 1)
<1>1. PICK from : /\ Solves(s, target, percent, from, 1)
                  /\ PackSentences(s, target, percent) = from[1]
  BY PackSentencesUnfolds
<1> DEFINE Bad == {i \in 1 .. Len(s) : ~Chain(s, target, percent, from[i], i)}
<1>2. CASE Bad = {}
  <2>1. 1 \in 1 .. Len(s)
    OBVIOUS
  <2> QED BY <1>1, <1>2, <2>1
<1>3. CASE Bad # {}
  <2>1. PICK i \in Bad : \A y \in Bad : y <= i
    <3>1. Bad \in SUBSET (1 .. Len(s))
      OBVIOUS
    <3> HIDE DEF Bad
    <3> QED BY <1>3, <3>1, GreatestOf
  <2> DEFINE j == PackedTo(s, i, target)
             n == NextStart(s, i, j, target, percent)
  <2>2. i \in 1 .. Len(s) /\ ~Chain(s, target, percent, from[i], i)
    BY <2>1
  <2>3. j \in i .. Len(s)
    BY <2>2, PackedToIsLast
  <2>4. n \in i + 1 .. j + 1
    BY <2>2, <2>3, NextStartIsAhead
  <2>5. from[i] = <<<<i, j>>>> \o (IF j = Len(s) THEN <<>> ELSE from[n])
    <3>1. from[i] = Step(s, target, percent, from, i) /\ ~(i > Len(s))
      BY <1>1, <2>2 DEF Solves
    <3> QED BY <3>1 DEF Step
  <2>6. CASE j = Len(s)
    <3>1. <<<<i, j>>>> \o <<>> = <<<<i, j>>>>
      OBVIOUS
    <3>2. from[i] = <<<<i, Len(s)>>>>
      BY <2>5, <2>6, <3>1
    <3> QED BY <2>2, <2>6, <3>2, LastChunk
  <2>7. CASE j # Len(s)
    <3>1. n \in 1 .. Len(s) /\ n > i /\ i \in Int /\ n \in Int
      BY <2>2, <2>3, <2>4, <2>7
    <3>2. Chain(s, target, percent, from[n], n)
      BY <2>1, <3>1
    <3>3. Chain(s, target, percent, <<<<i, j>>>> \o from[n], i)
      BY <2>2, <2>7, <3>2, LongerChain
    <3> QED BY <2>2, <2>5, <2>7, <3>3
  <2> QED BY <2>6, <2>7
<1> QED BY <1>2, <1>3

-----------------------------------------------------------------------------
(* Words are counted by a fold over the sentences, which takes the last one   *)
(* of a set of places first.                                                  *)

Summing(t, m, f) ==
    \A S \in SUBSET (1 .. m) :
        /\ f[S] = IF S = {} THEN 0 ELSE f[S \ {Max(S)}] + t[Max(S)]
        /\ f[S] \in Nat

LEMMA MaxIsGreatest ==
    ASSUME NEW m \in Nat, NEW S \in SUBSET (1 .. m), S # {}
    PROVE  Max(S) \in S /\ \A y \in S : y <= Max(S)
<1>1. \E x \in S : \A y \in S : y <= x
  BY GreatestOf
<1>2. \A x, y \in S : x >= y <=> y <= x
  OBVIOUS
<1> QED BY <1>1, <1>2 DEF Max

LEMMA SummingHasASolution ==
    ASSUME NEW t \in Seq(Nat), NEW m \in 0 .. Len(t)
    PROVE  \E f : Summing(t, m, f)
<1> DEFINE Bad == {k \in 0 .. Len(t) : ~\E f : Summing(t, k, f)}
<1>1. SUFFICES ASSUME Bad # {} PROVE FALSE
  OBVIOUS
<1>2. PICK k \in Bad : \A y \in Bad : k <= y
  <2>1. Bad \in SUBSET Nat
    OBVIOUS
  <2> HIDE DEF Bad
  <2> QED BY <1>1, <2>1, LeastOf
<1>3. CASE k = 0
  <2> DEFINE f == [S \in SUBSET (1 .. 0) |-> 0]
  <2>1. \A S \in SUBSET (1 .. 0) : S = {} /\ f[S] = 0
    OBVIOUS
  <2>2. Summing(t, 0, f)
    BY <2>1 DEF Summing
  <2> QED BY <1>2, <1>3, <2>2
<1>4. CASE k # 0
  <2>1. /\ k \in Nat /\ k - 1 \in 0 .. Len(t) /\ k - 1 \notin Bad
        /\ k \in 1 .. Len(t) /\ t[k] \in Nat
    <3>1. k \in 0 .. Len(t) /\ Len(t) \in Nat
      BY <1>2
    <3>2. k \in 1 .. Len(t) /\ k - 1 \in 0 .. Len(t) /\ ~(k <= k - 1)
      BY <1>4, <3>1
    <3>3. k - 1 \notin Bad
      <4> HIDE DEF Bad
      <4> QED BY <1>2, <3>2
    <3>4. t[k] \in Nat
      BY <3>2
    <3> QED BY <3>1, <3>2, <3>3, <3>4
  <2>2. PICK f : Summing(t, k - 1, f)
    BY <2>1
  <2> DEFINE g == [S \in SUBSET (1 .. k) |-> IF k \in S THEN f[S \ {k}] + t[k] ELSE f[S]]
  <2>3. ASSUME NEW S \in SUBSET (1 .. k)
        PROVE  /\ g[S] = IF S = {} THEN 0 ELSE g[S \ {Max(S)}] + t[Max(S)]
               /\ g[S] \in Nat
    <3>1. g[S] = IF k \in S THEN f[S \ {k}] + t[k] ELSE f[S]
      OBVIOUS
    <3>2. S \ {k} \in SUBSET (1 .. k - 1)
      BY <2>1
    <3>3. CASE k \in S
      <4>1. Max(S) \in S /\ \A y \in S : y <= Max(S)
        BY <2>1, <3>3, MaxIsGreatest
      <4>2. Max(S) = k
        <5>1. Max(S) \in 1 .. k /\ k <= Max(S)
          BY <3>3, <4>1
        <5> QED BY <2>1, <5>1
      <4>3. k \notin S \ {k} /\ S \ {k} \in SUBSET (1 .. k)
        OBVIOUS
      <4>4. g[S \ {k}] = f[S \ {k}]
        BY <4>3
      <4>5. f[S \ {k}] \in Nat
        BY <2>2, <3>2 DEF Summing
      <4> HIDE DEF g
      <4> QED BY <2>1, <3>1, <3>3, <4>2, <4>4, <4>5
    <3>4. CASE k \notin S
      <4>1. S \in SUBSET (1 .. k - 1) /\ g[S] = f[S]
        BY <3>1, <3>2, <3>4
      <4>2. f[S] \in Nat /\ f[S] = IF S = {} THEN 0 ELSE f[S \ {Max(S)}] + t[Max(S)]
        BY <2>2, <4>1 DEF Summing
      <4>3. k \notin S \ {Max(S)} /\ S \ {Max(S)} \in SUBSET (1 .. k)
        BY <3>4
      <4>4. g[S \ {Max(S)}] = f[S \ {Max(S)}]
        BY <4>3
      <4> HIDE DEF g
      <4> QED BY <4>1, <4>2, <4>4
    <3> QED BY <3>3, <3>4
  <2>4. Summing(t, k, g)
    <3> HIDE DEF g
    <3> QED BY <2>3 DEF Summing
  <2> QED BY <1>2, <2>4
<1> QED BY <1>3, <1>4

LEMMA FoldIsASum ==
    ASSUME NEW t \in Seq(Nat)
    PROVE  \E f : /\ Summing(t, Len(t), f)
                  /\ FoldLeft(LAMBDA a, w : a + w, 0, t) = f[1 .. Len(t)]
<1> DEFINE N == Len(t)
           D == SUBSET (1 .. N)
           Body(f, S) == IF S = {} THEN 0 ELSE f[S \ {Max(S)}] + t[Max(S)]
           Eq(f) == f = [S \in D |-> Body(f, S)]
           iter == CHOOSE f : Eq(f)
<1>1. N \in 0 .. Len(t) /\ DOMAIN t = 1 .. N
  OBVIOUS
<1>2. PICK h : Summing(t, N, h)
  BY <1>1, SummingHasASolution
<1> DEFINE f == [S \in D |-> h[S]]
<1>3. \A S \in D : f[S] = h[S] /\ S \ {Max(S)} \in D
  OBVIOUS
<1>4. \A S \in D : h[S] = Body(f, S)
  <2> HIDE DEF f
  <2> QED BY <1>2, <1>3 DEF Summing
<1>5. Eq(f)
  BY <1>4
<1>6. Eq(iter)
  <2> HIDE DEF Eq, f
  <2> QED BY <1>5
<1>7. FoldLeft(LAMBDA a, w : a + w, 0, t) = iter[1 .. N]
  BY <1>1 DEF FoldLeft, MapThenFoldSet
<1>8. iter = [S \in D |-> Body(iter, S)]
  BY <1>6
<1> HIDE DEF iter
<1>9. ASSUME NEW k \in 0 .. N PROVE \A S \in SUBSET (1 .. k) : iter[S] = h[S]
  <2> DEFINE Bad == {i \in 0 .. N : ~\A S \in SUBSET (1 .. i) : iter[S] = h[S]}
  <2>1. SUFFICES ASSUME Bad # {} PROVE FALSE
    OBVIOUS
  <2>2. PICK i \in Bad : \A y \in Bad : i <= y
    <3>1. Bad \in SUBSET Nat
      OBVIOUS
    <3> HIDE DEF Bad
    <3> QED BY <2>1, <3>1, LeastOf
  <2>3. PICK S \in SUBSET (1 .. i) : iter[S] # h[S]
    BY <2>2
  <2>4. S \in D /\ i \in Nat /\ i <= N
    BY <2>2
  <2>5. iter[S] = Body(iter, S) /\ h[S] = Body(h, S)
    BY <1>2, <1>8, <2>4 DEF Summing
  <2>6. S # {}
    BY <2>3, <2>5
  <2>7. Max(S) \in S /\ \A y \in S : y <= Max(S)
    BY <2>4, <2>6, MaxIsGreatest
  <2>8. S \ {Max(S)} \in SUBSET (1 .. i - 1) /\ i - 1 \in 0 .. N
    <3>1. \A y \in S : y \in 1 .. i
      OBVIOUS
    <3>2. ASSUME NEW y \in S \ {Max(S)} PROVE y \in 1 .. i - 1
      <4>1. y <= Max(S) /\ y # Max(S) /\ y \in 1 .. i /\ Max(S) \in 1 .. i
        BY <2>7, <3>1
      <4> HIDE DEF Bad
      <4> QED BY <2>4, <4>1
    <3>3. i >= 1
      <4>1. PICK y \in S : TRUE
        BY <2>6
      <4>2. y \in 1 .. i
        BY <3>1
      <4> QED BY <2>4, <4>2
    <3>4. S \ {Max(S)} \in SUBSET (1 .. i - 1)
      BY <3>2
    <3>5. i - 1 \in 0 .. N /\ N \in Nat
      BY <2>4, <3>3
    <3> QED BY <3>4, <3>5
  <2>9. i - 1 \notin Bad
    <3>1. ~(i <= i - 1)
      BY <2>4
    <3> HIDE DEF Bad
    <3> QED BY <2>2, <3>1
  <2>10. iter[S \ {Max(S)}] = h[S \ {Max(S)}]
    BY <2>8, <2>9
  <2> QED BY <2>3, <2>5, <2>6, <2>10
<1>10. Summing(t, N, iter)
  <2>1. \A S \in SUBSET (1 .. N) : iter[S] = h[S] /\ S \ {Max(S)} \in SUBSET (1 .. N)
    BY <1>1, <1>9
  <2> QED BY <1>2, <2>1 DEF Summing
<1> QED BY <1>7, <1>10

LEMMA WordsAreCounted ==
    ASSUME NEW s \in Seq(Nat), NEW i \in 1 .. Len(s) + 1, NEW j \in 0 .. Len(s)
    PROVE  WordsIn(s, i, j) \in Nat
<1>1. SubSeq(s, i, j) \in Seq(Nat)
  BY SubSeqProperties
<1>2. PICK f : /\ Summing(SubSeq(s, i, j), Len(SubSeq(s, i, j)), f)
               /\ WordsIn(s, i, j) = f[1 .. Len(SubSeq(s, i, j))]
  BY <1>1, FoldIsASum DEF WordsIn
<1> QED BY <1>2 DEF Summing

LEMMA TokensAreCounted == ASSUME NEW w \in Nat PROVE Tokens(w) \in Nat
BY DEF Tokens, RoundHalfEven

-----------------------------------------------------------------------------
(* What a chunk holds, and what it shares with the next. *)

LEMMA ChunkHolds ==
    ASSUME NEW s \in Seq(Nat), NEW target \in Nat, NEW percent \in Nat, NEW sp,
           Chain(s, target, percent, sp, 1), NEW k \in 1 .. Len(sp)
    PROVE  LET a == sp[k][1]  b == sp[k][2] IN
           /\ a \in 1 .. Len(s) /\ b \in a .. Len(s)
           /\ Tokens(WordsIn(s, a, b)) > target => a = b
           /\ b < Len(s) => Tokens(WordsIn(s, a, b + 1)) > target
<1> DEFINE a == sp[k][1]
           b == sp[k][2]
<1>1. a \in 1 .. Len(s) /\ b = PackedTo(s, a, target) /\ Len(s) \in Nat
  BY DEF Chain
<1> HIDE DEF a, b
<1>2. /\ b \in a .. Len(s)
      /\ b = a \/ Fits(s, a, b, target)
      /\ \A j \in b + 1 .. Len(s) : ~Fits(s, a, j, target)
  BY <1>1, PackedToIsLast
<1>3. ASSUME NEW j \in a .. Len(s) PROVE Tokens(WordsIn(s, a, j)) \in Nat
  <2>1. a \in 1 .. Len(s) + 1 /\ j \in 0 .. Len(s)
    BY <1>1
  <2> QED BY <2>1, WordsAreCounted, TokensAreCounted
<1>4. Tokens(WordsIn(s, a, b)) > target => a = b
  BY <1>2, <1>3 DEF Fits
<1>5. ASSUME b < Len(s) PROVE Tokens(WordsIn(s, a, b + 1)) > target
  <2>1. b + 1 \in b + 1 .. Len(s) /\ b + 1 \in a .. Len(s)
    BY <1>1, <1>2, <1>5
  <2>2. ~(Tokens(WordsIn(s, a, b + 1)) <= target)
    BY <1>2, <2>1 DEF Fits
  <2> QED BY <1>3, <2>1, <2>2
<1> QED BY <1>1, <1>2, <1>4, <1>5 DEF a, b

LEMMA ChunksOverlapLittle ==
    ASSUME NEW s \in Seq(Nat), NEW target \in Nat, NEW percent \in Nat, NEW sp,
           Chain(s, target, percent, sp, 1), NEW k \in 1 .. Len(sp) - 1
    PROVE  LET a == sp[k][1]  b == sp[k][2]  c == sp[k + 1][1] IN
           /\ a < c
           /\ c <= b => 100 * Tokens(WordsIn(s, c + 1, b)) < percent * target
<1> DEFINE a == sp[k][1]
           b == sp[k][2]
           c == sp[k + 1][1]
<1>1. c = NextStart(s, a, b, target, percent)
  BY DEF Chain
<1>2. k \in 1 .. Len(sp)
  BY DEF Chain
<1>3. a \in 1 .. Len(s) /\ b \in a .. Len(s)
  BY <1>2, ChunkHolds
<1> HIDE DEF a, b, c
<1>4. /\ c \in a + 1 .. b + 1
      /\ c <= b => \A j \in c + 1 .. b + 1 : ~LongEnough(s, j, b, target, percent)
  BY <1>1, <1>3, NextStartIsAhead
<1>5. ASSUME c <= b PROVE 100 * Tokens(WordsIn(s, c + 1, b)) < percent * target
  <2>1. c + 1 \in c + 1 .. b + 1 /\ c + 1 \in 1 .. Len(s) + 1 /\ b \in 0 .. Len(s)
    BY <1>3, <1>4, <1>5
  <2>2. ~(100 * Tokens(WordsIn(s, c + 1, b)) >= percent * target)
    BY <1>4, <1>5, <2>1 DEF LongEnough
  <2>3. Tokens(WordsIn(s, c + 1, b)) \in Nat
    BY <2>1, WordsAreCounted, TokensAreCounted
  <2>4. percent * target \in Nat
    OBVIOUS
  <2> QED BY <2>2, <2>3, <2>4
<1>6. a < c
  BY <1>3, <1>4
<1> QED BY <1>5, <1>6 DEF a, b, c

-----------------------------------------------------------------------------
(* Sections laid end to end. *)

Joins(seqs, f, m) ==
    \A i \in 1 .. m : f[i] = IF i = 1 THEN seqs[i] ELSE f[i - 1] \o seqs[i]

LEMMA JoiningHasASolution ==
    ASSUME NEW seqs, NEW m \in Nat
    PROVE  \E f : Joins(seqs, f, m)
<1> DEFINE Bad == {k \in Nat : ~\E f : Joins(seqs, f, k)}
<1>1. SUFFICES ASSUME Bad # {} PROVE FALSE
  OBVIOUS
<1>2. PICK k \in Bad : \A y \in Bad : k <= y
  <2>1. Bad \in SUBSET Nat
    OBVIOUS
  <2> HIDE DEF Bad
  <2> QED BY <1>1, <2>1, LeastOf
<1>3. CASE k = 0
  <2>1. Joins(seqs, <<>>, 0)
    BY DEF Joins
  <2> QED BY <1>2, <1>3, <2>1
<1>4. CASE k # 0
  <2>1. k \in Nat /\ k - 1 \in Nat /\ ~(k <= k - 1)
    BY <1>2, <1>4
  <2>2. k - 1 \notin Bad
    <3> HIDE DEF Bad
    <3> QED BY <1>2, <2>1
  <2>3. PICK f : Joins(seqs, f, k - 1)
    BY <2>1, <2>2
  <2> DEFINE last == IF k = 1 THEN seqs[k] ELSE f[k - 1] \o seqs[k]
             g == [i \in 1 .. k |-> IF i = k THEN last ELSE f[i]]
  <2>4. g[k] = last /\ \A i \in 1 .. k - 1 : g[i] = f[i]
    <3>1. k \in 1 .. k /\ \A i \in 1 .. k - 1 : i \in 1 .. k /\ i # k
      BY <2>1, <1>4
    <3> HIDE DEF last
    <3> QED BY <3>1
  <2> HIDE DEF g
  <2>5. ASSUME NEW i \in 1 .. k PROVE g[i] = IF i = 1 THEN seqs[i] ELSE g[i - 1] \o seqs[i]
    <3>1. i # 1 => i - 1 \in 1 .. k - 1
      BY <2>1
    <3>2. CASE i = k
      BY <2>4, <3>1, <3>2
    <3>3. CASE i # k
      <4>1. i \in 1 .. k - 1
        BY <2>1, <3>3
      <4> QED BY <2>3, <2>4, <3>1, <4>1 DEF Joins
    <3> QED BY <3>2, <3>3
  <2>6. Joins(seqs, g, k)
    BY <2>5 DEF Joins
  <2> QED BY <1>2, <2>6
<1> QED BY <1>3, <1>4

LEMMA FlattenSeqUnfolds ==
    ASSUME NEW seqs, Len(seqs) \in Nat, Len(seqs) # 0
    PROVE  \E f : Joins(seqs, f, Len(seqs)) /\ FlattenSeq(seqs) = f[Len(seqs)]
<1> DEFINE N == Len(seqs)
           Body(f, i) == IF i = 1 THEN seqs[i] ELSE f[i - 1] \o seqs[i]
           Eq(f) == f = [i \in 1 .. N |-> Body(f, i)]
           flatten == CHOOSE f : Eq(f)
<1>1. PICK h : Joins(seqs, h, N)
  BY JoiningHasASolution
<1> DEFINE f == [i \in 1 .. N |-> h[i]]
<1>2. \A i \in 1 .. N : f[i] = h[i] /\ (i # 1 => f[i - 1] = h[i - 1])
  OBVIOUS
<1>3. \A i \in 1 .. N : h[i] = Body(f, i)
  <2> HIDE DEF f
  <2> QED BY <1>1, <1>2 DEF Joins
<1>4. Eq(f)
  BY <1>3
<1>5. Eq(flatten)
  <2> HIDE DEF Eq, f
  <2> QED BY <1>4
<1>6. FlattenSeq(seqs) = flatten[N]
  BY DEF FlattenSeq
<1>7. flatten = [i \in 1 .. N |-> Body(flatten, i)]
  BY <1>5
<1> HIDE DEF flatten
<1>8. Joins(seqs, flatten, N)
  BY <1>7 DEF Joins
<1> QED BY <1>6, <1>8

(* off[i] elements come before the i-th of the first m sequences. *)
Laid(S, seqs, off, m, F) ==
    /\ F \in Seq(S) /\ Len(F) = off[m + 1]
    /\ \A i \in 1 .. m, k \in Nat : k \in 1 .. Len(seqs[i]) =>
          off[i] + k \in 1 .. Len(F) /\ F[off[i] + k] = seqs[i][k]
    /\ \A p \in 1 .. Len(F) : \E i \in 1 .. m : \E k \in 1 .. Len(seqs[i]) : p = off[i] + k

Offsets(seqs, off) ==
    /\ off \in [1 .. Len(seqs) + 1 -> Nat]
    /\ off[1] = 0 /\ \A i \in 1 .. Len(seqs) : off[i + 1] = off[i] + Len(seqs[i])

LEMMA OffsetsRise ==
    ASSUME NEW S, NEW seqs \in Seq(Seq(S)), NEW off, Offsets(seqs, off),
           NEW a \in 1 .. Len(seqs) + 1, NEW b \in a .. Len(seqs) + 1
    PROVE  off[a] <= off[b]
<1> DEFINE Bad == {x \in a .. Len(seqs) + 1 : ~(off[a] <= off[x])}
<1>1. SUFFICES ASSUME Bad # {} PROVE FALSE
  OBVIOUS
<1>2. PICK x \in Bad : \A y \in Bad : x <= y
  <2>1. Bad \in SUBSET Nat
    OBVIOUS
  <2> HIDE DEF Bad
  <2> QED BY <1>1, <2>1, LeastOf
<1>3. x \in a .. Len(seqs) + 1 /\ ~(off[a] <= off[x]) /\ Len(seqs) \in Nat /\ a \in Nat /\ a >= 1
  BY <1>2
<1>4. \A y \in 1 .. Len(seqs) + 1 : off[y] \in Nat
  BY DEF Offsets
<1>5. /\ off[a] \in Nat /\ off[x] \in Nat
      /\ x - 1 \in a .. Len(seqs) + 1 /\ x - 1 \in 1 .. Len(seqs) /\ ~(x <= x - 1)
      /\ x - 1 \in 1 .. Len(seqs) + 1 /\ (x - 1) + 1 = x
  <2>1. x \in 1 .. Len(seqs) + 1 /\ off[a] \in Nat /\ off[x] \in Nat
    BY <1>3, <1>4
  <2>2. x # a
    BY <1>3, <2>1
  <2> QED BY <1>3, <2>1, <2>2
<1>6. off[a] <= off[x - 1]
  <2>1. x - 1 \notin Bad
    <3> HIDE DEF Bad
    <3> QED BY <1>2, <1>5
  <2> QED BY <1>5, <2>1
<1>7. off[x] = off[x - 1] + Len(seqs[x - 1])
  BY <1>5 DEF Offsets
<1>8. Len(seqs[x - 1]) \in Nat
  <2>1. seqs[x - 1] \in Seq(S)
    BY <1>5, ElementOfSeq
  <2> QED BY <2>1
<1>9. off[x - 1] \in Nat
  BY <1>4, <1>5
<1> HIDE DEF Bad
<1> QED BY SMTT(30), <1>3, <1>5, <1>6, <1>7, <1>8, <1>9

LEMMA LaidOneMore ==
    ASSUME NEW S, NEW seqs \in Seq(Seq(S)), NEW off, Offsets(seqs, off),
           NEW m \in 1 .. Len(seqs), NEW F, Laid(S, seqs, off, m - 1, F)
    PROVE  Laid(S, seqs, off, m, F \o seqs[m])
<1> DEFINE s == seqs[m]
           G == F \o s
<1>1. /\ s \in Seq(S) /\ Len(s) \in Nat
      /\ F \in Seq(S) /\ Len(F) \in Nat /\ Len(F) = off[m]
      /\ off[m + 1] = off[m] + Len(s)
  <2>1. s \in Seq(S)
    BY ElementOfSeq
  <2>2. (m - 1) + 1 = m /\ F \in Seq(S) /\ Len(F) = off[(m - 1) + 1]
    BY DEF Laid
  <2> QED BY <2>1, <2>2 DEF Offsets
<1>2. /\ G \in Seq(S) /\ Len(G) = Len(F) + Len(s)
      /\ \A p \in 1 .. Len(F) + Len(s) : G[p] = IF p <= Len(F) THEN F[p] ELSE s[p - Len(F)]
  BY <1>1, ConcatProperties
<1> HIDE DEF G
<1>3. ASSUME NEW i \in 1 .. m, NEW k \in Nat, k \in 1 .. Len(seqs[i])
      PROVE  off[i] + k \in 1 .. Len(G) /\ G[off[i] + k] = seqs[i][k]
  <2>1. CASE i = m
    <3>1. off[i] + k \in 1 .. Len(F) + Len(s) /\ ~(off[i] + k <= Len(F))
          /\ (off[i] + k) - Len(F) = k
      BY <1>1, <1>3, <2>1
    <3> QED BY <1>2, <2>1, <3>1
  <2>2. CASE i # m
    <3>1. i \in 1 .. m - 1
      BY <2>2
    <3>2. off[i] + k \in 1 .. Len(F) /\ F[off[i] + k] = seqs[i][k]
      BY <1>3, <3>1 DEF Laid
    <3> DEFINE p == off[i] + k
    <3> HIDE DEF p
    <3>3. p \in 1 .. Len(F)
      BY <3>2 DEF p
    <3>4. p \in 1 .. Len(F) + Len(s) /\ p <= Len(F)
      BY <1>1, <3>3
    <3>5. p \in 1 .. Len(G) /\ G[p] = F[p]
      BY <1>2, <3>4
    <3> QED BY <3>2, <3>5 DEF p
  <2> QED BY <2>1, <2>2
<1>4. ASSUME NEW p \in 1 .. Len(G)
      PROVE  \E i \in 1 .. m : \E k \in 1 .. Len(seqs[i]) : p = off[i] + k
  <2>1. CASE p <= Len(F)
    <3>1. p \in 1 .. Len(F)
      BY <1>1, <2>1
    <3>2. PICK i \in 1 .. m - 1 : \E k \in 1 .. Len(seqs[i]) : p = off[i] + k
      BY <3>1 DEF Laid
    <3>3. i \in 1 .. m
      OBVIOUS
    <3> QED BY <3>2, <3>3
  <2>2. CASE ~(p <= Len(F))
    <3> DEFINE k == p - Len(F)
    <3>1. /\ Len(F) \in Nat /\ p \in 1 .. Len(F) + Len(seqs[m])
          /\ off[m] = Len(F) /\ m \in 1 .. m
      BY <1>1, <1>2
    <3>2. k \in 1 .. Len(seqs[m]) /\ p = off[m] + k
      BY <2>2, <3>1
    <3> HIDE DEF k
    <3> QED BY <3>1, <3>2
  <2> QED BY <2>1, <2>2
<1>5. Laid(S, seqs, off, m, G)
  BY <1>1, <1>2, <1>3, <1>4 DEF Laid
<1> QED BY <1>5 DEF G

LEMMA OffsetsExist ==
    ASSUME NEW S, NEW seqs \in Seq(Seq(S)), Len(seqs) # 0, NEW f, Joins(seqs, f, Len(seqs))
    PROVE  \E off : Offsets(seqs, off) /\ Laid(S, seqs, off, Len(seqs), f[Len(seqs)])
<1> DEFINE N == Len(seqs)
           off == [i \in 1 .. N + 1 |-> IF i = 1 THEN 0 ELSE Len(f[i - 1])]
           Bad == {m \in 1 .. N : ~(f[m] \in Seq(S))}
<1>1. N \in Nat \ {0}
  OBVIOUS
<1>2. \A i \in 1 .. N : seqs[i] \in Seq(S) /\ Len(seqs[i]) \in Nat
  BY ElementOfSeq
<1>3. Bad = {}
  <2>1. SUFFICES ASSUME Bad # {} PROVE FALSE
    OBVIOUS
  <2>2. PICK m \in Bad : \A y \in Bad : m <= y
    <3>1. Bad \in SUBSET Nat
      OBVIOUS
    <3> HIDE DEF Bad
    <3> QED BY <2>1, <3>1, LeastOf
  <2>3. m \in 1 .. N /\ f[m] \notin Seq(S)
    BY <2>2
  <2>4. f[m] = IF m = 1 THEN seqs[m] ELSE f[m - 1] \o seqs[m]
    BY <2>3 DEF Joins
  <2>5. m # 1 /\ m - 1 \in 1 .. N /\ ~(m <= m - 1)
    BY <1>1, <1>2, <2>3, <2>4
  <2>6. f[m - 1] \in Seq(S)
    <3>1. m - 1 \notin Bad
      <4> HIDE DEF Bad
      <4> QED BY <2>2, <2>5
    <3> QED BY <2>5, <3>1
  <2> QED BY <1>2, <2>3, <2>4, <2>5, <2>6, ConcatProperties
<1>4. \A i \in 1 .. N : f[i] \in Seq(S) /\ Len(f[i]) \in Nat
  BY <1>3
<1>5. /\ off \in [1 .. N + 1 -> Nat] /\ off[1] = 0
      /\ \A i \in 1 .. N : off[i + 1] = Len(f[i])
  <2>1. \A i \in 1 .. N + 1 : i # 1 => i - 1 \in 1 .. N
    BY <1>1
  <2>2. 1 \in 1 .. N + 1 /\ \A i \in 1 .. N : i + 1 \in 1 .. N + 1 /\ i + 1 # 1 /\ (i + 1) - 1 = i
    BY <1>1
  <2> HIDE DEF Bad
  <2> QED BY <1>4, <2>1, <2>2
<1> HIDE DEF off
<1>6. ASSUME NEW i \in 1 .. N PROVE off[i + 1] = off[i] + Len(seqs[i])
  <2>1. f[i] = IF i = 1 THEN seqs[i] ELSE f[i - 1] \o seqs[i]
    BY DEF Joins
  <2>2. CASE i = 1
    <3>1. off[i + 1] = Len(seqs[i]) /\ off[i] = 0
      BY <1>5, <2>1, <2>2
    <3> QED BY <1>2, <3>1
  <2>3. CASE i # 1
    <3>1. i - 1 \in 1 .. N /\ (i - 1) + 1 = i
      BY <1>1, <2>3
    <3>2. f[i - 1] \in Seq(S) /\ off[i] = Len(f[i - 1])
      BY <1>4, <1>5, <3>1
    <3>3. Len(f[i - 1] \o seqs[i]) = Len(f[i - 1]) + Len(seqs[i])
      BY <1>2, <3>2, ConcatProperties
    <3> QED BY <1>5, <2>1, <2>3, <3>2, <3>3
  <2> QED BY <2>2, <2>3
<1>7. Offsets(seqs, off)
  BY <1>5, <1>6 DEF Offsets
<1>8. Laid(S, seqs, off, 0, <<>>)
  BY <1>5 DEF Laid
<1> DEFINE Worse == {m \in 1 .. N : ~Laid(S, seqs, off, m, f[m])}
<1>9. Worse = {}
  <2>1. SUFFICES ASSUME Worse # {} PROVE FALSE
    OBVIOUS
  <2>2. PICK m \in Worse : \A y \in Worse : m <= y
    <3>1. Worse \in SUBSET Nat
      OBVIOUS
    <3> HIDE DEF Worse
    <3> QED BY <2>1, <3>1, LeastOf
  <2>3. m \in 1 .. N /\ ~Laid(S, seqs, off, m, f[m])
    BY <2>2
  <2>4. f[m] = IF m = 1 THEN seqs[m] ELSE f[m - 1] \o seqs[m]
    BY <2>3 DEF Joins
  <2>5. CASE m = 1
    <3>1. <<>> \o seqs[m] = seqs[m]
      BY <1>2, <2>3, ConcatEmptySeq
    <3>2. Laid(S, seqs, off, m - 1, <<>>)
      BY <1>8, <2>5
    <3>3. Laid(S, seqs, off, m, <<>> \o seqs[m])
      BY <1>7, <2>3, <3>2, LaidOneMore
    <3> QED BY <2>3, <2>4, <2>5, <3>1, <3>3
  <2>6. CASE m # 1
    <3>1. m - 1 \in 1 .. N /\ ~(m <= m - 1)
      BY <1>1, <2>3, <2>6
    <3>2. m - 1 \notin Worse
      <4> HIDE DEF Worse
      <4> QED BY <2>2, <3>1
    <3>3. Laid(S, seqs, off, m - 1, f[m - 1])
      BY <3>1, <3>2
    <3>4. Laid(S, seqs, off, m, f[m - 1] \o seqs[m])
      BY <1>7, <2>3, <3>3, LaidOneMore
    <3> QED BY <2>3, <2>4, <2>6, <3>4
  <2> QED BY <2>5, <2>6
<1>10. Laid(S, seqs, off, N, f[N])
  BY <1>1, <1>9
<1> QED BY <1>7, <1>10

(* FlattenSeq puts each sequence's elements, in order, after those before it. *)
LEMMA FlattenSeqLays ==
    ASSUME NEW S, NEW seqs \in Seq(Seq(S))
    PROVE  \E off : Offsets(seqs, off) /\ Laid(S, seqs, off, Len(seqs), FlattenSeq(seqs))
<1>1. CASE Len(seqs) = 0
  <2> DEFINE off == [i \in 1 .. 1 |-> 0]
  <2>1. seqs = <<>> /\ FlattenSeq(seqs) = seqs
    BY <1>1 DEF FlattenSeq
  <2>2. off[1] = 0 /\ off \in [1 .. 1 -> Nat]
    OBVIOUS
  <2> HIDE DEF off
  <2>3. Offsets(seqs, off)
    BY <1>1, <2>2 DEF Offsets
  <2>4. Laid(S, seqs, off, 0, <<>>)
    BY <2>2 DEF Laid
  <2> QED BY <1>1, <2>1, <2>3, <2>4
<1>2. CASE Len(seqs) # 0
  <2>1. PICK f : Joins(seqs, f, Len(seqs)) /\ FlattenSeq(seqs) = f[Len(seqs)]
    BY <1>2, FlattenSeqUnfolds
  <2>2. PICK off : Offsets(seqs, off) /\ Laid(S, seqs, off, Len(seqs), f[Len(seqs)])
    BY <1>2, <2>1, OffsetsExist
  <2> QED BY <2>1, <2>2
<1> QED BY <1>1, <1>2

-----------------------------------------------------------------------------
(* A document: its sections' chunks laid end to end. *)

SpansOf(doc, n, target, percent) == PackSentences(doc[n], target, percent)

Span == [section : Nat, first : Nat, last : Nat]

SectionSpans(doc, n, target, percent) ==
    LET spans == PackSentences(doc[n], target, percent)
    IN [k \in DOMAIN spans |-> [section |-> n, first |-> spans[k][1], last |-> spans[k][2]]]

Sections(doc, target, percent) ==
    [n \in DOMAIN doc |-> IF doc[n] = <<>> THEN <<>> ELSE SectionSpans(doc, n, target, percent)]

LEMMA FunctionIsSeq ==
    ASSUME NEW S, NEW m \in Nat, NEW x \in [1 .. m -> S]
    PROVE  x \in Seq(S) /\ Len(x) = m
OBVIOUS

LEMMA SectionsAreSpans ==
    ASSUME NEW doc \in Seq(Seq(Nat)), NEW target, NEW percent
    PROVE  LET parts == Sections(doc, target, percent) IN
           /\ parts \in Seq(Seq(Span)) /\ Len(parts) = Len(doc)
           /\ \A n \in 1 .. Len(doc) :
                /\ doc[n] \in Seq(Nat)
                /\ doc[n] = <<>> => Len(parts[n]) = 0
                /\ doc[n] # <<>> =>
                     /\ Chain(doc[n], target, percent, SpansOf(doc, n, target, percent), 1)
                     /\ Len(parts[n]) = Len(SpansOf(doc, n, target, percent))
                     /\ \A k \in 1 .. Len(parts[n]) :
                          parts[n][k] = [section |-> n,
                                         first |-> SpansOf(doc, n, target, percent)[k][1],
                                         last  |-> SpansOf(doc, n, target, percent)[k][2]]
<1> DEFINE parts == Sections(doc, target, percent)
<1>1. Len(doc) \in Nat /\ DOMAIN doc = 1 .. Len(doc)
  OBVIOUS
<1>2. \A n \in 1 .. Len(doc) :
         parts[n] = IF doc[n] = <<>> THEN <<>> ELSE SectionSpans(doc, n, target, percent)
  BY <1>1 DEF Sections
<1>3. ASSUME NEW n \in 1 .. Len(doc), doc[n] # <<>>
      PROVE  LET sp == SpansOf(doc, n, target, percent) IN
             /\ Chain(doc[n], target, percent, sp, 1)
             /\ parts[n] \in Seq(Span) /\ Len(parts[n]) = Len(sp)
             /\ \A k \in 1 .. Len(parts[n]) :
                  parts[n][k] = [section |-> n, first |-> sp[k][1], last  |-> sp[k][2]]
  <2> DEFINE sp == SpansOf(doc, n, target, percent)
  <2>1. doc[n] \in Seq(Nat) /\ Len(doc[n]) \in Nat /\ Len(doc[n]) > 0
    <3>1. doc[n] \in Seq(Nat)
      BY ElementOfSeq
    <3> QED BY <1>3, <3>1
  <2>2. Chain(doc[n], target, percent, sp, 1)
    BY <2>1, SectionIsChained DEF SpansOf
  <2>3. parts[n] = [k \in DOMAIN sp |-> [section |-> n, first |-> sp[k][1], last |-> sp[k][2]]]
    BY <1>2, <1>3 DEF SectionSpans, SpansOf
  <2> HIDE DEF sp, parts
  <2>4. sp \in Seq(Nat \X Nat)
    BY <2>2 DEF Chain
  <2>5. Len(sp) \in Nat /\ DOMAIN sp = 1 .. Len(sp)
    BY <2>4
  <2>6. \A k \in 1 .. Len(sp) : sp[k][1] \in Nat /\ sp[k][2] \in Nat
    <3>1. \A k \in 1 .. Len(sp) : sp[k] \in Nat \X Nat
      BY <2>4, ElementOfSeq
    <3> QED BY <3>1
  <2>7. parts[n] \in [1 .. Len(sp) -> Span]
    BY <1>1, <2>3, <2>5, <2>6 DEF Span
  <2>8. parts[n] \in Seq(Span) /\ Len(parts[n]) = Len(sp)
    BY <2>5, <2>7, FunctionIsSeq
  <2> QED BY <2>2, <2>3, <2>5, <2>8 DEF sp
<1>4. \A n \in 1 .. Len(doc) : doc[n] = <<>> => parts[n] \in Seq(Span) /\ Len(parts[n]) = 0
  BY <1>2
<1>5. \A n \in 1 .. Len(doc) : doc[n] \in Seq(Nat)
  BY ElementOfSeq
<1>6. parts \in [1 .. Len(doc) -> Seq(Span)]
  <2>1. \A n \in 1 .. Len(doc) : parts[n] \in Seq(Span)
    <3> HIDE DEF parts
    <3> QED BY <1>3, <1>4
  <2>2. parts = [n \in 1 .. Len(doc) |-> parts[n]]
    BY <1>1 DEF Sections
  <2> HIDE DEF parts
  <2> QED BY <2>1, <2>2
<1> HIDE DEF parts
<1>7. parts \in Seq(Seq(Span)) /\ Len(parts) = Len(doc)
  BY <1>1, <1>6
<1> QED BY <1>3, <1>4, <1>5, <1>7 DEF parts

(* Chunk p is the k-th of section n. *)
IsChunk(chunks, p, doc, n, k, target, percent) ==
    /\ doc[n] \in Seq(Nat) /\ doc[n] # <<>>
    /\ LET sp == SpansOf(doc, n, target, percent) IN
       /\ Chain(doc[n], target, percent, sp, 1)
       /\ k \in 1 .. Len(sp)
       /\ chunks[p] = [index |-> p - 1, section |-> n, first |-> sp[k][1], last |-> sp[k][2]]

DocumentLaid(doc, chunks, parts, off, target, percent) ==
    /\ Offsets(parts, off)
    /\ \A n \in 1 .. Len(doc), k \in Nat : k \in 1 .. Len(parts[n]) =>
          /\ off[n] + k \in 1 .. Len(chunks)
          /\ IsChunk(chunks, off[n] + k, doc, n, k, target, percent)
    /\ \A p \in 1 .. Len(chunks) :
          \E n \in 1 .. Len(doc) : \E k \in 1 .. Len(parts[n]) : p = off[n] + k

LEMMA DocumentIsLaid ==
    ASSUME NEW doc \in Seq(Seq(Nat)), NEW target, NEW percent
    PROVE  LET chunks == ChunkDocument(doc, target, percent)
               parts == Sections(doc, target, percent)
           IN /\ DOMAIN chunks = 1 .. Len(chunks) /\ Len(chunks) \in Nat
              /\ \E off : DocumentLaid(doc, chunks, parts, off, target, percent)
<1> DEFINE chunks == ChunkDocument(doc, target, percent)
           parts == Sections(doc, target, percent)
           all == FlattenSeq(parts)
<1>1. /\ parts \in Seq(Seq(Span)) /\ Len(parts) = Len(doc)
      /\ \A n \in 1 .. Len(doc) :
            /\ doc[n] \in Seq(Nat)
            /\ doc[n] = <<>> => Len(parts[n]) = 0
            /\ doc[n] # <<>> =>
                 /\ Chain(doc[n], target, percent, SpansOf(doc, n, target, percent), 1)
                 /\ Len(parts[n]) = Len(SpansOf(doc, n, target, percent))
                 /\ \A k \in 1 .. Len(parts[n]) :
                      parts[n][k] = [section |-> n,
                                     first |-> SpansOf(doc, n, target, percent)[k][1],
                                     last  |-> SpansOf(doc, n, target, percent)[k][2]]
  BY SectionsAreSpans
<1>2. chunks = [k \in DOMAIN all |-> [index |-> k - 1, section |-> all[k].section,
                                      first |-> all[k].first, last |-> all[k].last]]
  BY DEF ChunkDocument, Sections, SectionSpans
<1> HIDE DEF parts
<1>3. PICK off : Offsets(parts, off) /\ Laid(Span, parts, off, Len(parts), all)
  BY <1>1, FlattenSeqLays
<1> HIDE DEF all, chunks
<1>4. all \in Seq(Span) /\ Len(all) \in Nat /\ DOMAIN all = 1 .. Len(all)
  BY <1>3 DEF Laid
<1>5. DOMAIN chunks = 1 .. Len(all) /\ Len(chunks) = Len(all)
  BY <1>2, <1>4
<1>6. ASSUME NEW n \in 1 .. Len(doc), NEW k \in Nat, k \in 1 .. Len(parts[n])
      PROVE  /\ off[n] + k \in 1 .. Len(chunks)
             /\ IsChunk(chunks, off[n] + k, doc, n, k, target, percent)
  <2> DEFINE p == off[n] + k
             sp == SpansOf(doc, n, target, percent)
  <2>1. p \in 1 .. Len(all) /\ all[p] = parts[n][k]
    BY <1>1, <1>3, <1>6 DEF Laid
  <2>2. doc[n] \in Seq(Nat) /\ doc[n] # <<>>
    BY SMTT(30), <1>1, <1>6
  <2>3. /\ Chain(doc[n], target, percent, sp, 1) /\ k \in 1 .. Len(sp)
        /\ parts[n][k] = [section |-> n, first |-> sp[k][1], last |-> sp[k][2]]
    BY <1>1, <1>6, <2>2
  <2> HIDE DEF p, sp
  <2>4. chunks[p] = [index |-> p - 1, section |-> n, first |-> sp[k][1], last |-> sp[k][2]]
    BY <1>2, <1>4, <2>1, <2>3
  <2> QED BY <1>5, <2>1, <2>2, <2>3, <2>4 DEF p, sp, IsChunk
<1>7. ASSUME NEW p \in 1 .. Len(chunks)
      PROVE  \E n \in 1 .. Len(doc) : \E k \in 1 .. Len(parts[n]) : p = off[n] + k
  <2>1. p \in 1 .. Len(all) /\ Len(parts) = Len(doc)
    BY <1>1, <1>5
  <2>2. \E n \in 1 .. Len(parts) : \E k \in 1 .. Len(parts[n]) : p = off[n] + k
    BY <1>3, <2>1 DEF Laid
  <2> QED BY <2>1, <2>2
<1>8. DocumentLaid(doc, chunks, parts, off, target, percent)
  BY <1>3, <1>6, <1>7 DEF DocumentLaid
<1> QED BY <1>4, <1>5, <1>8 DEF chunks, parts

(* chunk_document cuts any document, for any target and overlap, into chunks  *)
(* that cover it in order, of whole sentences, as large as fit and no larger  *)
(* than asked for unless a sentence is, and that overlap as little as asked.  *)
THEOREM AnyDocumentIsTiled ==
    ASSUME NEW doc \in Seq(Seq(Nat)), NEW target \in Nat, NEW percent \in Nat
    PROVE  ChunksTile(doc, ChunkDocument(doc, target, percent), target, percent)
<1> DEFINE chunks == ChunkDocument(doc, target, percent)
           parts == Sections(doc, target, percent)
           Sp(n) == SpansOf(doc, n, target, percent)
<1>1. /\ parts \in Seq(Seq(Span)) /\ Len(parts) = Len(doc)
      /\ \A n \in 1 .. Len(doc) : doc[n] # <<>> => Len(parts[n]) = Len(Sp(n))
  BY SectionsAreSpans
<1>2. DOMAIN chunks = 1 .. Len(chunks) /\ Len(chunks) \in Nat
  BY DocumentIsLaid
<1>a. PICK off : DocumentLaid(doc, chunks, parts, off, target, percent)
  BY DocumentIsLaid
<1>3. /\ Offsets(parts, off)
      /\ \A n \in 1 .. Len(doc), k \in Nat : k \in 1 .. Len(parts[n]) =>
            /\ off[n] + k \in 1 .. Len(chunks)
            /\ IsChunk(chunks, off[n] + k, doc, n, k, target, percent)
      /\ \A p \in 1 .. Len(chunks) :
            \E n \in 1 .. Len(doc) : \E k \in 1 .. Len(parts[n]) : p = off[n] + k
  <2> HIDE DEF chunks, parts
  <2> QED BY <1>a DEF DocumentLaid
<1>4. Len(doc) \in Nat /\ DOMAIN doc = 1 .. Len(doc)
  OBVIOUS
<1>5. \A n \in 1 .. Len(doc) : Len(parts[n]) \in Nat
  <2>1. \A n \in 1 .. Len(parts) : parts[n] \in Seq(Span)
    BY <1>1, ElementOfSeq
  <2> HIDE DEF parts
  <2> QED BY <1>1, <2>1
<1> HIDE DEF chunks, parts
<1>b. Len(parts) = Len(doc)
  BY <1>1
<1>6. ASSUME NEW n \in 1 .. Len(doc)
      PROVE  off[n] \in Nat /\ off[n + 1] = off[n] + Len(parts[n])
  <2>1. n \in 1 .. Len(parts) /\ n \in 1 .. Len(parts) + 1
    BY <1>b, <1>4
  <2> QED BY <1>3, <2>1 DEF Offsets
<1>7. ASSUME NEW n \in DOMAIN doc, NEW i \in DOMAIN doc[n]
      PROVE  \E p \in DOMAIN chunks :
                chunks[p].section = n /\ i \in chunks[p].first .. chunks[p].last
  <2>1. n \in 1 .. Len(doc) /\ doc[n] \in Seq(Nat) /\ i \in 1 .. Len(doc[n])
    <3>1. n \in 1 .. Len(doc)
      BY <1>4
    <3>2. doc[n] \in Seq(Nat)
      BY <3>1, ElementOfSeq
    <3> QED BY <3>1, <3>2
  <2>2. doc[n] # <<>>
    BY <2>1
  <2>3. Chain(doc[n], target, percent, Sp(n), 1)
    BY <2>1, <2>2, SectionsAreSpans
  <2>4. PICK k \in 1 .. Len(Sp(n)) : i \in Sp(n)[k][1] .. Sp(n)[k][2]
    BY <2>1, <2>3 DEF Chain
  <2>5. k \in Nat /\ k \in 1 .. Len(parts[n])
    <3>1. Len(parts[n]) = Len(Sp(n)) /\ Len(parts[n]) \in Nat
      BY <1>1, <1>5, <2>1, <2>2
    <3> HIDE DEF Sp
    <3> QED BY <3>1
  <2> DEFINE p == off[n] + k
  <2>6. p \in 1 .. Len(chunks) /\ IsChunk(chunks, p, doc, n, k, target, percent)
    BY <1>3, <2>1, <2>5
  <2> HIDE DEF p
  <2>7. chunks[p].section = n /\ i \in chunks[p].first .. chunks[p].last
    BY <2>4, <2>6 DEF IsChunk
  <2> QED BY <1>2, <2>6, <2>7
<1>8. ASSUME NEW p \in DOMAIN chunks
      PROVE  LET c == chunks[p]  s == doc[c.section] IN
             /\ c.index = p - 1
             /\ c.last \in c.first .. Len(s)
             /\ Tokens(WordsIn(s, c.first, c.last)) > target => c.first = c.last
             /\ c.last < Len(s) => Tokens(WordsIn(s, c.first, c.last + 1)) > target
  <2>0. p \in 1 .. Len(chunks)
    BY <1>2
  <2>a. PICK n \in 1 .. Len(doc) : \E k \in 1 .. Len(parts[n]) : p = off[n] + k
    BY <1>3, <2>0
  <2>1. PICK k \in 1 .. Len(parts[n]) : p = off[n] + k
    BY <2>a
  <2>2. IsChunk(chunks, p, doc, n, k, target, percent)
    BY <1>3, <1>5, <2>1
  <2> DEFINE sp == Sp(n)
  <2>3. /\ doc[n] \in Seq(Nat) /\ Chain(doc[n], target, percent, sp, 1) /\ k \in 1 .. Len(sp)
        /\ chunks[p] = [index |-> p - 1, section |-> n, first |-> sp[k][1], last |-> sp[k][2]]
    BY <2>2 DEF IsChunk
  <2> HIDE DEF sp
  <2>4. LET a == sp[k][1]  b == sp[k][2]  s == doc[n] IN
        /\ a \in 1 .. Len(s) /\ b \in a .. Len(s)
        /\ Tokens(WordsIn(s, a, b)) > target => a = b
        /\ b < Len(s) => Tokens(WordsIn(s, a, b + 1)) > target
    BY <2>3, ChunkHolds
  <2>5. /\ chunks[p].index = p - 1 /\ chunks[p].section = n
        /\ chunks[p].first = sp[k][1] /\ chunks[p].last = sp[k][2]
    BY <2>3
  <2> QED BY <2>4, <2>5
<1>9. ASSUME NEW p \in 1 .. Len(chunks) - 1
      PROVE  LET c == chunks[p]  d == chunks[p + 1]  s == doc[c.section] IN
             \/ c.section < d.section
             \/ /\ c.section = d.section
                /\ c.first < d.first
                /\ d.first <= c.last =>
                     100 * Tokens(WordsIn(s, d.first + 1, c.last)) < percent * target
  <2>0. p \in 1 .. Len(chunks) /\ p + 1 \in 1 .. Len(chunks) /\ p \in Nat
    BY <1>2
  <2>a. PICK n \in 1 .. Len(doc) : \E k \in 1 .. Len(parts[n]) : p = off[n] + k
    BY <1>3, <2>0
  <2>1. PICK k \in 1 .. Len(parts[n]) : p = off[n] + k
    BY <2>a
  <2>2. IsChunk(chunks, p, doc, n, k, target, percent)
    BY <1>3, <1>5, <2>1
  <2>3. CASE k = Len(parts[n])
    <3>a. PICK m \in 1 .. Len(doc) : \E l \in 1 .. Len(parts[m]) : p + 1 = off[m] + l
      BY <1>3, <2>0
    <3>1. PICK l \in 1 .. Len(parts[m]) : p + 1 = off[m] + l
      BY <3>a
    <3>2. IsChunk(chunks, p + 1, doc, m, l, target, percent)
      BY <1>3, <1>5, <3>1
    <3>3. ASSUME ~(n < m) PROVE FALSE
      <4>1. m + 1 \in 1 .. Len(parts) + 1 /\ n + 1 \in m + 1 .. Len(parts) + 1
        BY <1>4, <1>b, <3>3
      <4>2. off[m + 1] <= off[n + 1]
        BY <1>1, <1>3, <4>1, OffsetsRise
      <4>3. off[n + 1] = p
        BY <1>6, <2>1, <2>3
      <4>4. off[m + 1] = off[m] + Len(parts[m]) /\ off[m] \in Nat /\ Len(parts[m]) \in Nat
        BY <1>5, <1>6
      <4> QED BY SMTT(30), <2>0, <3>1, <4>2, <4>3, <4>4
    <3>4. chunks[p].section = n /\ chunks[p + 1].section = m
      BY <2>2, <3>2 DEF IsChunk
    <3> QED BY <3>3, <3>4
  <2>4. CASE k # Len(parts[n])
    <3> DEFINE sp == Sp(n)
    <3>1. /\ k \in Nat /\ k + 1 \in Nat /\ k + 1 \in 1 .. Len(parts[n])
          /\ off[n] \in Nat /\ p + 1 = off[n] + (k + 1)
      <4>1. Len(parts[n]) \in Nat /\ off[n] \in Nat /\ k \in 1 .. Len(parts[n])
        BY <1>5, <1>6
      <4> DEFINE len == Len(parts[n])
                 low == off[n]
      <4>2. len \in Nat /\ low \in Nat /\ k \in 1 .. len /\ k # len /\ p = low + k
        BY <2>1, <2>4, <4>1
      <4> HIDE DEF len, low
      <4>3. k \in Nat /\ k + 1 \in Nat /\ k + 1 \in 1 .. len /\ p + 1 = low + (k + 1)
        BY <4>2
      <4> QED BY <4>2, <4>3 DEF len, low
    <3>2. IsChunk(chunks, p + 1, doc, n, k + 1, target, percent)
      BY <1>3, <3>1
    <3>3. /\ doc[n] \in Seq(Nat) /\ Chain(doc[n], target, percent, sp, 1)
          /\ k + 1 \in 1 .. Len(sp)
          /\ chunks[p] = [index |-> p - 1, section |-> n, first |-> sp[k][1], last |-> sp[k][2]]
          /\ chunks[p + 1] = [index |-> (p + 1) - 1, section |-> n,
                              first |-> sp[k + 1][1], last |-> sp[k + 1][2]]
      BY <2>2, <3>2 DEF IsChunk
    <3> HIDE DEF sp
    <3>4. k \in 1 .. Len(sp) - 1
      <4>1. Len(sp) \in Nat
        BY <3>3 DEF Chain
      <4> QED BY <2>1, <3>1, <3>3, <4>1
    <3>5. LET a == sp[k][1]  b == sp[k][2]  c == sp[k + 1][1] IN
          /\ a < c
          /\ c <= b => 100 * Tokens(WordsIn(doc[n], c + 1, b)) < percent * target
      BY <3>3, <3>4, ChunksOverlapLittle
    <3>6. /\ chunks[p].section = n /\ chunks[p].first = sp[k][1] /\ chunks[p].last = sp[k][2]
          /\ chunks[p + 1].section = n /\ chunks[p + 1].first = sp[k + 1][1]
      BY <3>3
    <3> QED BY <3>5, <3>6
  <2> QED BY <2>3, <2>4
<1>10. ChunksTile(doc, chunks, target, percent)
  BY <1>7, <1>8, <1>9 DEF ChunksTile
<1> QED BY <1>10 DEF chunks

-----------------------------------------------------------------------------
(* The batches the texts go out in. *)

LEMMA BatchBounds ==
    ASSUME NEW N \in Nat, NEW size \in Nat \ {0}
    PROVE  LET count == (N + size - 1) \div size IN
           /\ count \in Nat /\ (count = 0 => N = 0)
           /\ N <= count * size
           /\ \A b \in 1 .. count : (b - 1) * size < N
<1> DEFINE count == (N + size - 1) \div size
           rest == (N + size - 1) % size
<1>1. /\ count \in Nat /\ rest \in 0 .. size - 1
      /\ N + size - 1 = size * count + rest
  OBVIOUS
<1> HIDE DEF count, rest
<1>2. size * count = count * size /\ count * size \in Nat /\ rest \in Nat
  BY <1>1
<1>3. N <= count * size
  BY <1>1, <1>2
<1>4. count = 0 => N = 0
  BY <1>3
<1>5. ASSUME NEW b \in 1 .. count PROVE (b - 1) * size < N
  <2>1. b - 1 \in Nat /\ count - 1 \in Nat /\ b - 1 <= count - 1
    BY <1>1
  <2>2. (b - 1) * size <= (count - 1) * size
    BY <2>1
  <2>3. (count - 1) * size = count * size - size
    BY <1>1
  <2>4. (b - 1) * size \in Int
    BY <2>1
  <2> QED BY <1>1, <1>2, <2>2, <2>3, <2>4
<1> QED BY <1>1, <1>3, <1>4, <1>5 DEF count

(* embed_batched sends every text once, in order, whatever the batch size. *)
THEOREM AnyBatchesCover ==
    ASSUME NEW S, NEW texts \in Seq(S), NEW size \in Nat \ {0}
    PROVE  BatchesCover(texts, size)
<1> DEFINE N == Len(texts)
           count == (N + size - 1) \div size
           end(b) == IF b * size < N THEN b * size ELSE N
           batches == Batches(texts, size)
<1>1. /\ N \in Nat /\ count \in Nat /\ (count = 0 => N = 0) /\ N <= count * size
      /\ \A b \in 1 .. count : (b - 1) * size < N
  BY BatchBounds
<1>2. batches = [b \in 1 .. count |-> SubSeq(texts, (b - 1) * size + 1, end(b))]
  BY DEF Batches
<1> HIDE DEF count, batches
<1>3. ASSUME NEW b \in 1 .. count
      PROVE  /\ (b - 1) * size \in 0 .. N /\ end(b) \in (b - 1) * size + 1 .. N
             /\ end(b) <= (b - 1) * size + size
  <2>1. b * size = (b - 1) * size + size /\ (b - 1) * size \in Nat
    BY <1>1
  <2>2. (b - 1) * size < N
    BY <1>1
  <2> DEFINE low == (b - 1) * size
             high == b * size
  <2>3. high = low + size /\ low \in Nat /\ low < N /\ end(b) = IF high < N THEN high ELSE N
    BY <2>1, <2>2
  <2> HIDE DEF low, high, end
  <2>4. low \in 0 .. N /\ end(b) \in low + 1 .. N /\ end(b) <= low + size
    BY <1>1, <2>3
  <2> QED BY <2>4 DEF low
<1> HIDE DEF end
<1>4. ASSUME NEW b \in 1 .. count
      PROVE  batches[b] = SubSeq(texts, (b - 1) * size + 1, end(b))
  BY <1>2
<1>5. ASSUME NEW b \in 1 .. count
      PROVE  batches[b] \in Seq(S) /\ Len(batches[b]) \in 1 .. size
  <2> DEFINE low == (b - 1) * size
  <2>1. /\ low \in Nat /\ end(b) \in low + 1 .. N /\ end(b) <= low + size
        /\ low + 1 \in Int /\ end(b) \in Int
    BY <1>1, <1>3
  <2>2. batches[b] = SubSeq(texts, low + 1, end(b))
    BY <1>4
  <2> HIDE DEF low
  <2>3. \A i \in low + 1 .. end(b) : texts[i] \in S
    <3>1. \A i \in low + 1 .. end(b) : i \in 1 .. N
      BY <1>1, <2>1
    <3> QED BY <3>1, ElementOfSeq
  <2>4. /\ SubSeq(texts, low + 1, end(b)) \in Seq(S)
        /\ Len(SubSeq(texts, low + 1, end(b))) =
              IF low + 1 <= end(b) THEN end(b) - (low + 1) + 1 ELSE 0
    BY <2>1, <2>3, SubSeqProperties
  <2> QED BY <1>1, <2>1, <2>2, <2>4
<1>6. Len(batches) = count /\ DOMAIN batches = 1 .. count
  BY <1>1, <1>2
<1>7. FlattenSeq(batches) = texts
  <2>1. CASE count = 0
    <3>1. FlattenSeq(batches) = batches
      BY <1>6, <2>1 DEF FlattenSeq
    <3>2. texts = <<>> /\ batches = <<>>
      BY <1>1, <1>2, <2>1
    <3> QED BY <3>1, <3>2
  <2>2. CASE count # 0
    <3>1. PICK f : Joins(batches, f, count) /\ FlattenSeq(batches) = f[count]
      BY <1>1, <1>6, <2>2, FlattenSeqUnfolds
    <3> DEFINE Bad == {b \in 1 .. count : f[b] # SubSeq(texts, 1, end(b))}
    <3>2. Bad = {}
      <4>1. SUFFICES ASSUME Bad # {} PROVE FALSE
        OBVIOUS
      <4>2. PICK b \in Bad : \A y \in Bad : b <= y
        <5>1. Bad \in SUBSET Nat
          OBVIOUS
        <5> HIDE DEF Bad
        <5> QED BY <4>1, <5>1, LeastOf
      <4>3. b \in 1 .. count /\ f[b] # SubSeq(texts, 1, end(b))
        BY <4>2
      <4>4. f[b] = IF b = 1 THEN batches[b] ELSE f[b - 1] \o batches[b]
        BY <3>1, <4>3 DEF Joins
      <4>5. CASE b = 1
        <5>1. (b - 1) * size + 1 = 1
          BY <4>5
        <5> QED BY <1>4, <4>3, <4>4, <4>5, <5>1
      <4>6. CASE b # 1
        <5>1. b - 1 \in 1 .. count /\ ~(b <= b - 1)
          BY <1>1, <4>3, <4>6
        <5>2. f[b - 1] = SubSeq(texts, 1, end(b - 1))
          <6>1. b - 1 \notin Bad
            <7> HIDE DEF Bad
            <7> QED BY <4>2, <5>1
          <6> QED BY <5>1, <6>1
        <5> DEFINE low == (b - 1) * size
        <5>3. end(b - 1) = low
          <6>1. low < N
            BY <1>1, <4>3
          <6> QED BY <6>1 DEF end
        <5>4. low \in 0 .. N /\ end(b) \in low .. N
          BY <1>1, <1>3, <4>3
        <5>5. batches[b] = SubSeq(texts, low + 1, end(b))
          BY <1>4, <4>3
        <5> HIDE DEF low
        <5>6. SubSeq(texts, 1, low) \o SubSeq(texts, low + 1, end(b)) = SubSeq(texts, 1, end(b))
          <6>1. 1 \in 1 .. N + 1 /\ low \in 1 - 1 .. N
            BY <1>1, <5>4
          <6> QED BY <5>4, <6>1, ConcatAdjacentSubSeq
        <5> QED BY <4>3, <4>4, <4>6, <5>2, <5>3, <5>5, <5>6
      <4> QED BY <4>5, <4>6
    <3>3. f[count] = SubSeq(texts, 1, end(count))
      <4>1. count \in 1 .. count
        BY <1>1, <2>2
      <4> QED BY <3>2, <4>1
    <3>4. end(count) = N
      <4> DEFINE whole == count * size
      <4>1. whole \in Nat /\ N <= whole /\ end(count) = IF whole < N THEN whole ELSE N
        BY <1>1 DEF end
      <4> HIDE DEF whole
      <4> QED BY <1>1, <4>1
    <3> QED BY <3>1, <3>3, <3>4, SubSeqFull
  <2> QED BY <2>1, <2>2
<1> QED BY <1>5, <1>6, <1>7 DEF BatchesCover, batches

-----------------------------------------------------------------------------
(* The questions asked of the packing. *)

LEMMA BoundedSeqs ==
    ASSUME NEW S, NEW n \in Nat
    PROVE  SeqsUpTo(S, n) \subseteq Seq(S)
<1> SUFFICES ASSUME NEW x \in SeqsUpTo(S, n) PROVE x \in Seq(S)
  OBVIOUS
<1>1. PICK k \in 0 .. n : x \in [1 .. k -> S]
  BY DEF SeqsUpTo
<1>2. k \in Nat
  OBVIOUS
<1> QED BY <1>1, <1>2, FunctionIsSeq

LEMMA DocumentsAreSections == Documents \subseteq Seq(Seq(Nat))
<1> SUFFICES ASSUME NEW doc \in Documents PROVE doc \in Seq(Seq(Nat))
  OBVIOUS
<1>1. PICK S \in SUBSET Nat, m \in Nat, n \in Nat : doc \in SeqsUpTo(SeqsUpTo(S, m), n)
  <2>1. CASE doc \in SeqsUpTo(SeqsUpTo({1, 5, 9}, 3), 2)
    <3>1. {1, 5, 9} \in SUBSET Nat /\ 3 \in Nat /\ 2 \in Nat
      OBVIOUS
    <3> QED BY <2>1, <3>1
  <2>2. CASE doc \in SeqsUpTo(SeqsUpTo({2, 4, 7}, 5), 1)
    <3>1. {2, 4, 7} \in SUBSET Nat /\ 5 \in Nat /\ 1 \in Nat
      OBVIOUS
    <3> QED BY <2>2, <3>1
  <2> QED BY <2>1, <2>2 DEF Documents
<1>2. SeqsUpTo(S, m) \subseteq Seq(Nat)
  <2>1. SeqsUpTo(S, m) \subseteq Seq(S)
    BY BoundedSeqs
  <2>2. \A x \in Seq(S) : x \in Seq(Nat)
    BY SeqMonotonic
  <2> QED BY <2>1, <2>2
<1>3. doc \in Seq(SeqsUpTo(S, m))
  BY <1>1, BoundedSeqs
<1> QED BY <1>2, <1>3, SeqMonotonic

Chunk == [index : Nat, section : Nat, first : Nat, last : Nat]

LEMMA ChunksAreASeq ==
    ASSUME NEW doc \in Seq(Seq(Nat)), NEW target, NEW percent
    PROVE  ChunkDocument(doc, target, percent) \in Seq(Chunk)
<1> DEFINE parts == Sections(doc, target, percent)
           all == FlattenSeq(parts)
           chunks == ChunkDocument(doc, target, percent)
<1>1. parts \in Seq(Seq(Span))
  BY SectionsAreSpans
<1>2. chunks = [k \in DOMAIN all |-> [index |-> k - 1, section |-> all[k].section,
                                      first |-> all[k].first, last |-> all[k].last]]
  BY DEF ChunkDocument, Sections, SectionSpans
<1>3. all \in Seq(Span)
  <2> HIDE DEF parts
  <2> QED BY <1>1, FlattenSeqLays DEF Laid
<1> HIDE DEF all, chunks
<1>4. DOMAIN all = 1 .. Len(all) /\ Len(all) \in Nat
  BY <1>3
<1>5. \A k \in 1 .. Len(all) : all[k] \in Span
  BY <1>3, ElementOfSeq
<1>6. chunks \in [1 .. Len(all) -> Chunk]
  BY <1>2, <1>4, <1>5 DEF Span, Chunk
<1> QED BY <1>4, <1>6, FunctionIsSeq DEF chunks

-----------------------------------------------------------------------------
(* What a case is worth. *)

Expects(c) ==
    \/ c.phrases # {} \/ c.tools # <<>> \/ c.documents # {} \/ c.products # {}
    \/ c.reference

\* Of any length and with any names, a case that CaseInput lets be stored.
Gradable(c) ==
    /\ IsFiniteSet(c.phrases) /\ IsFiniteSet(c.documents) /\ IsFiniteSet(c.products)
    /\ c.tools \in Seq(ToSet(c.tools)) /\ c.reference \in BOOLEAN
    /\ Expects(c)

Heard(j) ==
    j.kind = "verdict" => j.correctness \in Correctness /\ j.grounded \in BOOLEAN

LEMMA RecallIsMet ==
    ASSUME NEW expected, NEW seen, IsFiniteSet(expected)
    PROVE  /\ Recall(expected, seen).status = "scored"
           /\ Recall(expected, seen).passed <=> expected \subseteq seen
           /\ Recall(expected, seen).found <= Recall(expected, seen).of
           /\ Recall(expected, seen).passed <=>
                Recall(expected, seen).found = Recall(expected, seen).of
<1> DEFINE hit == expected \intersect seen
<1>1. hit \in SUBSET expected /\ (hit = expected <=> expected \subseteq seen)
  OBVIOUS
<1>2. /\ Cardinality(hit) <= Cardinality(expected)
      /\ Cardinality(expected) = Cardinality(hit) => expected = hit
  BY <1>1, FS_Subset
<1>3. Recall(expected, seen) =
        [status |-> "scored", found |-> Cardinality(hit), of |-> Cardinality(expected),
         passed |-> Cardinality(hit) = Cardinality(expected)]
  BY DEF Recall, Scored
<1>4. /\ Recall(expected, seen).status = "scored"
      /\ Recall(expected, seen).found = Cardinality(hit)
      /\ Recall(expected, seen).of = Cardinality(expected)
      /\ Recall(expected, seen).passed <=> Cardinality(hit) = Cardinality(expected)
  <2> DEFINE same == Cardinality(hit) = Cardinality(expected)
  <2>1. same \in BOOLEAN
    OBVIOUS
  <2> HIDE DEF same, hit
  <2>2. Recall(expected, seen) = [status |-> "scored", found |-> Cardinality(hit),
                                 of |-> Cardinality(expected), passed |-> same]
    BY <1>3 DEF same
  <2>3. /\ Recall(expected, seen).status = "scored"
        /\ Recall(expected, seen).found = Cardinality(hit)
        /\ Recall(expected, seen).of = Cardinality(expected)
        /\ Recall(expected, seen).passed <=> same
    BY <2>1, <2>2
  <2>4. same <=> Cardinality(hit) = Cardinality(expected)
    BY DEF same
  <2> QED BY <2>3, <2>4
<1>5. Cardinality(hit) = Cardinality(expected) <=> expected \subseteq seen
  BY <1>1, <1>2
<1> HIDE DEF hit
<1> QED BY <1>2, <1>4, <1>5

LEMMA SelectionIsMet ==
    ASSUME NEW c, NEW o, NEW S, c.tools \in Seq(S)
    PROVE  /\ ToolSelection(c, o).status = "scored"
           /\ ToolSelection(c, o).passed <=> ToSet(c.tools) \subseteq Succeeded(o)
           /\ ToolSelection(c, o).found <= ToolSelection(c, o).of
           /\ ToolSelection(c, o).passed <=> ToolSelection(c, o).found = ToolSelection(c, o).of
<1> DEFINE good == Succeeded(o)
           hit == {n \in DOMAIN c.tools : c.tools[n] \in good}
<1>1. Len(c.tools) \in Nat /\ DOMAIN c.tools = 1 .. Len(c.tools)
  OBVIOUS
<1>2. IsFiniteSet(DOMAIN c.tools) /\ Cardinality(DOMAIN c.tools) = Len(c.tools)
  <2>1. IsFiniteSet(1 .. Len(c.tools)) /\ Cardinality(1 .. Len(c.tools)) = Len(c.tools)
    BY <1>1, IntervalCounts
  <2> QED BY <1>1, <2>1
<1>3. hit \in SUBSET DOMAIN c.tools
  OBVIOUS
<1>4. /\ Cardinality(hit) <= Len(c.tools)
      /\ Cardinality(hit) = Len(c.tools) => hit = DOMAIN c.tools
  <2> HIDE DEF hit
  <2> QED BY <1>2, <1>3, FS_Subset
<1>5. hit = DOMAIN c.tools <=> ToSet(c.tools) \subseteq good
  BY DEF ToSet
<1>6. ToolSelection(c, o) =
        [status |-> "scored", found |-> Cardinality(hit), of |-> Len(c.tools),
         passed |-> Cardinality(hit) = Len(c.tools)]
  BY DEF ToolSelection, Scored
<1>7. hit = DOMAIN c.tools => Cardinality(hit) = Len(c.tools)
  BY <1>2
<1>8. /\ ToolSelection(c, o).status = "scored"
      /\ ToolSelection(c, o).found = Cardinality(hit)
      /\ ToolSelection(c, o).of = Len(c.tools)
      /\ ToolSelection(c, o).passed <=> Cardinality(hit) = Len(c.tools)
  <2> DEFINE same == Cardinality(hit) = Len(c.tools)
  <2>1. same \in BOOLEAN
    OBVIOUS
  <2> HIDE DEF same, hit
  <2>2. ToolSelection(c, o) = [status |-> "scored", found |-> Cardinality(hit),
                               of |-> Len(c.tools), passed |-> same]
    BY <1>6 DEF same
  <2>3. /\ ToolSelection(c, o).status = "scored"
        /\ ToolSelection(c, o).found = Cardinality(hit)
        /\ ToolSelection(c, o).of = Len(c.tools)
        /\ ToolSelection(c, o).passed <=> same
    BY <2>1, <2>2
  <2>4. same <=> Cardinality(hit) = Len(c.tools)
    BY DEF same
  <2> QED BY <2>3, <2>4
<1>9. Cardinality(hit) = Len(c.tools) <=> ToSet(c.tools) \subseteq good
  BY <1>4, <1>5, <1>7
<1> HIDE DEF hit, good
<1> QED BY <1>4, <1>8, <1>9 DEF good

LEMMA JudgementIsMet ==
    ASSUME NEW j, Heard(j)
    PROVE  /\ JudgeScore(j).passed <=>
                j.kind = "verdict" /\ j.correctness = "correct" /\ j.grounded
           /\ JudgeScore(j).status = "scored" =>
                /\ JudgeScore(j).found <= JudgeScore(j).of
                /\ JudgeScore(j).passed => JudgeScore(j).found = JudgeScore(j).of
<1>1. CASE j.kind # "verdict"
  <2>1. JudgeScore(j) = [status |-> "error", passed |-> FALSE]
    BY <1>1 DEF JudgeScore, ErrorScore
  <2> QED BY <1>1, <2>1
<1>2. CASE j.kind = "verdict"
  <2> DEFINE found == Halves[j.correctness]
             good == j.correctness = "correct" /\ j.grounded
  <2>1. JudgeScore(j) = [status |-> "scored", found |-> found, of |-> 2, passed |-> good]
    BY <1>2 DEF JudgeScore
  <2>2. found <= 2 /\ (good => found = 2)
    BY <1>2 DEF Heard, Correctness, Halves
  <2>3. good \in BOOLEAN
    BY <1>2 DEF Heard
  <2>4. good <=> (j.kind = "verdict" /\ j.correctness = "correct" /\ j.grounded)
    BY <1>2
  <2> HIDE DEF found, good
  <2> QED BY <2>1, <2>2, <2>3, <2>4
<1> QED BY <1>1, <1>2

(* However a case was made up and whatever its turn said, called and cited, it *)
(* passes exactly if every expectation was measured and met.                   *)
THEOREM AnyVerdictIsEarned ==
    ASSUME NEW c, NEW o, NEW j, Gradable(c), o.error \in BOOLEAN, Heard(j)
    PROVE  VerdictIsEarned(c, o, j)
<1> DEFINE scores == Scores(c, o, j)
           kinds == Applicable(c, o, j)
           met(k) == CASE k = "phrases"   -> c.phrases \subseteq o.said
                       [] k = "tools"     -> ToSet(c.tools) \subseteq Succeeded(o)
                       [] k = "documents" -> c.documents \subseteq o.documents
                       [] k = "products"  -> c.products \subseteq o.products
                       [] k = "judge"     -> /\ j.kind = "verdict"
                                             /\ j.correctness = "correct" /\ j.grounded
<1>1. /\ DOMAIN scores = kinds
      /\ kinds \subseteq {"phrases", "tools", "documents", "products", "judge"}
  BY DEF Scores, Applicable
<1>2. ASSUME NEW k \in kinds
      PROVE  /\ scores[k].passed <=> met(k)
             /\ scores[k].status = "scored" =>
                  /\ scores[k].found <= scores[k].of
                  /\ scores[k].passed => scores[k].found = scores[k].of
  <2>1. scores[k] = ScoreOf(c, o, j, k)
    BY DEF Scores
  <2>2. CASE k = "phrases"
    <3>1. /\ ScoreOf(c, o, j, k) = Recall(c.phrases, o.said)
          /\ met(k) <=> c.phrases \subseteq o.said
      BY <2>2 DEF ScoreOf
    <3> HIDE DEF met, scores
    <3> QED BY <2>1, <3>1, RecallIsMet DEF Gradable
  <2>3. CASE k = "tools"
    <3>1. /\ ScoreOf(c, o, j, k) = ToolSelection(c, o)
          /\ met(k) <=> ToSet(c.tools) \subseteq Succeeded(o)
      BY <2>3 DEF ScoreOf
    <3> HIDE DEF met, scores
    <3> QED BY <2>1, <3>1, SelectionIsMet DEF Gradable
  <2>4. CASE k = "documents"
    <3>1. /\ ScoreOf(c, o, j, k) = Recall(c.documents, o.documents)
          /\ met(k) <=> c.documents \subseteq o.documents
      BY <2>4 DEF ScoreOf
    <3> HIDE DEF met, scores
    <3> QED BY <2>1, <3>1, RecallIsMet DEF Gradable
  <2>5. CASE k = "products"
    <3>1. /\ ScoreOf(c, o, j, k) = Recall(c.products, o.products)
          /\ met(k) <=> c.products \subseteq o.products
      BY <2>5 DEF ScoreOf
    <3> HIDE DEF met, scores
    <3> QED BY <2>1, <3>1, RecallIsMet DEF Gradable
  <2>6. CASE k = "judge"
    <3>1. /\ ScoreOf(c, o, j, k) = JudgeScore(j)
          /\ met(k) <=> j.kind = "verdict" /\ j.correctness = "correct" /\ j.grounded
      BY <2>6 DEF ScoreOf
    <3> HIDE DEF met, scores
    <3> QED BY <2>1, <3>1, JudgementIsMet
  <2> QED BY <1>1, <2>2, <2>3, <2>4, <2>5, <2>6
<1>3. Met(c, o, j) <=> /\ ~o.error /\ kinds # {}
                       /\ \A k \in kinds : met(k)
  <2>1. CASE o.error
    BY <2>1 DEF Met
  <2>2. CASE ~o.error
    <3>1. /\ "phrases" \in kinds <=> c.phrases # {}
          /\ "tools" \in kinds <=> c.tools # <<>>
          /\ "documents" \in kinds <=> c.documents # {}
          /\ "products" \in kinds <=> c.products # {}
          /\ "judge" \in kinds <=> c.reference /\ j.kind # "none"
      BY <2>2 DEF Applicable, Judged
    <3>2. /\ met("phrases") <=> c.phrases \subseteq o.said
          /\ met("tools") <=> ToSet(c.tools) \subseteq Succeeded(o)
          /\ met("documents") <=> c.documents \subseteq o.documents
          /\ met("products") <=> c.products \subseteq o.products
          /\ met("judge") <=> j.kind = "verdict" /\ j.correctness = "correct" /\ j.grounded
      OBVIOUS
    <3>3. c.tools = <<>> => ToSet(c.tools) \subseteq Succeeded(o)
      BY DEF ToSet
    <3> HIDE DEF met, kinds
    <3>4. kinds # {} <=> \/ c.phrases # {} \/ c.tools # <<>> \/ c.documents # {} \/ c.products # {}
                         \/ c.reference /\ j.kind # "none"
      BY <1>1, <3>1
    <3>5. (\A k \in kinds : met(k)) <=>
              /\ c.phrases \subseteq o.said /\ ToSet(c.tools) \subseteq Succeeded(o)
              /\ c.documents \subseteq o.documents /\ c.products \subseteq o.products
              /\ c.reference /\ j.kind # "none" =>
                   j.kind = "verdict" /\ j.correctness = "correct" /\ j.grounded
      <4>1. (\A k \in kinds : met(k)) <=>
              /\ "phrases" \in kinds => met("phrases")
              /\ "tools" \in kinds => met("tools")
              /\ "documents" \in kinds => met("documents")
              /\ "products" \in kinds => met("products")
              /\ "judge" \in kinds => met("judge")
        BY <1>1
      <4>2. /\ c.phrases = {} => c.phrases \subseteq o.said
            /\ c.documents = {} => c.documents \subseteq o.documents
            /\ c.products = {} => c.products \subseteq o.products
        OBVIOUS
      <4> QED BY <3>1, <3>2, <3>3, <4>1, <4>2
    <3>6. Expects(c)
      BY DEF Gradable
    <3> QED BY <2>2, <3>4, <3>5, <3>6 DEF Met, Expects
  <2> QED BY <2>1, <2>2
<1>4. CasePassed(scores, o) <=> Met(c, o, j)
  <2> HIDE DEF scores, kinds, met
  <2> QED BY <1>1, <1>2, <1>3 DEF CasePassed
<1> QED BY <1>1, <1>2, <1>4 DEF VerdictIsEarned

(* What a result says a turn and its judge cost, when it says, is one price    *)
(* for each usage row the two of them left.                                    *)
THEOREM AnyCostIsBilled ==
    ASSUME NEW c, NEW o, NEW j, NEW turn \in TurnUsages, NEW priced \in BOOLEAN
    PROVE  CostIsBilled(c, o, j, turn, priced)
<1> DEFINE its == JudgeUsage(c, o, j, priced)
           rows == UsageRows(turn, its)
<1>1. /\ Cardinality({}) = 0 /\ IsFiniteSet({})
      /\ Cardinality({"turn"}) = 1 /\ IsFiniteSet({"turn"}) /\ Cardinality({"judge"}) = 1
  BY FS_EmptySet, FS_Singleton
<1>2. Cardinality({"turn", "judge"}) = 2
  <2>1. Cardinality({"turn"} \cup {"judge"}) = 1 + 1
    BY <1>1, FS_AddElement
  <2>2. {"turn", "judge"} = {"turn"} \cup {"judge"}
    OBVIOUS
  <2> QED BY <2>1, <2>2
<1>3. its \in TurnUsages /\ (its = "none" <=> ~Judged(c, o, j) \/ j.kind = "unavailable")
  BY DEF JudgeUsage, TurnUsages
<1>4. /\ its = "priced" => priced
      /\ ~Judged(c, o, j) => its = "none"
  BY DEF JudgeUsage
<1> HIDE DEF its
<1>5. /\ turn = "priced" /\ its = "priced" => rows = {"turn", "judge"}
      /\ turn = "priced" /\ its \in {"none", "zero"} => rows = {"turn"}
      /\ turn \in {"none", "zero"} /\ its = "priced" => rows = {"judge"}
      /\ turn \in {"none", "zero"} /\ its \in {"none", "zero"} => rows = {}
  BY DEF UsageRows
<1> HIDE DEF rows
<1>6. ResultCost(c, o, j, turn, priced) =
        IF Price(turn, TRUE) = Unknown THEN Unknown
        ELSE IF ~Judged(c, o, j) THEN Price(turn, TRUE)
        ELSE IF Price(its, priced) = Unknown THEN Unknown
        ELSE Price(turn, TRUE) + Price(its, priced)
  BY DEF ResultCost, its
<1>7. /\ Price(turn, TRUE) = IF turn = "zero" THEN 0 ELSE IF turn = "priced" THEN 1 ELSE 99
      /\ Price(its, priced) = IF its = "zero" /\ priced THEN 0 ELSE IF its = "priced" THEN 1 ELSE 99
  BY <1>3 DEF Price, Unknown, TurnUsages
<1>8. ResultCost(c, o, j, turn, priced) # Unknown =>
          ResultCost(c, o, j, turn, priced) = Cardinality(rows)
  <2> SUFFICES ASSUME ResultCost(c, o, j, turn, priced) # Unknown
               PROVE  ResultCost(c, o, j, turn, priced) = Cardinality(rows)
    OBVIOUS
  <2>1. turn \in {"zero", "priced"}
    BY <1>6, <1>7 DEF Unknown
  <2>2. CASE ~Judged(c, o, j)
    BY <1>1, <1>4, <1>5, <1>6, <1>7, <2>1, <2>2 DEF Unknown
  <2>3. CASE Judged(c, o, j)
    <3>1. its \in {"zero", "priced"}
      BY <1>6, <1>7, <2>3 DEF Unknown
    <3>2. ResultCost(c, o, j, turn, priced) = Price(turn, TRUE) + Price(its, priced)
      BY <1>6, <2>3 DEF Unknown
    <3>3. /\ Price(turn, TRUE) = IF turn = "zero" THEN 0 ELSE 1
          /\ Price(its, priced) = IF its = "zero" THEN 0 ELSE 1
      BY <1>6, <1>7, <2>1, <2>3, <3>1 DEF Unknown
    <3>4. Cardinality(rows) = (IF turn = "zero" THEN 0 ELSE 1) + (IF its = "zero" THEN 0 ELSE 1)
      BY <1>1, <1>2, <1>5, <2>1, <3>1
    <3> QED BY <3>2, <3>3, <3>4
  <2> QED BY <2>2, <2>3
<1> QED BY <1>8 DEF CostIsBilled, rows, its

-----------------------------------------------------------------------------
(* Who may call which tool. *)

(* Whatever rows the platform and an organization have and however an agent is *)
(* linked to them, the screen, the toggle, chat and MCP agree on each tool.    *)
THEOREM GrantsAreAlwaysSound ==
    ASSUME NEW tools \in ToolTables
    PROVE  GrantsAreSound(tools)
<1>1. ASSUME NEW n \in ToolName
      PROVE  /\ tools[n] \in [Owner -> Row]
             /\ tools[n]["org"] \in Row /\ tools[n]["global"] \in Row
  BY DEF ToolTables, Owner
<1>2. ASSUME NEW n \in Listed(tools)
      PROVE  ShownOn(tools, n) => Callable(tools, n)
  BY <1>1 DEF Listed, ShownOn, ShownRow, Callable, Granted, Linked, Defined, First, Owner, Row
<1>3. ASSUME NEW n \in Listed(tools), NEW on \in BOOLEAN
      PROVE  Callable(Toggled(tools, n, on), n) <=> on
  BY <1>1 DEF Listed, Toggled, ShownRow, Callable, Granted, Linked, Defined, First, Owner, Row,
              ToolTables
<1>4. ASSUME NEW n \in ToolName, Callable(tools, n)
      PROVE  /\ \E o \in Owner : tools[n][o] = [def |-> "enabled", link |-> "on"]
             /\ tools[n]["org"] # [def |-> "enabled", link |-> "off"]
  BY <1>1, <1>4 DEF Callable, Granted, Linked, Defined, First, Owner, Row
<1>5. ASSUME NEW n \in ToolName, MCPCall(tools, n) = "run"
      PROVE  Callable(tools, n) /\ n # "create_lead"
  BY <1>5 DEF MCPCall, Exposed, MCPExposed, Callable
<1> QED BY <1>2, <1>3, <1>4, <1>5 DEF GrantsAreSound

-----------------------------------------------------------------------------
(* What a catalogue file comes to. *)

Filled(file) == {i \in DOMAIN file.lines : file.lines[i] # "blank"}

\* The rows of a sequence, told apart by their first field.
Told(rows, N) ==
    /\ N \in Nat /\ DOMAIN rows = 1 .. N /\ rows = [n \in 1 .. N |-> rows[n]]
    /\ \A m, n \in 1 .. N : rows[m] = rows[n] => m = n

LEMMA LenOfFunction ==
    ASSUME NEW N \in Nat, NEW f, DOMAIN f = 1 .. N, f = [n \in 1 .. N |-> f[n]]
    PROVE  Len(f) = N
<1> DEFINE V == {f[n] : n \in 1 .. N}
<1>1. f \in [1 .. N -> V]
  OBVIOUS
<1> QED BY <1>1

LEMMA NumberedTellsApart ==
    ASSUME NEW file, NEW V, file.lines \in Seq(V)
    PROVE  Told(Numbered(file), Cardinality(Filled(file)))
<1> DEFINE S == Filled(file)
           N == Cardinality(S)
           at == Increasing(S)
           counted(n) == IF file.format = "csv" THEN n ELSE at[n]
           all == Numbered(file)
<1>1. S \in SUBSET Nat /\ IsFiniteSet(S)
  <2>1. Len(file.lines) \in Nat /\ DOMAIN file.lines = 1 .. Len(file.lines)
    OBVIOUS
  <2>2. S \in SUBSET (1 .. Len(file.lines))
    BY <2>1 DEF Filled
  <2>3. IsFiniteSet(1 .. Len(file.lines))
    BY <2>1, IntervalCounts
  <2>4. IsFiniteSet(S)
    BY <2>2, <2>3, FS_Subset
  <2> QED BY <2>2, <2>4
<1>2. /\ N \in Nat /\ at \in [1 .. N -> S]
      /\ \A m, n \in 1 .. N : at[m] = at[n] => m = n
  <2> HIDE DEF S
  <2> QED BY <1>1, IncreasingIsInOrder
<1>3. all = [n \in DOMAIN at |-> <<RowNumber(file.format, counted(n)), file.lines[at[n]]>>]
  BY DEF Numbered, Filled
<1> HIDE DEF all, at, N, S
<1>4. DOMAIN at = 1 .. N
  BY <1>2
<1>5. DOMAIN all = 1 .. N
  BY <1>3, <1>4
<1>6. \A n \in 1 .. N : all[n] = <<RowNumber(file.format, counted(n)), file.lines[at[n]]>>
  BY <1>3, <1>4
<1>7. ASSUME NEW m \in 1 .. N, NEW n \in 1 .. N, all[m] = all[n] PROVE m = n
  <2>1. RowNumber(file.format, counted(m)) = RowNumber(file.format, counted(n))
    BY <1>6, <1>7
  <2>2. counted(m) \in Nat /\ counted(n) \in Nat
    <3>1. at[m] \in S /\ at[n] \in S /\ m \in Nat /\ n \in Nat
      BY <1>2
    <3>2. at[m] \in Nat /\ at[n] \in Nat
      BY <1>1, <3>1
    <3> QED BY <3>1, <3>2
  <2> HIDE DEF counted
  <2>3. counted(m) = counted(n)
    BY <2>1, <2>2 DEF RowNumber
  <2> QED BY <1>2, <2>3 DEF counted
<1>8. all = [n \in 1 .. N |-> all[n]]
  BY <1>3, <1>4
<1> QED BY <1>2, <1>5, <1>7, <1>8 DEF Told, all, N, S

LEMMA KeptIsOrdered ==
    ASSUME NEW rows, NEW N, Told(rows, N), NEW P \in SUBSET (1 .. N)
    PROVE  \E p : /\ p \in [1 .. Cardinality(P) -> P] /\ Told(KeptAt(rows, P), Cardinality(P))
                  /\ \A x \in P : \E m \in 1 .. Cardinality(P) : p[m] = x
                  /\ \A k, m \in 1 .. Cardinality(P) : k < m => p[k] < p[m]
                  /\ \A m \in 1 .. Cardinality(P) : KeptAt(rows, P)[m] = rows[p[m]]
<1> DEFINE p == Increasing(P)
           M == Cardinality(P)
           kept == KeptAt(rows, P)
<1>1. N \in Nat /\ \A m, n \in 1 .. N : rows[m] = rows[n] => m = n
  BY DEF Told
<1>2. P \in SUBSET Nat /\ IsFiniteSet(P)
  <2>1. IsFiniteSet(1 .. N) /\ 1 .. N \subseteq Nat
    BY <1>1, IntervalCounts
  <2> QED BY <2>1, FS_Subset
<1>3. /\ M \in Nat /\ p \in [1 .. M -> P]
      /\ \A x \in P : \E n \in 1 .. M : p[n] = x
      /\ \A m, n \in 1 .. M : p[m] = p[n] => m = n
      /\ \A m, n \in 1 .. M : m < n => p[m] < p[n]
  BY <1>2, IncreasingIsInOrder
<1>4. kept = [m \in 1 .. M |-> rows[p[m]]]
  BY <1>3 DEF KeptAt
<1> HIDE DEF p, M, kept
<1>5. \A m \in 1 .. M : kept[m] = rows[p[m]] /\ p[m] \in 1 .. N
  BY <1>3, <1>4
<1>6. Told(kept, M)
  BY <1>1, <1>3, <1>4, <1>5 DEF Told
<1> QED BY <1>3, <1>5, <1>6 DEF p, M, kept

Latest(rows) == {i \in DOMAIN rows : ~Repeated(rows, i)}

LEMMA DedupeKeepsTheLatest ==
    ASSUME NEW rows, NEW N, Told(rows, N)
    PROVE  \E q : /\ q \in [1 .. Cardinality(Latest(rows)) -> Latest(rows)]
                  /\ Cardinality(Latest(rows)) \in Nat
                  /\ \A i \in Latest(rows) : \E n \in 1 .. Cardinality(Latest(rows)) : q[n] = i
                  /\ \A m, n \in 1 .. Cardinality(Latest(rows)) : q[m] = q[n] => m = n
                  /\ Dedupe(rows).rows = [n \in 1 .. Cardinality(Latest(rows)) |-> rows[q[n]]]
<1> DEFINE K == Latest(rows)
           M == Cardinality(K)
           same(i) == {k \in DOMAIN rows : rows[k][2] = rows[i][2]}
           first(i) == CHOOSE k \in DOMAIN rows :
                        /\ rows[k][2] = rows[i][2]
                        /\ \A m \in DOMAIN rows : rows[m][2] = rows[i][2] => k <= m
           below == [i \in K |-> {j \in K : first(j) < first(i)}]
           q == [n \in 1 .. M |->
                   CHOOSE x \in K : Cardinality({y \in K : first(y) < first(x)}) = n - 1]
<1>1. N \in Nat /\ DOMAIN rows = 1 .. N
  BY DEF Told
<1>2. ASSUME NEW i \in 1 .. N
      PROVE  first(i) \in 1 .. N /\ rows[first(i)][2] = rows[i][2]
  <2>1. same(i) \in SUBSET Nat /\ same(i) # {}
    BY <1>1
  <2>2. PICK k \in same(i) : \A m \in same(i) : k <= m
    <3> HIDE DEF same
    <3> QED BY <2>1, LeastOf
  <2>3. \E j \in DOMAIN rows : /\ rows[j][2] = rows[i][2]
                               /\ \A m \in DOMAIN rows : rows[m][2] = rows[i][2] => j <= m
    BY <2>2
  <2> QED BY <1>1, <2>3
<1> HIDE DEF first
<1>3. K \in SUBSET (1 .. N) /\ IsFiniteSet(K)
  BY <1>1, IntervalCounts, FS_Subset DEF Latest
<1>4. ASSUME NEW i \in K, NEW j \in K, first(i) = first(j) PROVE i = j
  <2>1. i \in 1 .. N /\ j \in 1 .. N
    BY <1>3
  <2>2. rows[i][2] = rows[j][2]
    BY <1>2, <1>4, <2>1
  <2>3. ~(i < j) /\ ~(j < i)
    BY <1>1, <2>1, <2>2 DEF Latest, Repeated
  <2> QED BY <2>1, <2>3
<1>5. \A i \in K : first(i) \in Nat
  BY <1>1, <1>2, <1>3
<1>6. Chained(K, below)
  <2> HIDE DEF K
  <2>1. below \in [K -> SUBSET K]
    OBVIOUS
  <2>2. ASSUME NEW x \in K
        PROVE  x \notin below[x] /\ \A y \in below[x] : below[y] \subseteq below[x]
    <3> SUFFICES ASSUME NEW y \in below[x], NEW z \in below[y] PROVE z \in below[x]
      BY <1>5
    <3>1. y \in K /\ z \in K /\ first(y) < first(x) /\ first(z) < first(y)
      OBVIOUS
    <3>2. first(z) < first(x)
      BY <1>5, <3>1
    <3> QED BY <3>1, <3>2
  <2>3. ASSUME NEW x \in K, NEW y \in K PROVE x = y \/ x \in below[y] \/ y \in below[x]
    <3>1. first(x) = first(y) \/ first(x) < first(y) \/ first(y) < first(x)
      BY <1>5
    <3> QED BY <1>4, <3>1
  <2> HIDE DEF below
  <2> QED BY <1>3, <2>1, <2>2, <2>3 DEF Chained
<1>7. \A x \in K : below[x] = {y \in K : first(y) < first(x)}
  OBVIOUS
<1> HIDE DEF K, below
<1>8. \A n \in 1 .. M : \E x \in K : Cardinality({y \in K : first(y) < first(x)}) = n - 1
  <2>1. \A n \in 1 .. Cardinality(K) : \E x \in K : Cardinality(below[x]) = n - 1
    BY <1>6, EveryRankIsTaken
  <2> QED BY <1>7, <2>1
<1>9. ASSUME NEW n \in 1 .. M
      PROVE  q[n] \in K /\ Cardinality({y \in K : first(y) < first(q[n])}) = n - 1
  <2>1. q[n] = CHOOSE x \in K : Cardinality({y \in K : first(y) < first(x)}) = n - 1
    OBVIOUS
  <2> HIDE DEF q
  <2> QED BY <1>8, <2>1
<1>10. Dedupe(rows).rows = [n \in DOMAIN q |-> rows[q[n]]]
  BY DEF Dedupe, Ranked, K, Latest, first
<1>11. DOMAIN q = 1 .. M /\ q \in [1 .. M -> K]
  BY <1>9
<1> HIDE DEF q
<1>12. Lists(q, K, below)
  <2>1. \A n \in 1 .. Cardinality(K) : Cardinality(below[q[n]]) = n - 1
    BY <1>7, <1>9
  <2> QED BY <1>11, <2>1 DEF Lists
<1>13. /\ Cardinality(K) \in Nat
       /\ \A x \in K : \E n \in 1 .. Cardinality(K) : q[n] = x
       /\ \A m, n \in 1 .. Cardinality(K) : q[m] = q[n] => m = n
  BY <1>6, <1>12, ListingIsInOrder
<1>14. Dedupe(rows).rows = [n \in 1 .. M |-> rows[q[n]]]
  BY <1>10, <1>11
<1> HIDE DEF M
<1> QED BY <1>11, <1>13, <1>14 DEF K, M

(* Whatever lines a catalogue file has, and in whatever format, every filled    *)
(* one is imported or reported, once, and of an external_id the last.           *)
THEOREM AnyFileIsAccountedFor ==
    ASSUME NEW file, NEW V, file.lines \in Seq(V)
    PROVE  EveryLineIsAccountedFor(file)
<1> DEFINE all == Numbered(file)
           N == Cardinality(Filled(file))
           A == {n \in DOMAIN all : all[n][2] \in Sku}
           B == {n \in DOMAIN all : all[n][2] \notin Sku}
           rows == Parse(file).rows
           errors == Parse(file).errors
           K == Latest(rows)
           unique == Dedupe(rows)
           reported == unique.errors \union ToSet(errors)
<1>1. Told(all, N)
  BY NumberedTellsApart
<1>2. Parse(file).total = Len(all) /\ rows = KeptAt(all, A) /\ errors = KeptAt(all, B)
  BY DEF Parse
<1>3. unique.errors = {rows[i] : i \in {j \in DOMAIN rows : Repeated(rows, j)}}
  BY DEF Dedupe
<1> HIDE DEF all, N
<1>4. /\ N \in Nat /\ DOMAIN all = 1 .. N /\ Len(all) = N
      /\ \A m, n \in 1 .. N : all[m] = all[n] => m = n
  BY <1>1, LenOfFunction DEF Told
<1>5. A \in SUBSET (1 .. N) /\ B = (1 .. N) \ A
  BY <1>4
<1> HIDE DEF A, B, rows, errors
<1>6. PICK p : /\ p \in [1 .. Cardinality(A) -> A] /\ Told(rows, Cardinality(A))
               /\ \A x \in A : \E m \in 1 .. Cardinality(A) : p[m] = x
               /\ \A k, m \in 1 .. Cardinality(A) : k < m => p[k] < p[m]
               /\ \A m \in 1 .. Cardinality(A) : rows[m] = all[p[m]]
  <2>1. \E p : /\ p \in [1 .. Cardinality(A) -> A] /\ Told(KeptAt(all, A), Cardinality(A))
               /\ \A x \in A : \E m \in 1 .. Cardinality(A) : p[m] = x
               /\ \A k, m \in 1 .. Cardinality(A) : k < m => p[k] < p[m]
               /\ \A m \in 1 .. Cardinality(A) : KeptAt(all, A)[m] = all[p[m]]
    BY <1>1, <1>5, KeptIsOrdered
  <2> QED BY <1>2, <2>1
<1>7. PICK r : /\ r \in [1 .. Cardinality(B) -> B] /\ Told(errors, Cardinality(B))
               /\ \A x \in B : \E m \in 1 .. Cardinality(B) : r[m] = x
               /\ \A m \in 1 .. Cardinality(B) : errors[m] = all[r[m]]
  <2>1. B \in SUBSET (1 .. N)
    BY <1>5
  <2>2. \E r : /\ r \in [1 .. Cardinality(B) -> B] /\ Told(KeptAt(all, B), Cardinality(B))
               /\ \A x \in B : \E m \in 1 .. Cardinality(B) : r[m] = x
               /\ \A k, m \in 1 .. Cardinality(B) : k < m => r[k] < r[m]
               /\ \A m \in 1 .. Cardinality(B) : KeptAt(all, B)[m] = all[r[m]]
    BY <1>1, <2>1, KeptIsOrdered
  <2> QED BY <1>2, <2>2
<1> DEFINE M == Cardinality(A)
<1>8. M \in Nat /\ DOMAIN rows = 1 .. M
  BY <1>6 DEF Told
<1>9. DOMAIN errors = 1 .. Cardinality(B)
  BY <1>7 DEF Told
<1>10. PICK q : /\ q \in [1 .. Cardinality(K) -> K] /\ Cardinality(K) \in Nat
                /\ \A i \in K : \E n \in 1 .. Cardinality(K) : q[n] = i
                /\ \A m, n \in 1 .. Cardinality(K) : q[m] = q[n] => m = n
                /\ unique.rows = [n \in 1 .. Cardinality(K) |-> rows[q[n]]]
  <2> DEFINE c == Cardinality(A)
  <2>1. Told(rows, c)
    BY <1>6
  <2> HIDE DEF c
  <2> QED BY ZenonT(30), <2>1, DedupeKeepsTheLatest
<1>11. K \in SUBSET (1 .. M) /\ \A i \in 1 .. M : i \in K <=> ~Repeated(rows, i)
  BY <1>8 DEF Latest
<1> HIDE DEF M, K, unique
<1>12. Len(unique.rows) = Cardinality(K) /\ DOMAIN unique.rows = 1 .. Cardinality(K)
  <2> DEFINE f == unique.rows
  <2>1. DOMAIN f = 1 .. Cardinality(K) /\ f = [n \in 1 .. Cardinality(K) |-> f[n]]
    BY <1>10
  <2> HIDE DEF f
  <2>2. Len(f) = Cardinality(K)
    BY <1>10, <2>1, LenOfFunction
  <2> QED BY <2>1, <2>2 DEF f
\* The places of all that end up imported.
<1> DEFINE I == {p[i] : i \in K}
<1>13. \A i \in 1 .. M : p[i] \in A /\ p[i] \in 1 .. N /\ rows[i] = all[p[i]]
  BY <1>5, <1>6 DEF M
<1>14. \A i, j \in 1 .. M : p[i] = p[j] => i = j
  <2> SUFFICES ASSUME NEW i \in 1 .. M, NEW j \in 1 .. M, p[i] = p[j] PROVE i = j
    OBVIOUS
  <2>1. i \in Nat /\ j \in Nat /\ p[i] \in Nat
    BY <1>4, <1>8, <1>13
  <2>2. ~(i < j) /\ ~(j < i)
    BY <1>6, <2>1 DEF M
  <2> QED BY <2>1, <2>2
<1>15. I \in SUBSET (1 .. N)
  BY <1>11, <1>13
<1>16. IsFiniteSet(I) /\ Cardinality(I) = Cardinality(K)
  <2> DEFINE g == [i \in K |-> p[i]]
  <2>1. g \in Bijection(K, I)
    <3>1. g \in [K -> I] /\ \A x \in I : \E i \in K : g[i] = x
      OBVIOUS
    <3>2. \A i, j \in K : g[i] = g[j] => i = j
      BY <1>11, <1>14
    <3> HIDE DEF g, I
    <3> QED BY <3>1, <3>2 DEF Bijection, Injection, Surjection, IsInjective
  <2>2. IsFiniteSet(K)
    BY <1>8, <1>11, IntervalCounts, FS_Subset
  <2>3. ExistsBijection(K, I)
    BY <2>1 DEF ExistsBijection
  <2> QED BY <2>2, <2>3, FS_Bijection
<1>17. ToSet(unique.rows) = {all[n] : n \in I}
  <2>1. ToSet(unique.rows) = {rows[q[n]] : n \in 1 .. Cardinality(K)}
    BY <1>10, <1>12 DEF ToSet
  <2>2. \A n \in 1 .. Cardinality(K) : q[n] \in K
    BY <1>10
  <2>3. \A i \in K : rows[i] = all[p[i]]
    BY <1>11, <1>13
  <2>4. ASSUME NEW n \in 1 .. Cardinality(K) PROVE rows[q[n]] \in {all[m] : m \in I}
    BY <2>2, <2>3
  <2>5. ASSUME NEW i \in K PROVE \E n \in 1 .. Cardinality(K) : rows[q[n]] = all[p[i]]
    BY <1>10, <2>3
  <2> QED BY <2>1, <2>4, <2>5
<1>18. reported = {all[n] : n \in (1 .. N) \ I}
  <2>1. ToSet(errors) = {all[n] : n \in B}
    <3>1. ToSet(errors) = {all[r[m]] : m \in 1 .. Cardinality(B)}
      BY <1>7, <1>9 DEF ToSet
    <3>2. \A m \in 1 .. Cardinality(B) : r[m] \in B
      BY <1>7
    <3> QED BY <1>7, <3>1, <3>2
  <2>2. unique.errors = {all[p[i]] : i \in (1 .. M) \ K}
    <3>1. unique.errors = {rows[i] : i \in (1 .. M) \ K}
      BY <1>3, <1>8, <1>11
    <3> QED BY <1>13, <3>1
  <2>3. ASSUME NEW n \in (1 .. N) \ I PROVE n \in B \/ \E i \in (1 .. M) \ K : n = p[i]
    <3>1. CASE n \in A
      <4>1. PICK i \in 1 .. M : p[i] = n
        BY <1>6, <3>1 DEF M
      <4> QED BY <4>1
    <3> QED BY <1>5, <3>1
  <2>4. ASSUME NEW n \in B PROVE n \in (1 .. N) \ I
    BY <1>5, <1>11, <1>13
  <2>5. ASSUME NEW i \in (1 .. M) \ K PROVE p[i] \in (1 .. N) \ I
    BY <1>11, <1>13, <1>14
  <2> HIDE DEF I
  <2>6. ASSUME NEW x \in reported PROVE \E n \in (1 .. N) \ I : x = all[n]
    <3>1. CASE x \in ToSet(errors)
      BY <2>1, <2>4, <3>1
    <3>2. CASE x \in unique.errors
      BY <2>2, <2>5, <3>2
    <3> QED BY <3>1, <3>2
  <2>7. ASSUME NEW n \in (1 .. N) \ I PROVE all[n] \in reported
    BY <2>1, <2>2, <2>3
  <2> HIDE DEF reported
  <2> QED BY <2>6, <2>7
<1> HIDE DEF I, reported
<1>19. Len(unique.rows) + Cardinality(reported) = Len(all)
  <2> DEFINE J == (1 .. N) \ I
             g == [n \in J |-> all[n]]
  <2>1. IsFiniteSet(J) /\ Cardinality(J) = N - Cardinality(I)
    <3>1. IsFiniteSet(1 .. N) /\ Cardinality(1 .. N) = N
      BY <1>4, IntervalCounts
    <3>2. /\ IsFiniteSet((1 .. N) \ I)
          /\ Cardinality((1 .. N) \ I) = Cardinality(1 .. N) - Cardinality((1 .. N) \cap I)
      BY <3>1, FS_Difference
    <3>3. (1 .. N) \cap I = I
      BY <1>15
    <3> QED BY <3>1, <3>2, <3>3
  <2>2. g \in Bijection(J, reported)
    <3>1. g \in [J -> reported] /\ \A x \in reported : \E n \in J : g[n] = x
      BY <1>18
    <3>2. \A m, n \in J : g[m] = g[n] => m = n
      BY <1>4
    <3> HIDE DEF g, J
    <3> QED BY <3>1, <3>2 DEF Bijection, Injection, Surjection, IsInjective
  <2>3. ExistsBijection(J, reported)
    BY <2>2 DEF ExistsBijection
  <2>4. Cardinality(reported) = Cardinality(J)
    BY <2>1, <2>3, FS_Bijection
  <2> QED BY <1>4, <1>10, <1>12, <1>16, <2>1, <2>4
<1>20. ToSet(unique.rows) \intersect reported = {}
  <2> SUFFICES ASSUME NEW m \in I, NEW n \in (1 .. N) \ I, all[m] = all[n] PROVE FALSE
    BY <1>17, <1>18
  <2> QED BY <1>4, <1>15
<1>21. ASSUME NEW s \in Sku, {n \in DOMAIN all : all[n][2] = s} # {}
       PROVE  LET mine == {n \in DOMAIN all : all[n][2] = s} IN
              all[CHOOSE n \in mine : \A m \in mine : m <= n] \in ToSet(unique.rows)
  <2> DEFINE mine == {n \in DOMAIN all : all[n][2] = s}
             last == CHOOSE n \in mine : \A m \in mine : m <= n
  <2>1. mine \in SUBSET (1 .. N) /\ mine # {}
    BY <1>4, <1>21
  <2>2. \E n \in mine : \A m \in mine : m <= n
    <3> HIDE DEF mine
    <3>1. 1 \in Nat
      OBVIOUS
    <3> QED BY <1>4, <2>1, <3>1, GreatestOf
  <2>3. last \in mine /\ \A m \in mine : m <= last
    <3> HIDE DEF mine
    <3> QED BY <2>2
  <2> HIDE DEF last
  <2>4. last \in A
    BY <1>4, <2>3 DEF A
  <2>5. PICK i \in 1 .. M : p[i] = last
    BY <1>6, <2>4 DEF M
  <2>6. ~Repeated(rows, i)
    <3> SUFFICES ASSUME NEW j \in 1 .. M, j > i, rows[j][2] = rows[i][2] PROVE FALSE
      BY <1>8 DEF Repeated
    <3>1. all[p[j]][2] = s /\ p[j] \in 1 .. N
      BY <1>13, <2>3, <2>5
    <3>2. p[j] <= last
      BY <1>4, <2>3, <3>1
    <3>3. last < p[j]
      <4>1. i < j
        BY <1>8
      <4> QED BY <1>6, <2>5, <4>1 DEF M
    <3>4. last \in Nat /\ p[j] \in Nat
      BY <2>1, <2>3, <3>1, <1>4
    <3> QED BY <3>2, <3>3, <3>4
  <2>7. last \in I
    BY <1>11, <2>5, <2>6 DEF I
  <2> QED BY <1>17, <2>7 DEF last
<1>22. ASSUME NEW m \in DOMAIN unique.rows, NEW n \in DOMAIN unique.rows,
              unique.rows[m][2] = unique.rows[n][2]
       PROVE  m = n
  <2>1. m \in 1 .. Cardinality(K) /\ n \in 1 .. Cardinality(K)
    BY <1>12
  <2>2. unique.rows[m] = rows[q[m]] /\ unique.rows[n] = rows[q[n]]
    BY <1>10, <2>1
  <2>3. q[m] \in K /\ q[n] \in K
    BY <1>10, <2>1
  <2>4. q[m] \in 1 .. M /\ q[n] \in 1 .. M /\ ~Repeated(rows, q[m]) /\ ~Repeated(rows, q[n])
    BY <1>11, <2>3
  <2>5. ~(q[m] < q[n]) /\ ~(q[n] < q[m])
    BY <1>8, <1>22, <2>2, <2>4 DEF Repeated
  <2>6. q[m] = q[n]
    BY <1>8, <2>4, <2>5
  <2> QED BY <1>10, <2>1, <2>6
<1>23. Parse(file).total = Cardinality({i \in DOMAIN file.lines : file.lines[i] # "blank"})
  BY <1>2, <1>4 DEF N, Filled
<1>24. Len(unique.rows) + Cardinality(reported) = Parse(file).total
  BY <1>2, <1>19
<1> QED BY <1>20, <1>21, <1>22, <1>23, <1>24
        DEF EveryLineIsAccountedFor, all, unique, rows, errors, reported

-----------------------------------------------------------------------------
(* The turn an adapter has put together, event by event. *)

After(adapter, t, e) == IF adapter = "anthropic" THEN OnBlockEvent(t, e) ELSE OnDelta(t, e)

\* f holds the turn after each of the first k events.
Runs(adapter, wire, f, k) ==
    f = [n \in 0 .. k |-> IF n = 0 THEN EmptyTurn ELSE After(adapter, f[n - 1], wire[n])]

LEMMA TurnsRun ==
    ASSUME NEW adapter, NEW wire, Len(wire) \in Nat
    PROVE  \E f : Runs(adapter, wire, f, Len(wire))
<1> DEFINE N == Len(wire)
           Bad == {k \in 0 .. N : ~\E f : Runs(adapter, wire, f, k)}
<1>1. SUFFICES ASSUME Bad # {} PROVE FALSE
  OBVIOUS
<1>2. PICK k \in Bad : \A y \in Bad : k <= y
  <2>1. Bad \in SUBSET Nat
    OBVIOUS
  <2> HIDE DEF Bad
  <2> QED BY <1>1, <2>1, LeastOf
<1>3. CASE k = 0
  <2> DEFINE f == [n \in 0 .. 0 |-> EmptyTurn]
  <2>1. Runs(adapter, wire, f, 0)
    BY DEF Runs
  <2> QED BY <1>2, <1>3, <2>1
<1>4. CASE k # 0
  <2>1. k \in Nat /\ k - 1 \in 0 .. N /\ k - 1 \notin Bad
    <3>1. k \in Nat /\ k - 1 \in 0 .. N /\ ~(k <= k - 1)
      BY <1>2, <1>4
    <3> HIDE DEF Bad
    <3> QED BY <1>2, <3>1
  <2>2. PICK f : Runs(adapter, wire, f, k - 1)
    BY <2>1
  <2> DEFINE g == [n \in 0 .. k |-> IF n = k THEN After(adapter, f[k - 1], wire[k]) ELSE f[n]]
  <2>3. ASSUME NEW n \in 0 .. k
        PROVE  g[n] = IF n = 0 THEN EmptyTurn ELSE After(adapter, g[n - 1], wire[n])
    <3>1. n # k => n \in 0 .. k - 1 /\ g[n] = f[n]
      BY <2>1
    <3>2. n # 0 => g[n - 1] = f[n - 1]
      BY <2>1
    <3>3. n \in 0 .. k - 1 => f[n] = IF n = 0 THEN EmptyTurn ELSE After(adapter, f[n - 1], wire[n])
      BY <2>2 DEF Runs
    <3>4. g[k] = After(adapter, f[k - 1], wire[k])
      BY <2>1
    <3> HIDE DEF g
    <3> QED BY <1>4, <3>1, <3>2, <3>3, <3>4
  <2>4. Runs(adapter, wire, g, k)
    <3>1. g = [n \in 0 .. k |-> g[n]]
      OBVIOUS
    <3> HIDE DEF g
    <3> QED BY <2>3, <3>1 DEF Runs
  <2> QED BY <1>2, <2>4
<1> QED BY <1>3, <1>4

LEMMA AnthropicRuns ==
    ASSUME NEW wire, Len(wire) \in Nat
    PROVE  \E f : /\ Runs("anthropic", wire, f, Len(wire))
                  /\ \A reason : AnthropicTurn(wire, reason) = Ending(f[Len(wire)], reason)
<1> DEFINE Eq(f) == f = [n \in 0 .. Len(wire) |->
                           IF n = 0 THEN EmptyTurn ELSE OnBlockEvent(f[n - 1], wire[n])]
           after == CHOOSE f : Eq(f)
<1>1. \A f : Runs("anthropic", wire, f, Len(wire)) <=> Eq(f)
  BY DEF Runs, After
<1>2. \E f : Eq(f)
  BY <1>1, TurnsRun
<1>3. \A reason : AnthropicTurn(wire, reason) = Ending(after[Len(wire)], reason)
  BY DEF AnthropicTurn
<1>4. Eq(after)
  <2> HIDE DEF Eq
  <2> QED BY <1>2
<1>5. Runs("anthropic", wire, after, Len(wire))
  <2> HIDE DEF after, Eq
  <2> QED BY <1>1, <1>4
<1> QED BY <1>3, <1>5

Ended(t, reason) == IF t.end = "raised" THEN t ELSE Ending(t, reason)

LEMMA OpenAIRuns ==
    ASSUME NEW wire, Len(wire) \in Nat
    PROVE  \E f : /\ Runs("openai", wire, f, Len(wire))
                  /\ \A reason : OpenAITurn(wire, reason) =
                                    Ended(Finalized(f[Len(wire)]), reason)
<1> DEFINE Eq(f) == f = [n \in 0 .. Len(wire) |->
                           IF n = 0 THEN EmptyTurn ELSE OnDelta(f[n - 1], wire[n])]
           after == CHOOSE f : Eq(f)
<1>1. \A f : Runs("openai", wire, f, Len(wire)) <=> Eq(f)
  BY DEF Runs, After
<1>2. \E f : Eq(f)
  BY <1>1, TurnsRun
<1>3. \A reason : OpenAITurn(wire, reason) = Ended(Finalized(after[Len(wire)]), reason)
  BY DEF OpenAITurn, Ended
<1>4. Eq(after)
  <2> HIDE DEF Eq
  <2> QED BY <1>2
<1>5. Runs("openai", wire, after, Len(wire))
  <2> HIDE DEF after, Eq
  <2> QED BY <1>1, <1>4
<1> QED BY <1>3, <1>5

LEMMA PartsGrow ==
    ASSUME NEW wire, NEW S \in SUBSET Nat, IsFiniteSet(S), NEW x \in Nat, \A y \in S : y < x
    PROVE  PartsAt(wire, S \cup {x}) = Append(PartsAt(wire, S), wire[x].part)
<1> DEFINE s == [n \in S |-> wire[n].part]
           r == [n \in S \cup {x} |-> wire[n].part]
<1>1. Continues(r, s, S, x) /\ r[x] = wire[x].part
  BY DEF Continues
<1>2. PartsAt(wire, S) = KeptAt(s, S) /\ PartsAt(wire, S \cup {x}) = KeptAt(r, S \cup {x})
  BY DEF PartsAt
<1> HIDE DEF s, r
<1>3. KeptAt(r, S \cup {x}) = Append(KeptAt(s, S), r[x])
  BY SMTT(30), <1>1, KeptGrows
<1> QED BY <1>1, <1>2, <1>3

LEMMA NoParts == ASSUME NEW wire, NEW S, S = {} PROVE PartsAt(wire, S) = <<>>
<1> DEFINE s == [n \in S |-> wire[n].part]
<1>1. S \in SUBSET Nat /\ IsFiniteSet(S)
  BY FS_EmptySet
<1>2. PartsAt(wire, S) = KeptAt(s, S)
  BY DEF PartsAt
<1> HIDE DEF s
<1> QED BY <1>1, <1>2, KeptIsShort

\* Block i has been open since m, after k events.
OpenSince(wire, k, m, i) ==
    /\ m \in 1 .. k /\ SameBlock(wire[m], "start", i)
    /\ \A j \in m + 1 .. k : ~SameBlock(wire[j], "start", i) /\ ~SameBlock(wire[j], "stop", i)

Fragments(wire, m, k, i) == PartsAt(wire, {j \in m + 1 .. k : SameBlock(wire[j], "json", i)})

LEMMA FragmentsGrow ==
    ASSUME NEW wire, NEW m \in Nat, NEW k \in Nat, m <= k, NEW i
    PROVE  /\ SameBlock(wire[k + 1], "json", i) =>
                Fragments(wire, m, k + 1, i) = Append(Fragments(wire, m, k, i), wire[k + 1].part)
           /\ ~SameBlock(wire[k + 1], "json", i) =>
                Fragments(wire, m, k + 1, i) = Fragments(wire, m, k, i)
           /\ Fragments(wire, m, m, i) = <<>>
<1> DEFINE S == {j \in m + 1 .. k : SameBlock(wire[j], "json", i)}
           T == {j \in m + 1 .. k + 1 : SameBlock(wire[j], "json", i)}
<1>1. m + 1 .. k + 1 = (m + 1 .. k) \cup {k + 1} /\ m + 1 .. m = {}
  OBVIOUS
<1>2. SameBlock(wire[k + 1], "json", i) => T = S \cup {k + 1}
  BY <1>1
<1>3. ~SameBlock(wire[k + 1], "json", i) => T = S
  BY <1>1
<1>4. S \in SUBSET Nat /\ IsFiniteSet(S) /\ k + 1 \in Nat /\ \A y \in S : y < k + 1
  <2>1. IsFiniteSet(1 .. k) /\ S \subseteq 1 .. k
    BY IntervalCounts
  <2>2. IsFiniteSet(S)
    BY <2>1, FS_Subset
  <2> QED BY <2>1, <2>2
<1>5. /\ Fragments(wire, m, k, i) = PartsAt(wire, S)
      /\ Fragments(wire, m, k + 1, i) = PartsAt(wire, T)
      /\ Fragments(wire, m, m, i) = PartsAt(wire, {})
  BY <1>1 DEF Fragments
<1> HIDE DEF S, T
<1>6. PartsAt(wire, S \cup {k + 1}) = Append(PartsAt(wire, S), wire[k + 1].part)
  BY <1>4, PartsGrow
<1>7. PartsAt(wire, {}) = <<>>
  BY NoParts
<1> QED BY <1>2, <1>3, <1>5, <1>6, <1>7

LEMMA OneOpening ==
    ASSUME NEW wire, NEW k \in Nat, NEW i, NEW m, NEW n,
           OpenSince(wire, k, m, i), OpenSince(wire, k, n, i)
    PROVE  m = n
<1>1. m \in 1 .. k /\ n \in 1 .. k
  BY DEF OpenSince
<1>2. m < n => n \in m + 1 .. k
  BY <1>1
<1>3. n < m => m \in n + 1 .. k
  BY <1>1
<1>4. ~(m < n) /\ ~(n < m)
  BY <1>2, <1>3 DEF OpenSince
<1> QED BY <1>1, <1>4

\* What the next event does to the blocks that are open.
LEMMA OpeningsMove ==
    ASSUME NEW wire, NEW k \in Nat, NEW i, NEW m
    PROVE  OpenSince(wire, k + 1, m, i) <=>
             \/ m = k + 1 /\ SameBlock(wire[k + 1], "start", i)
             \/ /\ OpenSince(wire, k, m, i)
                /\ ~SameBlock(wire[k + 1], "start", i) /\ ~SameBlock(wire[k + 1], "stop", i)
<1>1. 1 .. k + 1 = (1 .. k) \cup {k + 1} /\ k + 1 \notin 1 .. k
  OBVIOUS
<1>2. CASE m = k + 1
  <2>1. (k + 1) + 1 .. k + 1 = {}
    OBVIOUS
  <2>2. ~OpenSince(wire, k, m, i)
    BY <1>1, <1>2 DEF OpenSince
  <2>3. m \in 1 .. k + 1
    BY <1>2
  <2> QED BY <1>2, <2>1, <2>2, <2>3 DEF OpenSince
<1>3. CASE m \in 1 .. k
  <2>1. m + 1 .. k + 1 = (m + 1 .. k) \cup {k + 1}
    BY <1>3
  <2>2. m # k + 1 /\ m \in 1 .. k + 1
    BY <1>3
  <2> QED BY <1>3, <2>1, <2>2 DEF OpenSince
<1>4. CASE m \notin 1 .. k + 1
  <2>1. m # k + 1 /\ m \notin 1 .. k
    BY <1>1, <1>4
  <2> QED BY <1>4, <2>1 DEF OpenSince
<1> QED BY <1>1, <1>2, <1>3, <1>4

LEMMA ClosingsClose ==
    ASSUME NEW wire, NEW k \in Nat, NEW m \in 1 .. k
    PROVE  Spans(wire, m, k + 1) <=> \E i : /\ OpenSince(wire, k, m, i)
                                            /\ SameBlock(wire[k + 1], "stop", i)
<1>1. m < k + 1 /\ (k + 1) - 1 = k
  OBVIOUS
<1> QED BY <1>1 DEF Spans, OpenSince, SameBlock

Closed(wire, k) == {n \in 1 .. k : \E m \in 1 .. n - 1 : Spans(wire, m, n)}
Whole(wire, k) == {n \in Closed(wire, k) : Parses(CallClosedAt(wire, n).input)}
Delivered(wire, k) == KeptAt([n \in Whole(wire, k) |-> CallClosedAt(wire, n)], Whole(wire, k))

LEMMA DeliveriesGrow ==
    ASSUME NEW wire, NEW k \in Nat
    PROVE  /\ Delivered(wire, k + 1) =
                IF k + 1 \in Whole(wire, k + 1)
                  THEN Append(Delivered(wire, k), CallClosedAt(wire, k + 1))
                  ELSE Delivered(wire, k)
           /\ Delivered(wire, 0) = <<>>
<1> DEFINE S == Whole(wire, k)
           T == Whole(wire, k + 1)
           s == [n \in S |-> CallClosedAt(wire, n)]
           r == [n \in T |-> CallClosedAt(wire, n)]
<1>1. 1 .. k + 1 = (1 .. k) \cup {k + 1} /\ 1 .. 0 = {}
  OBVIOUS
<1>2. T \ {k + 1} = S /\ S \in SUBSET (1 .. k) /\ k + 1 \notin S
  <2>1. k + 1 \notin 1 .. k
    OBVIOUS
  <2> QED BY <1>1, <2>1 DEF Whole, Closed
<1>3. S \in SUBSET Nat /\ IsFiniteSet(S) /\ k + 1 \in Nat
  <2>1. IsFiniteSet(1 .. k)
    BY IntervalCounts
  <2> HIDE DEF S
  <2>2. IsFiniteSet(S)
    BY <1>2, <2>1, FS_Subset
  <2> QED BY <1>2, <2>2
<1>4. \A y \in S : y < k + 1 /\ y \in T
  BY <1>2
<1>5. Delivered(wire, k) = KeptAt(s, S) /\ Delivered(wire, k + 1) = KeptAt(r, T)
  BY DEF Delivered
<1>a. k + 1 \in T <=> k + 1 \in Whole(wire, k + 1)
  OBVIOUS
<1>6. Continues(r, s, S, k + 1)
  BY <1>4 DEF Continues
<1>7. k + 1 \in T => r[k + 1] = CallClosedAt(wire, k + 1)
  OBVIOUS
<1> HIDE DEF S, T, s, r
<1>8. ASSUME k + 1 \in T
      PROVE  Delivered(wire, k + 1) = Append(Delivered(wire, k), CallClosedAt(wire, k + 1))
  <2>1. T = S \cup {k + 1}
    BY <1>2, <1>8
  <2> DEFINE x == k + 1
  <2>2. KeptAt(r, S \cup {x}) = Append(KeptAt(s, S), r[x])
    <3>1. S \in SUBSET Nat /\ IsFiniteSet(S) /\ x \in Nat /\ Continues(r, s, S, x)
      BY <1>3, <1>6
    <3> HIDE DEF x
    <3> QED BY SMTT(30), <3>1, KeptGrows
  <2> QED BY <1>5, <1>7, <1>8, <2>1, <2>2
<1>9. ASSUME k + 1 \notin T PROVE Delivered(wire, k + 1) = Delivered(wire, k)
  <2>1. T = S
    BY <1>2, <1>9
  <2>2. KeptAt(r, S) = KeptAt(s, S)
    BY <1>3, <1>6, KeptIsShort DEF Continues
  <2> QED BY <1>5, <2>1, <2>2
<1>10. Delivered(wire, 0) = <<>>
  <2> DEFINE E == Whole(wire, 0)
             q == [n \in E |-> CallClosedAt(wire, n)]
  <2>1. E = {}
    BY <1>1 DEF Whole, Closed
  <2>2. Delivered(wire, 0) = KeptAt(q, E)
    BY DEF Delivered
  <2>3. E \in SUBSET Nat /\ IsFiniteSet(E)
    BY <2>1, FS_EmptySet
  <2> HIDE DEF E, q
  <2> QED BY <2>1, <2>2, <2>3, KeptIsShort
<1> QED BY <1>a, <1>8, <1>9, <1>10

Turn(pending, text, calls) ==
    [pending |-> pending, text |-> text, calls |-> calls, end |-> "open"]

HeardBy(wire, k) == \E n \in 1 .. k : wire[n].type = "text"

\* What the first k events come to: the open blocks and what each holds so far,
\* whether any text came, and the calls delivered.
Holds(wire, k, pending, text, calls) ==
    /\ text \in BOOLEAN /\ (text = TRUE <=> HeardBy(wire, k))
    /\ \A i : i \in DOMAIN pending <=> \E m : OpenSince(wire, k, m, i)
    /\ \A i, m : OpenSince(wire, k, m, i) =>
                   pending[i] = [id |-> wire[m].id, parts |-> Fragments(wire, m, k, i)]
    /\ calls = Delivered(wire, k)

BlockTypes == {"start", "json", "stop", "text"}

LEMMA HeardGrows ==
    ASSUME NEW wire, NEW k \in Nat
    PROVE  /\ HeardBy(wire, k + 1) <=> HeardBy(wire, k) \/ wire[k + 1].type = "text"
           /\ ~HeardBy(wire, 0)
<1>1. 1 .. k + 1 = (1 .. k) \cup {k + 1} /\ 1 .. 0 = {}
  OBVIOUS
<1> QED BY <1>1 DEF HeardBy

LEMMA OnlyStopsDeliver ==
    ASSUME NEW wire, NEW k \in Nat,
           ~\E i, m : OpenSince(wire, k, m, i) /\ SameBlock(wire[k + 1], "stop", i)
    PROVE  Delivered(wire, k + 1) = Delivered(wire, k)
<1>1. k + 1 \notin Whole(wire, k + 1)
  <2> SUFFICES ASSUME NEW m \in 1 .. (k + 1) - 1, Spans(wire, m, k + 1) PROVE FALSE
    BY DEF Whole, Closed
  <2>1. m \in 1 .. k
    OBVIOUS
  <2> QED BY <2>1, ClosingsClose
<1> QED BY <1>1, DeliveriesGrow

LEMMA StopsDeliver ==
    ASSUME NEW wire, NEW k \in Nat, NEW i, NEW m, OpenSince(wire, k, m, i),
           SameBlock(wire[k + 1], "stop", i)
    PROVE  LET call == [id |-> wire[m].id, input |-> Fragments(wire, m, k, i)] IN
           Delivered(wire, k + 1) = IF Parses(call.input) THEN Append(Delivered(wire, k), call)
                                                        ELSE Delivered(wire, k)
<1> DEFINE call == [id |-> wire[m].id, input |-> Fragments(wire, m, k, i)]
           M == CHOOSE j \in 1 .. (k + 1) - 1 : Spans(wire, j, k + 1)
<1>1. m \in 1 .. k /\ (k + 1) - 1 = k /\ k + 1 \in 1 .. k + 1
  BY DEF OpenSince
<1>2. Spans(wire, m, k + 1)
  BY <1>1, ClosingsClose
<1>3. ASSUME NEW j \in 1 .. k, Spans(wire, j, k + 1) PROVE j = m
  <2>1. PICK h : OpenSince(wire, k, j, h) /\ SameBlock(wire[k + 1], "stop", h)
    BY <1>3, ClosingsClose
  <2>2. h = i
    BY <2>1 DEF SameBlock
  <2> QED BY <2>1, <2>2, OneOpening
<1>4. M = m
  <2>1. M \in 1 .. k /\ Spans(wire, M, k + 1)
    BY <1>1, <1>2
  <2> HIDE DEF M
  <2> QED BY <2>1, <1>3
<1>5. CallClosedAt(wire, k + 1) = call
  <2>1. CallClosedAt(wire, k + 1) =
          [id |-> wire[M].id,
           input |-> PartsAt(wire, {j \in M + 1 .. (k + 1) - 1 :
                                      SameBlock(wire[j], "json", wire[M].index)})]
    BY DEF CallClosedAt
  <2>2. wire[m].index = i
    BY DEF OpenSince, SameBlock
  <2> HIDE DEF M
  <2> QED BY <1>1, <1>4, <2>1, <2>2 DEF Fragments
<1>6. k + 1 \in Whole(wire, k + 1) <=> Parses(call.input)
  <2>1. k + 1 \in Closed(wire, k + 1)
    BY <1>1, <1>2 DEF Closed
  <2> HIDE DEF call
  <2> QED BY <1>5, <2>1 DEF Whole
<1>7. Delivered(wire, k + 1) =
        IF k + 1 \in Whole(wire, k + 1) THEN Append(Delivered(wire, k), CallClosedAt(wire, k + 1))
        ELSE Delivered(wire, k)
  BY DeliveriesGrow
<1> HIDE DEF call
<1>8. Delivered(wire, k + 1) = IF Parses(call.input) THEN Append(Delivered(wire, k), call)
                                                     ELSE Delivered(wire, k)
  BY <1>5, <1>6, <1>7
<1> QED BY <1>8 DEF call

LEMMA EventsAreHeld ==
    ASSUME NEW wire, NEW k \in Nat, wire[k + 1].type \in BlockTypes,
           NEW p, NEW x, NEW c, Holds(wire, k, p, x, c)
    PROVE  \E q, y, d : /\ OnBlockEvent(Turn(p, x, c), wire[k + 1]) = Turn(q, y, d)
                        /\ Holds(wire, k + 1, q, y, d)
<1> DEFINE e == wire[k + 1]
<1>1. /\ x \in BOOLEAN /\ (x = TRUE <=> HeardBy(wire, k))
      /\ \A i : i \in DOMAIN p <=> \E m : OpenSince(wire, k, m, i)
      /\ \A i, m : OpenSince(wire, k, m, i) =>
                     p[i] = [id |-> wire[m].id, parts |-> Fragments(wire, m, k, i)]
      /\ c = Delivered(wire, k)
  BY DEF Holds
<1>2. HeardBy(wire, k + 1) <=> HeardBy(wire, k) \/ e.type = "text"
  BY HeardGrows
<1>3. ASSUME NEW i, NEW m
      PROVE  /\ OpenSince(wire, k + 1, m, i) <=>
                  \/ m = k + 1 /\ SameBlock(e, "start", i)
                  \/ /\ OpenSince(wire, k, m, i)
                     /\ ~SameBlock(e, "start", i) /\ ~SameBlock(e, "stop", i)
             /\ OpenSince(wire, k, m, i) => m \in Nat /\ m <= k
  BY OpeningsMove DEF OpenSince
<1>4. ASSUME NEW i, NEW m \in Nat, m <= k
      PROVE  /\ SameBlock(e, "json", i) =>
                  Fragments(wire, m, k + 1, i) = Append(Fragments(wire, m, k, i), e.part)
             /\ ~SameBlock(e, "json", i) => Fragments(wire, m, k + 1, i) = Fragments(wire, m, k, i)
  BY <1>4, FragmentsGrow
<1>5. \A i : Fragments(wire, k + 1, k + 1, i) = <<>>
  BY FragmentsGrow
<1>6. ASSUME e.type # "stop" PROVE Delivered(wire, k + 1) = Delivered(wire, k)
  BY <1>6, OnlyStopsDeliver DEF SameBlock
<1>7. CASE e.type = "text"
  <2>1. OnBlockEvent(Turn(p, x, c), e) = Turn(p, TRUE, c)
    BY <1>7 DEF OnBlockEvent, OnText, Turn
  <2>2. \A i : ~SameBlock(e, "start", i) /\ ~SameBlock(e, "stop", i) /\ ~SameBlock(e, "json", i)
    BY <1>7 DEF SameBlock
  <2>3. \A i, m : OpenSince(wire, k + 1, m, i) <=> OpenSince(wire, k, m, i)
    BY <1>3, <2>2, k + 1 \notin 1 .. k DEF OpenSince
  <2>4. \A i, m : OpenSince(wire, k, m, i) =>
                    Fragments(wire, m, k + 1, i) = Fragments(wire, m, k, i)
    BY <1>3, <1>4, <2>2
  <2>5. Delivered(wire, k + 1) = Delivered(wire, k)
    BY <1>6, <1>7
  <2> HIDE DEF e
  <2>6. Holds(wire, k + 1, p, TRUE, c)
    BY <1>1, <1>2, <1>7, <2>3, <2>4, <2>5 DEF Holds
  <2> QED BY <2>1, <2>6 DEF e
<1>8. CASE e.type = "json"
  <2> DEFINE i == e.index
             q == IF i \in DOMAIN p THEN [p EXCEPT ![i].parts = Append(p[i].parts, e.part)] ELSE p
  <2>1. OnBlockEvent(Turn(p, x, c), e) = Turn(q, x, c)
    BY <1>8 DEF OnBlockEvent, OnFragment, BufferOf, Turn
  <2>2. \A h : /\ ~SameBlock(e, "start", h) /\ ~SameBlock(e, "stop", h)
               /\ SameBlock(e, "json", h) <=> h = i
    BY <1>8 DEF SameBlock
  <2>3. \A h, m : OpenSince(wire, k + 1, m, h) <=> OpenSince(wire, k, m, h)
    BY <1>3, <2>2
  <2>4. DOMAIN q = DOMAIN p
    OBVIOUS
  <2>5. Delivered(wire, k + 1) = Delivered(wire, k)
    BY <1>6, <1>8
  <2>6. ASSUME NEW h, NEW m, OpenSince(wire, k, m, h)
        PROVE  q[h] = [id |-> wire[m].id, parts |-> Fragments(wire, m, k + 1, h)]
    <3>1. p[h] = [id |-> wire[m].id, parts |-> Fragments(wire, m, k, h)] /\ h \in DOMAIN p
      BY <1>1, <2>6
    <3>2. m \in Nat /\ m <= k
      BY <1>3, <2>6
    <3>3. CASE h = i
      <4>1. q = [p EXCEPT ![h].parts = Append(p[h].parts, e.part)]
        BY <3>1, <3>3
      <4>2. q[h] = [id |-> wire[m].id, parts |-> Append(Fragments(wire, m, k, h), e.part)]
        <5> DEFINE r == [id |-> wire[m].id, parts |-> Fragments(wire, m, k, h)]
        <5> HIDE DEF q, e, i
        <5>1. q[h] = [p[h] EXCEPT !.parts = Append(p[h].parts, e.part)]
          BY <3>1, <4>1
        <5>2. q[h] = [r EXCEPT !.parts = Append(r.parts, e.part)]
          BY <3>1, <5>1
        <5> QED BY <5>2
      <4>3. Fragments(wire, m, k + 1, h) = Append(Fragments(wire, m, k, h), e.part)
        BY <1>4, <2>2, <3>2, <3>3
      <4> QED BY <4>2, <4>3
    <3>4. CASE h # i
      <4>1. q[h] = p[h]
        BY <3>1, <3>4
      <4>2. Fragments(wire, m, k + 1, h) = Fragments(wire, m, k, h)
        BY <1>4, <2>2, <3>2, <3>4
      <4> QED BY <3>1, <4>1, <4>2
    <3> QED BY <3>3, <3>4
  <2>7. HeardBy(wire, k + 1) <=> HeardBy(wire, k)
    BY <1>2, <1>8
  <2> HIDE DEF e, q, i
  <2>8. Holds(wire, k + 1, q, x, c)
    BY <1>1, <2>3, <2>4, <2>5, <2>6, <2>7 DEF Holds
  <2> QED BY <2>1, <2>8 DEF e
<1>9. CASE e.type = "start"
  <2> DEFINE i == e.index
             q == With(p, i, Opened(e.id))
  <2>1. OnBlockEvent(Turn(p, x, c), e) = Turn(q, x, c)
    BY <1>9 DEF OnBlockEvent, OnStart, Turn
  <2>2. \A h : /\ ~SameBlock(e, "stop", h) /\ ~SameBlock(e, "json", h)
               /\ SameBlock(e, "start", h) <=> h = i
    BY <1>9 DEF SameBlock
  <2>3. \A h, m : OpenSince(wire, k + 1, m, h) <=>
                    (h = i /\ m = k + 1) \/ (h # i /\ OpenSince(wire, k, m, h))
    BY <1>3, <2>2
  <2>4. /\ \A h : h \in DOMAIN q <=> h \in DOMAIN p \/ h = i
        /\ q[i] = [id |-> e.id, parts |-> <<>>]
        /\ \A h \in DOMAIN p : h # i => q[h] = p[h]
    BY DEF With, Opened
  <2>5. Delivered(wire, k + 1) = Delivered(wire, k)
    BY <1>6, <1>9
  <2>6. ASSUME NEW h, NEW m, OpenSince(wire, k + 1, m, h)
        PROVE  q[h] = [id |-> wire[m].id, parts |-> Fragments(wire, m, k + 1, h)]
    <3>1. CASE h = i /\ m = k + 1
      BY <1>5, <2>4, <3>1
    <3>2. CASE h # i /\ OpenSince(wire, k, m, h)
      <4>1. p[h] = [id |-> wire[m].id, parts |-> Fragments(wire, m, k, h)] /\ h \in DOMAIN p
        BY <1>1, <3>2
      <4>2. Fragments(wire, m, k + 1, h) = Fragments(wire, m, k, h)
        BY <1>3, <1>4, <2>2, <3>2
      <4> HIDE DEF q, e, i
      <4> QED BY <2>4, <3>2, <4>1, <4>2
    <3> QED BY <2>3, <2>6, <3>1, <3>2
  <2>7. HeardBy(wire, k + 1) <=> HeardBy(wire, k)
    BY <1>2, <1>9
  <2> HIDE DEF e, q, i
  <2>8. \A h : h \in DOMAIN q <=> \E m : OpenSince(wire, k + 1, m, h)
    <3>1. \A h : h # i => ((\E m : OpenSince(wire, k + 1, m, h)) <=>
                            \E m : OpenSince(wire, k, m, h))
      BY <2>3
    <3>2. OpenSince(wire, k + 1, k + 1, i)
      BY <2>3
    <3> QED BY <1>1, <2>4, <3>1, <3>2
  <2>9. Holds(wire, k + 1, q, x, c)
    BY <1>1, <2>5, <2>6, <2>7, <2>8 DEF Holds
  <2> QED BY <2>1, <2>9 DEF e
<1>10. CASE e.type = "stop"
  <2> DEFINE i == e.index
             call == p[i]
             q == Without(p, i)
             d == IF Parses(call.parts) THEN Append(c, ToolUse(call)) ELSE c
  <2>1. OnBlockEvent(Turn(p, x, c), e) = IF i \in DOMAIN p THEN Turn(q, x, d) ELSE Turn(p, x, c)
    <3>1. OnBlockEvent(Turn(p, x, c), e) = OnStop(Turn(p, x, c), e)
      BY <1>10 DEF OnBlockEvent
    <3> DEFINE t == Turn(p, x, c)
    <3>2. t.pending = p /\ t.calls = c
      BY DEF Turn
    <3>3. [t EXCEPT !.pending = q, !.calls = d] = Turn(q, x, d)
      <4> DEFINE u == Turn(q, x, c)
      <4> HIDE DEF q, d
      <4>1. [t EXCEPT !.pending = q] = u
        BY DEF Turn
      <4>2. [u EXCEPT !.calls = d] = Turn(q, x, d)
        BY DEF Turn
      <4> HIDE DEF t, u
      <4>3. [t EXCEPT !.pending = q, !.calls = d] = [[t EXCEPT !.pending = q] EXCEPT !.calls = d]
        OBVIOUS
      <4> QED BY <4>1, <4>2, <4>3
    <3>4. OnStop(t, e) = IF i \in DOMAIN p THEN [t EXCEPT !.pending = q, !.calls = d] ELSE t
      <4> HIDE DEF t
      <4> QED BY <3>2 DEF OnStop
    <3> QED BY <3>1, <3>3, <3>4
  <2>2. \A h : /\ ~SameBlock(e, "start", h) /\ ~SameBlock(e, "json", h)
               /\ SameBlock(e, "stop", h) <=> h = i
    BY <1>10 DEF SameBlock
  <2>3. \A h, m : OpenSince(wire, k + 1, m, h) <=> h # i /\ OpenSince(wire, k, m, h)
    BY <1>3, <2>2
  <2>4. \A h, m : OpenSince(wire, k, m, h) =>
                    Fragments(wire, m, k + 1, h) = Fragments(wire, m, k, h)
    BY <1>3, <1>4, <2>2
  <2>5. HeardBy(wire, k + 1) <=> HeardBy(wire, k)
    BY <1>2, <1>10
  <2>6. CASE i \notin DOMAIN p
    <3>1. ~\E h, m : OpenSince(wire, k, m, h) /\ SameBlock(e, "stop", h)
      BY <1>1, <2>2, <2>6
    <3>2. Delivered(wire, k + 1) = Delivered(wire, k)
      BY <3>1, OnlyStopsDeliver
    <3>3. \A h, m : OpenSince(wire, k + 1, m, h) <=> OpenSince(wire, k, m, h)
      BY <1>1, <2>3, <2>6
    <3> HIDE DEF e, i
    <3>4. Holds(wire, k + 1, p, x, c)
      BY <1>1, <2>4, <2>5, <3>2, <3>3 DEF Holds
    <3> QED BY <2>1, <2>6, <3>4 DEF e
  <2>7. CASE i \in DOMAIN p
    <3>1. PICK n : OpenSince(wire, k, n, i)
      BY <1>1, <2>7
    <3>2. p[i] = [id |-> wire[n].id, parts |-> Fragments(wire, n, k, i)]
      BY <1>1, <3>1
    <3>3. SameBlock(e, "stop", i)
      BY <2>2
    <3> DEFINE use == [id |-> wire[n].id, input |-> Fragments(wire, n, k, i)]
    <3>4. Delivered(wire, k + 1) = IF Parses(use.input) THEN Append(Delivered(wire, k), use)
                                                        ELSE Delivered(wire, k)
      <4> HIDE DEF i
      <4> QED BY <3>1, <3>3, StopsDeliver
    <3>5. use = ToolUse(call) /\ use.input = call.parts
      BY <3>2 DEF ToolUse
    <3>6. d = Delivered(wire, k + 1)
      <4> HIDE DEF use, call
      <4> QED BY <1>1, <3>4, <3>5
    <3>7. DOMAIN q = DOMAIN p \ {i} /\ \A h \in DOMAIN q : q[h] = p[h]
      BY DEF Without
    <3> HIDE DEF e, i, q, d
    <3>8. \A h : h \in DOMAIN q <=> \E m : OpenSince(wire, k + 1, m, h)
      BY <1>1, <2>3, <3>7
    <3>9. ASSUME NEW h, NEW m, OpenSince(wire, k + 1, m, h)
          PROVE  q[h] = [id |-> wire[m].id, parts |-> Fragments(wire, m, k + 1, h)]
      <4>1. h \in DOMAIN q /\ OpenSince(wire, k, m, h)
        BY <2>3, <3>8, <3>9
      <4> QED BY <1>1, <2>4, <3>7, <4>1
    <3>10. Holds(wire, k + 1, q, x, d)
      BY <1>1, <2>5, <3>6, <3>8, <3>9 DEF Holds
    <3> QED BY <2>1, <2>7, <3>10 DEF e
  <2> QED BY <2>6, <2>7
<1> QED BY <1>7, <1>8, <1>9, <1>10 DEF BlockTypes

LEMMA BlockTurnsHold ==
    ASSUME NEW wire, Len(wire) \in Nat,
           \A n \in 1 .. Len(wire) : wire[n].type \in BlockTypes,
           NEW f, Runs("anthropic", wire, f, Len(wire))
    PROVE  \E p, x, c : f[Len(wire)] = Turn(p, x, c) /\ Holds(wire, Len(wire), p, x, c)
<1> DEFINE N == Len(wire)
           Held(k) == \E p, x, c : f[k] = Turn(p, x, c) /\ Holds(wire, k, p, x, c)
           Bad == {k \in 0 .. N : ~Held(k)}
<1>1. SUFFICES ASSUME Bad # {} PROVE FALSE
  OBVIOUS
<1>2. PICK k \in Bad : \A y \in Bad : k <= y
  <2>1. Bad \in SUBSET Nat
    OBVIOUS
  <2> HIDE DEF Bad
  <2> QED BY <1>1, <2>1, LeastOf
<1>3. CASE k = 0
  <2>1. f[0] = Turn(<<>>, FALSE, <<>>)
    BY DEF Runs, EmptyTurn, Turn
  <2>2. Holds(wire, 0, <<>>, FALSE, <<>>)
    <3>1. \A i, m : ~OpenSince(wire, 0, m, i)
      BY DEF OpenSince
    <3>2. \A i : i \notin DOMAIN <<>>
      OBVIOUS
    <3>3. 0 \in Nat
      OBVIOUS
    <3> QED BY <3>1, <3>2, <3>3, HeardGrows, DeliveriesGrow DEF Holds
  <2> QED BY <1>2, <1>3, <2>1, <2>2
<1>4. CASE k # 0
  <2> DEFINE j == k - 1
  <2>1. j \in Nat /\ j \in 0 .. N /\ k = j + 1 /\ Held(j) /\ k \in 1 .. N
    <3>1. j \in Nat /\ j \in 0 .. N /\ k = j + 1 /\ k \in 1 .. N /\ ~(k <= j)
      BY <1>2, <1>4
    <3>2. j \notin Bad
      <4> HIDE DEF Bad, j
      <4> QED BY <1>2, <3>1
    <3> QED BY <3>1, <3>2
  <2>2. PICK p, x, c : f[j] = Turn(p, x, c) /\ Holds(wire, j, p, x, c)
    BY <2>1
  <2>3. f[k] = OnBlockEvent(f[j], wire[k])
    BY <2>1 DEF Runs, After
  <2> HIDE DEF j
  <2>4. wire[j + 1].type \in BlockTypes
    BY <2>1
  <2>5. \E q, y, d : /\ OnBlockEvent(Turn(p, x, c), wire[j + 1]) = Turn(q, y, d)
                     /\ Holds(wire, j + 1, q, y, d)
    BY <2>1, <2>2, <2>4, EventsAreHeld
  <2>6. Held(k)
    BY <2>1, <2>2, <2>3, <2>5
  <2> QED BY <1>2, <2>6
<1> QED BY <1>3, <1>4

(* However the blocks of any wire open, fill and close, the calls delivered are *)
(* those the wire closed with arguments that parse, in the order they closed.   *)
THEOREM AnyBlocksAreWhole ==
    ASSUME NEW wire, Len(wire) \in Nat, DOMAIN wire = 1 .. Len(wire),
           \A n \in 1 .. Len(wire) : wire[n].type \in BlockTypes
    PROVE  AnthropicIsFaithful(wire)
<1> DEFINE N == Len(wire)
           closed == {n \in DOMAIN wire : \E m \in 1 .. (n - 1) : Spans(wire, m, n)}
           call == [n \in closed |-> CallClosedAt(wire, n)]
           whole == {n \in closed : Parses(call[n].input)}
           heard == \E n \in DOMAIN wire : wire[n].type = "text"
<1>1. PICK f : /\ Runs("anthropic", wire, f, N)
               /\ \A reason : AnthropicTurn(wire, reason) = Ending(f[N], reason)
  BY AnthropicRuns
<1>2. PICK p, x, c : f[N] = Turn(p, x, c) /\ Holds(wire, N, p, x, c)
  BY <1>1, BlockTurnsHold
<1>3. closed = Closed(wire, N) /\ (heard <=> HeardBy(wire, N))
  BY DEF Closed, HeardBy
<1>4. whole = Whole(wire, N)
  <2>1. \A n \in closed : call[n] = CallClosedAt(wire, n)
    OBVIOUS
  <2> HIDE DEF closed, call
  <2> QED BY <1>3, <2>1 DEF Whole
<1>5. KeptAt(call, whole) = Delivered(wire, N)
  <2> DEFINE s == [n \in Whole(wire, N) |-> CallClosedAt(wire, n)]
  <2>1. Delivered(wire, N) = KeptAt(s, whole)
    BY <1>4 DEF Delivered
  <2>2. \A n \in whole : call[n] = s[n]
    BY <1>4
  <2>3. whole \in SUBSET Nat /\ IsFiniteSet(whole)
    <3>1. IsFiniteSet(1 .. N) /\ whole \subseteq 1 .. N
      BY IntervalCounts
    <3> HIDE DEF whole
    <3>2. IsFiniteSet(whole)
      BY <3>1, FS_Subset
    <3> QED BY <3>1, <3>2
  <2> HIDE DEF s, whole, call
  <2> QED BY <2>1, <2>2, <2>3, KeptIsShort
<1>6. x \in BOOLEAN /\ (x = TRUE <=> heard) /\ c = Delivered(wire, N)
  BY <1>2, <1>3 DEF Holds
<1> HIDE DEF heard, whole, call
<1>7. ASSUME NEW reason \in StopReason
      PROVE  LET t == AnthropicTurn(wire, reason) IN
             /\ t.calls = KeptAt(call, whole)
             /\ t.end = "empty_response" <=> ~heard /\ reason \in {"end_turn", "refusal"}
  <2>1. AnthropicTurn(wire, reason) = Ending(Turn(p, x, c), reason)
    BY <1>1, <1>2
  <2>2. /\ Ending(Turn(p, x, c), reason).calls = c
        /\ Ending(Turn(p, x, c), reason).end = IF x \/ reason \in NoTextExpected
                                               THEN "message_end" ELSE "empty_response"
    BY DEF Ending, Turn
  <2>3. reason \in NoTextExpected <=> ~(reason \in {"end_turn", "refusal"})
    BY DEF NoTextExpected, StopReason
  <2>4. x <=> heard
    BY <1>6
  <2> QED BY <1>5, <1>6, <2>1, <2>2, <2>3, <2>4
<1> QED BY <1>7 DEF AnthropicIsFaithful, heard, whole, call

-----------------------------------------------------------------------------
(* The same of the deltas, which no event closes. *)

DeltaOf(wire, n, i) == SameBlock(wire[n], "delta", i)
Named(wire, k, i) == {n \in 1 .. k : DeltaOf(wire, n, i) /\ wire[n].id # 0}
Given(wire, k, i) == {n \in 1 .. k : DeltaOf(wire, n, i) /\ wire[n].part # "none"}

Name(wire, named) ==
    IF named = {} THEN 0 ELSE wire[CHOOSE n \in named : \A m \in named : m <= n].id

LEMMA GivenGrows ==
    ASSUME NEW wire, NEW k \in Nat, NEW i
    PROVE  PartsAt(wire, Given(wire, k + 1, i)) =
             IF DeltaOf(wire, k + 1, i) /\ wire[k + 1].part # "none"
               THEN Append(PartsAt(wire, Given(wire, k, i)), wire[k + 1].part)
               ELSE PartsAt(wire, Given(wire, k, i))
<1> DEFINE S == Given(wire, k, i)
           T == Given(wire, k + 1, i)
           adds == DeltaOf(wire, k + 1, i) /\ wire[k + 1].part # "none"
<1>1. 1 .. k + 1 = (1 .. k) \cup {k + 1}
  OBVIOUS
<1>2. (adds => T = S \cup {k + 1}) /\ (~adds => T = S)
  BY <1>1 DEF Given
<1>3. S \in SUBSET Nat /\ IsFiniteSet(S) /\ k + 1 \in Nat /\ \A y \in S : y < k + 1
  <2>1. IsFiniteSet(1 .. k) /\ S \subseteq 1 .. k
    BY IntervalCounts DEF Given
  <2> HIDE DEF S
  <2>2. IsFiniteSet(S)
    BY <2>1, FS_Subset
  <2> QED BY <2>1, <2>2
<1> HIDE DEF S, T
<1>4. PartsAt(wire, S \cup {k + 1}) = Append(PartsAt(wire, S), wire[k + 1].part)
  BY <1>3, PartsGrow
<1> QED BY <1>2, <1>4 DEF S, T

LEMMA NamesFollow ==
    ASSUME NEW wire, NEW k \in Nat, NEW i
    PROVE  Name(wire, Named(wire, k + 1, i)) =
             IF DeltaOf(wire, k + 1, i) /\ wire[k + 1].id # 0 THEN wire[k + 1].id
             ELSE Name(wire, Named(wire, k, i))
<1> DEFINE S == Named(wire, k, i)
           T == Named(wire, k + 1, i)
           adds == DeltaOf(wire, k + 1, i) /\ wire[k + 1].id # 0
<1>1. 1 .. k + 1 = (1 .. k) \cup {k + 1} /\ S \subseteq 1 .. k
  BY DEF Named
<1>2. (adds => T = S \cup {k + 1}) /\ (~adds => T = S)
  BY <1>1 DEF Named
<1> HIDE DEF S, T
<1>3. ASSUME adds PROVE Name(wire, T) = wire[k + 1].id
  <2> DEFINE last == CHOOSE n \in T : \A m \in T : m <= n
  <2>1. k + 1 \in T /\ \A m \in T : m \in Nat /\ m <= k + 1
    <3>1. T = S \cup {k + 1}
      BY <1>2, <1>3
    <3>2. \A m \in S : m \in 1 .. k
      BY <1>1
    <3> QED BY <3>1, <3>2
  <2>2. \A n \in T : (\A m \in T : m <= n) => n = k + 1
    <3> SUFFICES ASSUME NEW n \in T, \A m \in T : m <= n PROVE n = k + 1
      OBVIOUS
    <3>1. n \in Nat /\ n <= k + 1 /\ k + 1 <= n
      BY <2>1
    <3> QED BY <3>1
  <2>3. last = k + 1
    BY <2>1, <2>2
  <2>4. Name(wire, T) = wire[last].id
    BY <2>1 DEF Name
  <2> HIDE DEF last
  <2> QED BY <2>3, <2>4
<1> QED BY <1>2, <1>3 DEF S, T

LEMMA NothingGiven ==
    ASSUME NEW wire, NEW k \in Nat, NEW i, ~\E n \in 1 .. k : DeltaOf(wire, n, i)
    PROVE  PartsAt(wire, Given(wire, k, i)) = <<>> /\ Name(wire, Named(wire, k, i)) = 0
<1>1. Given(wire, k, i) = {} /\ Named(wire, k, i) = {}
  BY DEF Given, Named
<1> QED BY <1>1, NoParts DEF Name

Gathers(wire, k, pending, text) ==
    /\ text \in BOOLEAN /\ (text = TRUE <=> HeardBy(wire, k))
    /\ \A i : i \in DOMAIN pending <=> \E n \in 1 .. k : DeltaOf(wire, n, i)
    /\ \A i \in DOMAIN pending :
         pending[i] = [id |-> Name(wire, Named(wire, k, i)),
                       parts |-> PartsAt(wire, Given(wire, k, i))]

LEMMA DeltasAreGathered ==
    ASSUME NEW wire, NEW k \in Nat, wire[k + 1].type \in {"delta", "text"},
           NEW p, NEW x, Gathers(wire, k, p, x)
    PROVE  \E q, y : /\ OnDelta(Turn(p, x, <<>>), wire[k + 1]) = Turn(q, y, <<>>)
                     /\ Gathers(wire, k + 1, q, y)
<1> DEFINE e == wire[k + 1]
<1>1. /\ x \in BOOLEAN /\ (x = TRUE <=> HeardBy(wire, k))
      /\ \A i : i \in DOMAIN p <=> \E n \in 1 .. k : DeltaOf(wire, n, i)
      /\ \A i \in DOMAIN p :
           p[i] = [id |-> Name(wire, Named(wire, k, i)), parts |-> PartsAt(wire, Given(wire, k, i))]
  BY DEF Gathers
<1>2. HeardBy(wire, k + 1) <=> HeardBy(wire, k) \/ e.type = "text"
  BY HeardGrows
<1>3. \A i : (\E n \in 1 .. k + 1 : DeltaOf(wire, n, i)) <=>
               (\E n \in 1 .. k : DeltaOf(wire, n, i)) \/ DeltaOf(wire, k + 1, i)
  <2>1. 1 .. k + 1 = (1 .. k) \cup {k + 1}
    OBVIOUS
  <2> QED BY <2>1
<1>4. CASE e.type = "text"
  <2>1. OnDelta(Turn(p, x, <<>>), e) = Turn(p, TRUE, <<>>)
    BY <1>4 DEF OnDelta, OnText, Turn
  <2>2. \A i : ~DeltaOf(wire, k + 1, i)
    BY <1>4 DEF DeltaOf, SameBlock
  <2>3. \A i : /\ Name(wire, Named(wire, k + 1, i)) = Name(wire, Named(wire, k, i))
               /\ PartsAt(wire, Given(wire, k + 1, i)) = PartsAt(wire, Given(wire, k, i))
    BY <2>2, GivenGrows, NamesFollow
  <2>4. HeardBy(wire, k + 1)
    BY <1>2, <1>4
  <2> HIDE DEF e
  <2>5. Gathers(wire, k + 1, p, TRUE)
    BY <1>1, <1>3, <2>2, <2>3, <2>4 DEF Gathers
  <2> QED BY <2>1, <2>5 DEF e
<1>5. CASE e.type = "delta"
  <2> DEFINE i == e.index
             open == IF i \in DOMAIN p THEN p[i] ELSE Opened(0)
             call == [id    |-> IF e.id = 0 THEN open.id ELSE e.id,
                      parts |-> IF e.part = "none" THEN open.parts ELSE Append(open.parts, e.part)]
             q == With(p, i, call)
  <2>1. OnDelta(Turn(p, x, <<>>), e) = Turn(q, x, <<>>)
    <3> DEFINE t == Turn(p, x, <<>>)
    <3>1. t.pending = p /\ [t EXCEPT !.pending = q] = Turn(q, x, <<>>)
      <4> HIDE DEF q
      <4> QED BY DEF Turn
    <3> HIDE DEF t
    <3>2. OnDelta(t, e) = [t EXCEPT !.pending = q]
      BY <1>5, <3>1 DEF OnDelta
    <3> QED BY <3>1, <3>2 DEF t
  <2>2. \A h : DeltaOf(wire, k + 1, h) <=> h = i
    BY <1>5 DEF DeltaOf, SameBlock
  <2>3. open = [id |-> Name(wire, Named(wire, k, i)), parts |-> PartsAt(wire, Given(wire, k, i))]
    <3>1. CASE i \in DOMAIN p
      BY <1>1, <3>1
    <3>2. CASE i \notin DOMAIN p
      <4>1. ~\E n \in 1 .. k : DeltaOf(wire, n, i)
        BY <1>1, <3>2
      <4> HIDE DEF i
      <4>2. PartsAt(wire, Given(wire, k, i)) = <<>> /\ Name(wire, Named(wire, k, i)) = 0
        BY <4>1, NothingGiven
      <4>3. open = Opened(0)
        BY <3>2
      <4> QED BY <4>2, <4>3 DEF Opened
    <3> QED BY <3>1, <3>2
  <2> HIDE DEF open
  <2>4. /\ DeltaOf(wire, k + 1, i)
        /\ Name(wire, Named(wire, k + 1, i)) =
             IF e.id # 0 THEN e.id ELSE Name(wire, Named(wire, k, i))
        /\ PartsAt(wire, Given(wire, k + 1, i)) =
             IF e.part # "none" THEN Append(PartsAt(wire, Given(wire, k, i)), e.part)
                                ELSE PartsAt(wire, Given(wire, k, i))
    <3>1. DeltaOf(wire, k + 1, i)
      BY <2>2
    <3> HIDE DEF i
    <3> QED BY <3>1, GivenGrows, NamesFollow
  <2>5. call = [id |-> Name(wire, Named(wire, k + 1, i)),
                parts |-> PartsAt(wire, Given(wire, k + 1, i))]
    <3>1. /\ open.id = Name(wire, Named(wire, k, i))
          /\ open.parts = PartsAt(wire, Given(wire, k, i))
      BY <2>3
    <3> HIDE DEF i
    <3> QED BY <2>4, <3>1
  <2> HIDE DEF call
  <2>6. /\ \A h : h \in DOMAIN q <=> h \in DOMAIN p \/ h = i
        /\ q[i] = call
        /\ \A h \in DOMAIN p : h # i => q[h] = p[h]
    BY DEF With
  <2>7. \A h : h # i => /\ Name(wire, Named(wire, k + 1, h)) = Name(wire, Named(wire, k, h))
                        /\ PartsAt(wire, Given(wire, k + 1, h)) = PartsAt(wire, Given(wire, k, h))
    <3> SUFFICES ASSUME NEW h, h # i
                 PROVE  /\ Name(wire, Named(wire, k + 1, h)) = Name(wire, Named(wire, k, h))
                        /\ PartsAt(wire, Given(wire, k + 1, h)) = PartsAt(wire, Given(wire, k, h))
      OBVIOUS
    <3>1. ~DeltaOf(wire, k + 1, h)
      BY <2>2
    <3> QED BY <3>1, GivenGrows, NamesFollow
  <2>8. HeardBy(wire, k + 1) <=> HeardBy(wire, k)
    BY <1>2, <1>5
  <2> HIDE DEF e, i, q
  <2>9. \A h : h \in DOMAIN q <=> \E n \in 1 .. k + 1 : DeltaOf(wire, n, h)
    BY <1>1, <1>3, <2>2, <2>6
  <2>10. ASSUME NEW h \in DOMAIN q
         PROVE  q[h] = [id |-> Name(wire, Named(wire, k + 1, h)),
                        parts |-> PartsAt(wire, Given(wire, k + 1, h))]
    <3>1. CASE h = i
      BY <2>5, <2>6, <3>1
    <3>2. CASE h # i
      <4>1. h \in DOMAIN p /\ q[h] = p[h]
        BY <2>6, <3>2
      <4> QED BY <1>1, <2>7, <3>2, <4>1
    <3> QED BY <3>1, <3>2
  <2>11. Gathers(wire, k + 1, q, x)
    BY <1>1, <2>8, <2>9, <2>10 DEF Gathers
  <2> QED BY <2>1, <2>11 DEF e
<1> QED BY <1>4, <1>5

LEMMA DeltaTurnsGather ==
    ASSUME NEW wire, Len(wire) \in Nat,
           \A n \in 1 .. Len(wire) : wire[n].type \in {"delta", "text"},
           NEW f, Runs("openai", wire, f, Len(wire))
    PROVE  \E p, x : f[Len(wire)] = Turn(p, x, <<>>) /\ Gathers(wire, Len(wire), p, x)
<1> DEFINE N == Len(wire)
           Held(k) == \E p, x : f[k] = Turn(p, x, <<>>) /\ Gathers(wire, k, p, x)
           Bad == {k \in 0 .. N : ~Held(k)}
<1>1. SUFFICES ASSUME Bad # {} PROVE FALSE
  OBVIOUS
<1>2. PICK k \in Bad : \A y \in Bad : k <= y
  <2>1. Bad \in SUBSET Nat
    OBVIOUS
  <2> HIDE DEF Bad
  <2> QED BY <1>1, <2>1, LeastOf
<1>3. CASE k = 0
  <2>1. f[0] = Turn(<<>>, FALSE, <<>>)
    BY DEF Runs, EmptyTurn, Turn
  <2>2. Gathers(wire, 0, <<>>, FALSE)
    <3>1. 0 \in Nat /\ 1 .. 0 = {} /\ DOMAIN <<>> = {}
      OBVIOUS
    <3> QED BY <3>1, HeardGrows DEF Gathers
  <2> QED BY <1>2, <1>3, <2>1, <2>2
<1>4. CASE k # 0
  <2> DEFINE j == k - 1
  <2>1. j \in Nat /\ j \in 0 .. N /\ k = j + 1 /\ Held(j) /\ k \in 1 .. N
    <3>1. j \in Nat /\ j \in 0 .. N /\ k = j + 1 /\ k \in 1 .. N /\ ~(k <= j)
      BY <1>2, <1>4
    <3>2. j \notin Bad
      <4> HIDE DEF Bad, j
      <4> QED BY <1>2, <3>1
    <3> QED BY <3>1, <3>2
  <2>2. PICK p, x : f[j] = Turn(p, x, <<>>) /\ Gathers(wire, j, p, x)
    BY <2>1
  <2>3. f[k] = OnDelta(f[j], wire[k])
    BY <2>1 DEF Runs, After
  <2> HIDE DEF j
  <2>4. wire[j + 1].type \in {"delta", "text"}
    BY <2>1
  <2>5. \E q, y : /\ OnDelta(Turn(p, x, <<>>), wire[j + 1]) = Turn(q, y, <<>>)
                  /\ Gathers(wire, j + 1, q, y)
    BY <2>1, <2>2, <2>4, DeltasAreGathered
  <2>6. Held(k)
    BY <2>1, <2>2, <2>3, <2>5
  <2> QED BY <1>2, <2>6
<1> QED BY <1>3, <1>4

Indexes(wire) == {wire[n].index : n \in {m \in DOMAIN wire : wire[m].type = "delta"}}

Collected(p, D, ids, args) ==
    DOMAIN p = D /\ \A i \in D : p[i] = [id |-> ids[i], parts |-> args[i]]

\* What a delta turn is at its end, and what it delivers.
LEMMA FinalsAreGathered ==
    ASSUME NEW wire, NEW D \in SUBSET Nat, IsFiniteSet(D), NEW args, NEW ids,
           NEW p, NEW x, Collected(p, D, ids, args)
    PROVE  LET t == Finalized(Turn(p, x, <<>>)) IN
           /\ t.text = x /\ DOMAIN t = {"pending", "text", "calls", "end"}
           /\ t.end \in {"open", "raised"}
           /\ t.end = "raised" <=> ~\A i \in D : Parses(args[i])
           /\ (\A i \in D : Parses(args[i])) =>
                t.calls = KeptAt([i \in D |-> [id |-> ids[i], input |-> args[i]]], D)
           /\ \A n \in DOMAIN t.calls : Parses(t.calls[n].input)
<1> DEFINE t == Turn(p, x, <<>>)
           order == Increasing(D)
           N == Cardinality(D)
           bad == {n \in DOMAIN order : ~Parses(p[order[n]].parts)}
           first == CHOOSE n \in bad : \A m \in bad : n <= m
           kept == IF bad = {} THEN Len(order) ELSE first - 1
           calls == [n \in 1 .. kept |-> ToolUse(p[order[n]])]
           end == IF bad = {} THEN "open" ELSE "raised"
           s == [i \in D |-> [id |-> ids[i], input |-> args[i]]]
<1>a. DOMAIN p = D /\ \A i \in D : p[i] = [id |-> ids[i], parts |-> args[i]]
  BY DEF Collected
<1>1. /\ N \in Nat /\ order \in [1 .. N -> D]
      /\ \A i \in D : \E n \in 1 .. N : order[n] = i
  BY IncreasingIsInOrder
<1>2. Finalized(t) = [t EXCEPT !.calls = calls, !.end = end]
  <2>1. t.pending = p
    BY DEF Turn
  <2> HIDE DEF t
  <2> QED BY <1>a, <2>1 DEF Finalized
<1>3. /\ Finalized(t).text = x /\ DOMAIN Finalized(t) = {"pending", "text", "calls", "end"}
      /\ Finalized(t).calls = calls /\ Finalized(t).end = end
  <2> HIDE DEF calls, end
  <2> QED BY <1>2 DEF Turn
<1> HIDE DEF N
<1>4. Len(order) = N /\ DOMAIN order = 1 .. N
  BY <1>1
<1>5. KeptAt(s, D) = [n \in 1 .. N |-> s[order[n]]]
  BY <1>4 DEF KeptAt
<1> HIDE DEF order, t
<1>6. \A n \in 1 .. N : /\ order[n] \in D
                        /\ ToolUse(p[order[n]]) = s[order[n]]
                        /\ s[order[n]].input = args[order[n]]
                        /\ n \in bad <=> ~Parses(args[order[n]])
  <2> SUFFICES ASSUME NEW n \in 1 .. N
               PROVE  /\ order[n] \in D
                      /\ ToolUse(p[order[n]]) = s[order[n]]
                      /\ s[order[n]].input = args[order[n]]
                      /\ n \in bad <=> ~Parses(args[order[n]])
    OBVIOUS
  <2>1. order[n] \in D
    BY <1>1
  <2>2. p[order[n]] = [id |-> ids[order[n]], parts |-> args[order[n]]]
    BY <1>a, <2>1
  <2>3. p[order[n]].parts = args[order[n]]
    BY <2>2
  <2> QED BY <1>4, <2>1, <2>2, <2>3 DEF ToolUse
<1> HIDE DEF s, calls, kept
<1>7. bad = {} <=> \A i \in D : Parses(args[i])
  <2>1. bad = {} <=> \A n \in 1 .. N : Parses(args[order[n]])
    BY <1>4, <1>6
  <2> HIDE DEF bad
  <2> QED BY <1>1, <1>6, <2>1
<1>8. ASSUME bad = {} PROVE calls = KeptAt(s, D)
  <2>1. kept = N
    BY <1>4, <1>8 DEF kept
  <2>2. calls = [n \in 1 .. N |-> ToolUse(p[order[n]])]
    BY <2>1 DEF calls
  <2> HIDE DEF bad
  <2> QED BY <1>5, <1>6, <2>2
<1>9. ASSUME NEW n \in DOMAIN calls PROVE Parses(calls[n].input)
  <2>1. n \in 1 .. kept /\ calls[n] = ToolUse(p[order[n]])
    BY DEF calls
  <2>2. n \in 1 .. N /\ n \notin bad
    <3>1. CASE bad = {}
      BY <1>4, <2>1, <3>1 DEF kept
    <3>2. CASE bad # {}
      <4>1. bad \in SUBSET Nat /\ bad \subseteq 1 .. N
        BY <1>1, <1>4
      <4>2. \E y \in bad : \A m \in bad : y <= m
        <5> HIDE DEF bad
        <5> QED BY <3>2, <4>1, LeastOf
      <4>3. first \in bad /\ \A m \in bad : first <= m
        <5> HIDE DEF bad
        <5> QED BY <4>2
      <4>4. kept = first - 1
        BY <3>2 DEF kept
      <4> HIDE DEF first, bad
      <4>5. first \in 1 .. N
        BY <4>1, <4>3
      <4>6. n \in 1 .. N /\ ~(first <= n)
        BY <1>1, <2>1, <4>4, <4>5
      <4> QED BY <4>3, <4>6
    <3> QED BY <3>1, <3>2
  <2> HIDE DEF bad
  <2> QED BY <1>6, <2>1, <2>2
<1>10. end \in {"open", "raised"} /\ (end = "raised" <=> bad # {})
  OBVIOUS
<1> HIDE DEF bad, end
<1>11. (\A i \in D : Parses(args[i])) => calls = KeptAt(s, D)
  BY <1>7, <1>8
<1>12. end = "raised" <=> ~\A i \in D : Parses(args[i])
  BY <1>7, <1>10
<1> QED BY <1>3, <1>9, <1>10, <1>11, <1>12 DEF t, s

(* However the deltas of any wire mingle, either every call they name is       *)
(* delivered, by index, with its own arguments and its last id, or one's do not *)
(* parse, and the turn raises there; one that does not raise is empty exactly   *)
(* if no text came and its reason excuses none.                                 *)
THEOREM AnyDeltasAreWhole ==
    ASSUME NEW wire, Len(wire) \in Nat, DOMAIN wire = 1 .. Len(wire),
           \A n \in 1 .. Len(wire) : wire[n].type \in {"delta", "text"},
           \A n \in 1 .. Len(wire) : wire[n].type = "delta" => wire[n].index \in Nat
    PROVE  OpenAIIsFaithful(wire)
<1> DEFINE N == Len(wire)
           D == Indexes(wire)
           ids == [i \in D |-> IdOf(wire, i)]
           args == [i \in D |-> ArgumentsOf(wire, i)]
           call == [i \in D |-> [id |-> IdOf(wire, i), input |-> ArgumentsOf(wire, i)]]
           call2 == [i \in D |-> [id |-> ids[i], input |-> args[i]]]
           whole == \A i \in D : Parses(ArgumentsOf(wire, i))
           heard == \E n \in DOMAIN wire : wire[n].type = "text"
<1>1. PICK f : /\ Runs("openai", wire, f, N)
               /\ \A reason : OpenAITurn(wire, reason) = Ended(Finalized(f[N]), reason)
  BY OpenAIRuns
<1>2. PICK p, x : f[N] = Turn(p, x, <<>>) /\ Gathers(wire, N, p, x)
  BY <1>1, DeltaTurnsGather
<1>3. D \in SUBSET Nat /\ IsFiniteSet(D)
  <2> DEFINE M == {m \in 1 .. N : wire[m].type = "delta"}
             g == [m \in M |-> wire[m].index]
  <2>1. IsFiniteSet(1 .. N) /\ M \subseteq 1 .. N
    BY IntervalCounts
  <2>2. IsFiniteSet(M)
    <3> HIDE DEF M
    <3> QED BY <2>1, FS_Subset
  <2>3. D = {wire[m].index : m \in M}
    BY DEF Indexes
  <2>4. g \in Surjection(M, D)
    BY <2>3 DEF Surjection
  <2>5. IsFiniteSet(D)
    <3> HIDE DEF M, g, D
    <3> QED BY <2>2, <2>4, FS_Surjection
  <2>6. D \in SUBSET Nat
    BY <2>3
  <2> QED BY <2>5, <2>6
<1>4. \A i : i \in D <=> \E n \in 1 .. N : DeltaOf(wire, n, i)
  BY DEF Indexes, DeltaOf, SameBlock
<1>5. DOMAIN p = D
  BY <1>2, <1>4 DEF Gathers
<1>6. \A i : /\ IdOf(wire, i) = Name(wire, Named(wire, N, i))
             /\ ArgumentsOf(wire, i) = PartsAt(wire, Given(wire, N, i))
  BY DEF IdOf, ArgumentsOf, Name, Named, Given, DeltaOf
<1>7. \A i \in D : p[i] = [id |-> ids[i], parts |-> args[i]]
  <2>1. \A i \in D : ids[i] = IdOf(wire, i) /\ args[i] = ArgumentsOf(wire, i)
    OBVIOUS
  <2> HIDE DEF D, ids, args
  <2> QED BY <1>2, <1>5, <1>6, <2>1 DEF Gathers
<1>a. Collected(p, D, ids, args)
  <2> HIDE DEF D, ids, args
  <2> QED BY <1>5, <1>7 DEF Collected
<1>8. call2 = call /\ (whole <=> \A i \in D : Parses(args[i]))
  OBVIOUS
<1>b. x \in BOOLEAN /\ (x <=> heard)
  BY <1>2 DEF Gathers, HeardBy
<1> DEFINE t == Finalized(Turn(p, x, <<>>))
<1> HIDE DEF D, ids, args, call, whole, heard
<1>9. /\ DOMAIN t = {"pending", "text", "calls", "end"} /\ t.text = x
      /\ t.end \in {"open", "raised"}
      /\ t.end = "raised" <=> ~\A i \in D : Parses(args[i])
      /\ (\A i \in D : Parses(args[i])) => t.calls = KeptAt(call2, D)
      /\ \A n \in DOMAIN t.calls : Parses(t.calls[n].input)
  BY <1>3, <1>a, FinalsAreGathered
<1>10. ASSUME NEW reason \in StopReason
       PROVE  LET u == OpenAITurn(wire, reason) IN
              /\ u.end = "raised" <=> ~whole
              /\ whole => u.calls = KeptAt(call, D)
              /\ u.end = "empty_response" <=> whole /\ ~heard /\ reason \in {"end_turn", "refusal"}
              /\ \A n \in DOMAIN u.calls : Parses(u.calls[n].input)
  <2> DEFINE u == Ended(t, reason)
  <2>1. OpenAITurn(wire, reason) = u
    BY <1>1, <1>2
  <2> HIDE DEF t, call2
  <2>2. u.calls = t.calls /\ (u.end = "raised" <=> t.end = "raised")
    <3>1. CASE t.end = "raised"
      BY <3>1 DEF Ended
    <3>2. CASE t.end # "raised"
      <4>1. u = Ending(t, reason)
        BY <3>2 DEF Ended
      <4> HIDE DEF u
      <4> QED BY <1>9, <3>2, <4>1 DEF Ending
    <3> QED BY <3>1, <3>2
  <2>3. reason \in NoTextExpected <=> ~(reason \in {"end_turn", "refusal"})
    BY DEF NoTextExpected, StopReason
  <2>4. u.end = "empty_response"
          <=> t.end # "raised" /\ ~heard /\ reason \in {"end_turn", "refusal"}
    <3>1. CASE t.end = "raised"
      BY <3>1 DEF Ended
    <3>2. CASE t.end # "raised"
      <4>1. u = Ending(t, reason)
        BY <3>2 DEF Ended
      <4> HIDE DEF u
      <4>2. u.end = IF x \/ reason \in NoTextExpected THEN "message_end" ELSE "empty_response"
        BY <1>9, <4>1 DEF Ending
      <4> QED BY <1>b, <2>3, <3>2, <4>2
    <3> QED BY <3>1, <3>2
  <2> HIDE DEF u
  <2> QED BY <1>8, <1>9, <2>1, <2>2, <2>4
<1> QED BY <1>10 DEF OpenAIIsFaithful, D, call, whole, heard, Indexes

-----------------------------------------------------------------------------
(* What search answers. *)

\* v has each member of S once.
Arranges(v, S) ==
    /\ v \in [1 .. Cardinality(S) -> S]
    /\ \A x \in S : \E n \in 1 .. Cardinality(S) : v[n] = x
    /\ \A m, n \in 1 .. Cardinality(S) : v[m] = v[n] => m = n

LEMMA NothingIsCut ==
    ASSUME NEW S, IsFiniteSet(S), NEW n \in Nat, Cardinality(S) <= n, NEW s \in SetToSeqs(S)
    PROVE  Arranges(SubSeq(s, 1, Least(n, Len(s))), S)
<1> DEFINE N == Cardinality(S)
<1>1. N \in Nat /\ IsFiniteSet(1 .. N) /\ Cardinality(1 .. N) = N
  <2>1. N \in Nat
    BY FS_CardinalityType
  <2> HIDE DEF N
  <2> QED BY <2>1, IntervalCounts
<1>2. s \in [1 .. N -> S] /\ \A i, j \in 1 .. N : s[i] = s[j] => i = j
  BY DEF SetToSeqs
<1>3. s \in Surjection(1 .. N, S)
  <2>1. s \in Injection(1 .. N, S)
    BY <1>2 DEF Injection, IsInjective
  <2> QED BY <1>1, <2>1, FS_Injection
<1>4. SubSeq(s, 1, Least(n, Len(s))) = s
  <2>1. Len(s) = N /\ s \in Seq(S)
    BY <1>1, <1>2
  <2>2. Least(n, N) = N
    BY <1>1 DEF Least
  <2>3. SubSeq(s, 1, Len(s)) = s
    BY <2>1
  <2> QED BY <2>1, <2>2, <2>3
<1>5. \A x \in S : \E m \in 1 .. N : s[m] = x
  BY <1>3 DEF Surjection
<1> QED BY <1>2, <1>4, <1>5 DEF Arranges

\* A query of few enough rows for its arms.
Asked(q) ==
    /\ \E N \in 0 .. 20 : DOMAIN q.rows = 1 .. N
    /\ \A r \in DOMAIN q.rows : q.rows[r].ok \in BOOLEAN
    /\ q.limit \in Nat /\ q.candidates \in Nat /\ q.candidates >= 20

NearRows(q) == {r \in DOMAIN q.rows : Near(q, r)}
KeywordRows(q) == IF AllTerms(q) # {} THEN AllTerms(q) ELSE AnyTerm(q)

LEMMA RowsAreFew ==
    ASSUME NEW q, Asked(q), NEW S \in SUBSET (DOMAIN q.rows)
    PROVE  /\ IsFiniteSet(S) /\ Cardinality(S) \in Nat /\ Cardinality(S) <= 20
           /\ S \in SUBSET Nat
<1>1. PICK N \in 0 .. 20 : DOMAIN q.rows = 1 .. N
  BY DEF Asked
<1>2. IsFiniteSet(1 .. N) /\ Cardinality(1 .. N) = N
  BY IntervalCounts
<1>3. IsFiniteSet(S) /\ Cardinality(S) <= N
  BY <1>1, <1>2, FS_Subset
<1>4. Cardinality(S) \in Nat
  BY <1>3, FS_CardinalityType
<1> QED BY <1>1, <1>3, <1>4

LEMMA ArmsArrange ==
    ASSUME NEW q, Asked(q), NEW v \in VectorArm(q), NEW k \in KeywordArm(q)
    PROVE  Arranges(v, NearRows(q)) /\ Arranges(k, KeywordRows(q))
<1>1. \E s \in SetToSeqs(NearRows(q)) : v = SubSeq(s, 1, Least(q.candidates, Len(s)))
  BY DEF VectorArm, OrderedBy, NearRows
<1>2. \E s \in SetToSeqs(KeywordRows(q)) : k = SubSeq(s, 1, Least(q.candidates, Len(s)))
  BY DEF KeywordArm, OrderedBy, KeywordRows
<1>3. NearRows(q) \in SUBSET (DOMAIN q.rows) /\ KeywordRows(q) \in SUBSET (DOMAIN q.rows)
  BY DEF NearRows, KeywordRows, AllTerms, AnyTerm
<1>4. q.candidates \in Nat /\ q.candidates >= 20
  BY DEF Asked
<1>5. /\ IsFiniteSet(NearRows(q)) /\ Cardinality(NearRows(q)) <= q.candidates
      /\ IsFiniteSet(KeywordRows(q)) /\ Cardinality(KeywordRows(q)) <= q.candidates
  <2>1. /\ IsFiniteSet(NearRows(q)) /\ Cardinality(NearRows(q)) \in Nat
        /\ Cardinality(NearRows(q)) <= 20
        /\ IsFiniteSet(KeywordRows(q)) /\ Cardinality(KeywordRows(q)) \in Nat
        /\ Cardinality(KeywordRows(q)) <= 20
    BY <1>3, RowsAreFew
  <2> QED BY <1>4, <2>1
<1>6. Arranges(v, NearRows(q))
  BY <1>1, <1>4, <1>5, NothingIsCut
<1>7. Arranges(k, KeywordRows(q))
  BY <1>2, <1>4, <1>5, NothingIsCut
<1> QED BY <1>6, <1>7

LEMMA FoundIsRelevant ==
    ASSUME NEW q, NEW r
    PROVE  r \in NearRows(q) \union KeywordRows(q) <=> r \in DOMAIN q.rows /\ Relevant(q, r)
BY DEF NearRows, KeywordRows, AllTerms, AnyTerm, Relevant, Near

\* What a place on a list of up to twenty is worth.
Worth(n) == Scale \div (RRF_K + n)

LEMMA LaterIsWorthLess ==
    /\ \A n \in 1 .. 20 : Worth(n) \in 2900 .. 4000
    /\ \A m, n \in 1 .. 20 : m < n => Worth(n) < Worth(m)
<1>1. /\ Worth(1) = 3906 /\ Worth(2) = 3843 /\ Worth(3) = 3782 /\ Worth(4) = 3722
      /\ Worth(5) = 3665 /\ Worth(6) = 3610 /\ Worth(7) = 3556 /\ Worth(8) = 3503
      /\ Worth(9) = 3453 /\ Worth(10) = 3403
  BY DEF Worth, Scale, RRF_K
<1>2. /\ Worth(11) = 3355 /\ Worth(12) = 3309 /\ Worth(13) = 3263 /\ Worth(14) = 3219
      /\ Worth(15) = 3176 /\ Worth(16) = 3135 /\ Worth(17) = 3094 /\ Worth(18) = 3054
      /\ Worth(19) = 3016 /\ Worth(20) = 2978
  BY DEF Worth, Scale, RRF_K
<1>4. \A n \in 1 .. 20 : \/ n = 1 \/ n = 2 \/ n = 3 \/ n = 4 \/ n = 5 \/ n = 6 \/ n = 7
                         \/ n = 8 \/ n = 9 \/ n = 10 \/ n = 11 \/ n = 12 \/ n = 13 \/ n = 14
                         \/ n = 15 \/ n = 16 \/ n = 17 \/ n = 18 \/ n = 19 \/ n = 20
  OBVIOUS
<1>5. \A n \in 1 .. 20 : Worth(n) \in 2900 .. 4000
  BY <1>1, <1>2, <1>4
<1>6. \A m, n \in 1 .. 20 : m < n => Worth(n) < Worth(m)
  BY <1>1, <1>2, <1>4
<1> QED BY <1>5, <1>6

LEMMA PlacesOnALists ==
    ASSUME NEW S, NEW v, Arranges(v, S), Cardinality(S) \in Nat
    PROVE  /\ ToSet(v) = S
           /\ \A x \in S : /\ RankIn(v, x) \in 1 .. Cardinality(S)
                           /\ Share(v, x) = Worth(RankIn(v, x))
           /\ \A x : x \notin S => Share(v, x) = 0
<1>1. /\ DOMAIN v = 1 .. Cardinality(S) /\ \A n \in DOMAIN v : v[n] \in S
      /\ \A x \in S : \E n \in DOMAIN v : v[n] = x
  BY DEF Arranges
<1>2. ToSet(v) = S
  BY <1>1 DEF ToSet
<1>3. ASSUME NEW x \in S PROVE RankIn(v, x) \in DOMAIN v
  BY <1>1 DEF RankIn
<1> QED BY <1>1, <1>2, <1>3 DEF Share, Worth

\* x is ranked ahead of y.
Ahead(scores, x, y) == scores[x] > scores[y] \/ (scores[x] = scores[y] /\ x < y)

Ranks(order, scores, D) ==
    /\ order \in [1 .. Cardinality(D) -> D]
    /\ \A x \in D : \E n \in 1 .. Cardinality(D) : order[n] = x
    /\ \A m, n \in 1 .. Cardinality(D) : order[m] = order[n] => m = n
    /\ \A m, n \in 1 .. Cardinality(D) : m < n <=> Ahead(scores, order[m], order[n])

LEMMA TopIsRanked ==
    ASSUME NEW scores, scores \in [DOMAIN scores -> Nat], NEW limit \in Nat,
           DOMAIN scores \in SUBSET Nat, IsFiniteSet(DOMAIN scores)
    PROVE  LET D == DOMAIN scores IN
           \E order : /\ Ranks(order, scores, D)
                      /\ TopFused(scores, limit) =
                           [n \in 1 .. Least(limit, Cardinality(D)) |-> order[n]]
<1> DEFINE D == DOMAIN scores
           N == Cardinality(D)
           below == [x \in D |-> {y \in D : Ahead(scores, y, x)}]
           q == [n \in 1 .. N |->
                   CHOOSE x \in D : Cardinality({y \in D : Ahead(scores, y, x)}) = n - 1]
<1>0. D \in SUBSET Nat /\ IsFiniteSet(D) /\ \A x \in D : x \in Nat /\ scores[x] \in Nat
  OBVIOUS
<1>6. TopFused(scores, limit) = SubSeq(q, 1, Least(limit, Len(q)))
  BY DEF TopFused, Ranked, Ahead
<1> HIDE DEF D
<1>1. Chained(D, below)
  <2>1. below \in [D -> SUBSET D] /\ \A x \in D : below[x] = {y \in D : Ahead(scores, y, x)}
    OBVIOUS
  <2>2. ASSUME NEW x \in D
        PROVE  x \notin below[x] /\ \A y \in below[x] : below[y] \subseteq below[x]
    <3>0. x \notin below[x]
      <4>1. ~Ahead(scores, x, x)
        BY <1>0 DEF Ahead
      <4> QED BY <2>1, <4>1
    <3> HIDE DEF below
    <3> SUFFICES ASSUME NEW y \in below[x], NEW z \in below[y] PROVE z \in below[x]
      BY <3>0
    <3>1. y \in D /\ z \in D /\ Ahead(scores, y, x) /\ Ahead(scores, z, y)
      BY <2>1
    <3>2. Ahead(scores, z, x)
      BY <1>0, <3>1 DEF Ahead
    <3> QED BY <2>1, <3>1, <3>2
  <2>3. ASSUME NEW x \in D, NEW y \in D PROVE x = y \/ x \in below[y] \/ y \in below[x]
    BY <1>0, <2>1 DEF Ahead
  <2> HIDE DEF below
  <2> QED BY <1>0, <2>1, <2>2, <2>3 DEF Chained
<1>2. \A x \in D : below[x] = {y \in D : Ahead(scores, y, x)}
  OBVIOUS
<1> HIDE DEF below
<1>3. \A n \in 1 .. N : \E x \in D : Cardinality({y \in D : Ahead(scores, y, x)}) = n - 1
  <2>1. \A n \in 1 .. Cardinality(D) : \E x \in D : Cardinality(below[x]) = n - 1
    BY <1>1, EveryRankIsTaken
  <2> QED BY <1>2, <2>1
<1>4. ASSUME NEW n \in 1 .. N
      PROVE  q[n] \in D /\ Cardinality({y \in D : Ahead(scores, y, q[n])}) = n - 1
  <2>1. q[n] = CHOOSE x \in D : Cardinality({y \in D : Ahead(scores, y, x)}) = n - 1
    OBVIOUS
  <2> HIDE DEF q
  <2> QED BY <1>3, <2>1
<1>5. N \in Nat
  BY <1>0, FS_CardinalityType
<1>7. q \in [1 .. N -> D]
  BY <1>4
<1> HIDE DEF q
<1>8. Lists(q, D, below)
  <2>1. \A n \in 1 .. Cardinality(D) : Cardinality(below[q[n]]) = n - 1
    BY <1>2, <1>4
  <2> QED BY <1>7, <2>1 DEF Lists
<1>9. /\ \A x \in D : \E n \in 1 .. N : q[n] = x
      /\ \A m, n \in 1 .. N : q[m] = q[n] => m = n
      /\ \A m, n \in 1 .. N : m < n <=> q[m] \in below[q[n]]
  BY <1>1, <1>8, ListingIsInOrder
<1>10. Ranks(q, scores, D)
  <2>1. \A m, n \in 1 .. N : m < n <=> Ahead(scores, q[m], q[n])
    BY <1>2, <1>7, <1>9
  <2> QED BY <1>7, <1>9, <2>1 DEF Ranks
<1>11. SubSeq(q, 1, Least(limit, Len(q))) = [n \in 1 .. Least(limit, N) |-> q[n]]
  <2> HIDE DEF N
  <2>1. q \in Seq(D) /\ Len(q) = N
    BY <1>5, <1>7
  <2>2. Least(limit, N) \in 0 .. N
    BY <1>5 DEF Least
  <2> DEFINE L == Least(limit, N)
  <2>3. L \in 0 .. N
    BY <2>2
  <2> HIDE DEF L
  <2>4. SubSeq(q, 1, L) = [n \in 1 .. L |-> q[n]]
    BY <1>5, <2>1, <2>3
  <2> QED BY <2>1, <2>4 DEF L
<1> QED BY <1>6, <1>10, <1>11 DEF D

\* What the shares of a list of up to twenty are.
LEMMA SharesOfAList ==
    ASSUME NEW S, NEW v, Arranges(v, S), Cardinality(S) \in Nat, Cardinality(S) <= 20
    PROVE  /\ ToSet(v) = S
           /\ \A x \in S : Share(v, x) \in 2900 .. 4000
           /\ \A x : x \notin S => Share(v, x) = 0
           /\ \A x, y \in S : RankIn(v, x) < RankIn(v, y) => Share(v, y) < Share(v, x)
<1>1. /\ ToSet(v) = S
      /\ \A x \in S : /\ RankIn(v, x) \in 1 .. Cardinality(S)
                      /\ Share(v, x) = Worth(RankIn(v, x))
      /\ \A x : x \notin S => Share(v, x) = 0
  BY PlacesOnALists
<1>2. 1 .. Cardinality(S) \subseteq 1 .. 20
  OBVIOUS
<1>3. ASSUME NEW x \in S
      PROVE  RankIn(v, x) \in 1 .. 20 /\ Share(v, x) = Worth(RankIn(v, x))
  BY <1>1, <1>2
<1>4. \A n \in 1 .. 20 : Worth(n) \in 2900 .. 4000
  BY LaterIsWorthLess
<1>5. \A m, n \in 1 .. 20 : m < n => Worth(n) < Worth(m)
  BY LaterIsWorthLess
<1>6. ASSUME NEW x \in S PROVE Share(v, x) \in 2900 .. 4000
  <2> DEFINE n == RankIn(v, x)
  <2>1. n \in 1 .. 20 /\ Share(v, x) = Worth(n)
    BY <1>3
  <2> HIDE DEF n
  <2> QED BY <1>4, <2>1
<1>7. ASSUME NEW x \in S, NEW y \in S, RankIn(v, x) < RankIn(v, y)
      PROVE  Share(v, y) < Share(v, x)
  <2> DEFINE m == RankIn(v, x)
             n == RankIn(v, y)
  <2>1. /\ m \in 1 .. 20 /\ Share(v, x) = Worth(m)
        /\ n \in 1 .. 20 /\ Share(v, y) = Worth(n)
        /\ m < n
    BY <1>3, <1>7
  <2> HIDE DEF m, n
  <2> QED BY <1>5, <2>1
<1> QED BY <1>1, <1>6, <1>7

\* Two places are worth more than one, and two better ones than two worse ones.
LEMMA BetterIsWorthMore ==
    ASSUME NEW q, Asked(q), NEW v \in VectorArm(q), NEW k \in KeywordArm(q),
           NEW r \in DOMAIN FuseRRF(v, k), NEW s \in DOMAIN FuseRRF(v, k)
    PROVE  LET scores == FuseRRF(v, k)
               a == [vector |-> v, keyword |-> k]
           IN /\ scores[r] \in Nat
              /\ FoundByMore(a, r, s) \/ AheadOnBoth(a, r, s) => scores[r] > scores[s]
<1> DEFINE a == [vector |-> v, keyword |-> k]
           V == NearRows(q)
           K == KeywordRows(q)
           vr == Share(v, r)
           vs == Share(v, s)
           kr == Share(k, r)
           ks == Share(k, s)
<1>1. Arranges(v, V) /\ Arranges(k, K)
  BY ArmsArrange
<1>2. V \in SUBSET (DOMAIN q.rows) /\ K \in SUBSET (DOMAIN q.rows)
  BY DEF NearRows, KeywordRows, AllTerms, AnyTerm
<1>3. FuseRRF(v, k)[r] = vr + kr /\ FuseRRF(v, k)[s] = vs + ks
  BY DEF FuseRRF
<1>4. r \in ToSet(v) \union ToSet(k) /\ s \in ToSet(v) \union ToSet(k)
  BY DEF FuseRRF
<1> HIDE DEF V, K
<1>5. /\ Cardinality(V) \in Nat /\ Cardinality(V) <= 20
      /\ Cardinality(K) \in Nat /\ Cardinality(K) <= 20
  BY <1>2, RowsAreFew
<1>6. /\ ToSet(v) = V
      /\ \A x \in V : Share(v, x) \in 2900 .. 4000
      /\ \A x : x \notin V => Share(v, x) = 0
      /\ \A x, y \in V : RankIn(v, x) < RankIn(v, y) => Share(v, y) < Share(v, x)
  BY <1>1, <1>5, SharesOfAList
<1>7. /\ ToSet(k) = K
      /\ \A x \in K : Share(k, x) \in 2900 .. 4000
      /\ \A x : x \notin K => Share(k, x) = 0
      /\ \A x, y \in K : RankIn(k, x) < RankIn(k, y) => Share(k, y) < Share(k, x)
  BY <1>1, <1>5, SharesOfAList
<1>8. /\ vr \in 0 .. 4000 /\ vs \in 0 .. 4000
      /\ r \in V => vr >= 2900
      /\ s \notin V => vs = 0
  <2>1. ASSUME NEW x \in V PROVE Share(v, x) \in 0 .. 4000 /\ Share(v, x) >= 2900
    <3> DEFINE n == Share(v, x)
    <3>1. n \in 2900 .. 4000
      BY <1>6
    <3> HIDE DEF n
    <3>2. n \in 0 .. 4000 /\ n >= 2900
      BY <3>1
    <3> QED BY <3>2 DEF n
  <2>2. 0 \in 0 .. 4000
    OBVIOUS
  <2> QED BY <1>6, <2>1, <2>2
<1>9. /\ kr \in 0 .. 4000 /\ ks \in 0 .. 4000
      /\ r \in K => kr >= 2900
      /\ s \notin K => ks = 0
  <2>1. ASSUME NEW x \in K PROVE Share(k, x) \in 0 .. 4000 /\ Share(k, x) >= 2900
    <3> DEFINE n == Share(k, x)
    <3>1. n \in 2900 .. 4000
      BY <1>7
    <3> HIDE DEF n
    <3>2. n \in 0 .. 4000 /\ n >= 2900
      BY <3>1
    <3> QED BY <3>2 DEF n
  <2>2. 0 \in 0 .. 4000
    OBVIOUS
  <2> QED BY <1>7, <2>1, <2>2
<1>10. FoundByMore(a, r, s) => r \in V /\ r \in K /\ (s \notin V \/ s \notin K)
  BY <1>6, <1>7 DEF FoundByMore, OnBoth
<1>11. AheadOnBoth(a, r, s) => vs < vr /\ ks < kr
  <2> SUFFICES ASSUME AheadOnBoth(a, r, s) PROVE vs < vr /\ ks < kr
    OBVIOUS
  <2>1. /\ r \in V /\ r \in K /\ s \in V /\ s \in K
        /\ RankIn(v, r) < RankIn(v, s) /\ RankIn(k, r) < RankIn(k, s)
    BY <1>6, <1>7 DEF AheadOnBoth, OnBoth
  <2> QED BY <1>6, <1>7, <2>1
<1> HIDE DEF vr, vs, kr, ks, a
<1>12. vr + kr \in Nat
  <2>1. vr \in 0 .. 4000 /\ kr \in 0 .. 4000
    BY <1>8, <1>9
  <2> QED BY <2>1
<1>13. FoundByMore(a, r, s) => vr + kr > vs + ks
  <2> SUFFICES ASSUME FoundByMore(a, r, s) PROVE vr + kr > vs + ks
    OBVIOUS
  <2>1. /\ vr \in 0 .. 4000 /\ kr \in 0 .. 4000 /\ vs \in 0 .. 4000 /\ ks \in 0 .. 4000
        /\ vr >= 2900 /\ kr >= 2900 /\ (vs = 0 \/ ks = 0)
    BY SMTT(30), <1>8, <1>9, <1>10
  <2> QED BY <2>1
<1>14. AheadOnBoth(a, r, s) => vr + kr > vs + ks
  <2> SUFFICES ASSUME AheadOnBoth(a, r, s) PROVE vr + kr > vs + ks
    OBVIOUS
  <2>1. /\ vr \in 0 .. 4000 /\ kr \in 0 .. 4000 /\ vs \in 0 .. 4000 /\ ks \in 0 .. 4000
        /\ vs < vr /\ ks < kr
    BY <1>8, <1>9, <1>11
  <2> QED BY <2>1
<1>15. FuseRRF(v, k)[r] \in Nat
  BY <1>3, <1>12
<1>16. FoundByMore(a, r, s) \/ AheadOnBoth(a, r, s) => FuseRRF(v, k)[r] > FuseRRF(v, k)[s]
  BY <1>3, <1>13, <1>14
<1> QED BY <1>15, <1>16 DEF a

(* Whatever rows a query meets, up to the twenty an arm hands on, and whichever *)
(* way its ties fall.  Past three rows Scale rounds a share down; the order of  *)
(* the shares stays strict.                                                     *)
THEOREM AnyAnswerIsSound ==
    ASSUME NEW q, Asked(q), NEW a \in Answers(q)
    PROVE  AnswerIsSound(q, a)
<1>1. PICK v \in VectorArm(q), k \in KeywordArm(q) :
        a = [list |-> TopFused(FuseRRF(v, k), q.limit), vector |-> v, keyword |-> k]
  BY DEF Answers
<1> DEFINE scores == FuseRRF(v, k)
           D == {r \in DOMAIN q.rows : Relevant(q, r)}
           N == Cardinality(D)
           L == Least(q.limit, N)
<1>2. Arranges(v, NearRows(q)) /\ Arranges(k, KeywordRows(q))
  BY ArmsArrange
<1>3. IsFiniteSet(D) /\ N \in Nat /\ D \in SUBSET Nat
  <2>1. D \in SUBSET (DOMAIN q.rows)
    OBVIOUS
  <2> HIDE DEF D
  <2> QED BY <2>1, RowsAreFew
<1>4. DOMAIN scores = D
  <2>1. ToSet(v) = NearRows(q) /\ ToSet(k) = KeywordRows(q)
    <3>1. DOMAIN v = 1 .. Cardinality(NearRows(q)) /\ DOMAIN k = 1 .. Cardinality(KeywordRows(q))
      BY <1>2 DEF Arranges
    <3> QED BY <1>2, <3>1 DEF Arranges, ToSet
  <2>2. DOMAIN scores = ToSet(v) \union ToSet(k)
    BY DEF FuseRRF
  <2>3. \A r : r \in NearRows(q) \union KeywordRows(q) <=> r \in D
    BY FoundIsRelevant
  <2> HIDE DEF D, scores
  <2> QED BY <2>1, <2>2, <2>3
<1>5. \A r \in D : scores[r] \in Nat
  <2> SUFFICES ASSUME NEW r \in D PROVE scores[r] \in Nat
    OBVIOUS
  <2>1. r \in DOMAIN FuseRRF(v, k)
    BY <1>4
  <2> HIDE DEF D
  <2> QED BY <2>1, BetterIsWorthMore
<1>6. scores \in [DOMAIN scores -> Nat]
  <2>1. scores = [r \in DOMAIN scores |-> scores[r]]
    BY DEF FuseRRF
  <2> HIDE DEF scores, D
  <2> QED BY <1>4, <1>5, <2>1
<1>7. q.limit \in Nat
  BY DEF Asked
<1> HIDE DEF scores, D
<1>8. PICK order : /\ Ranks(order, scores, D)
                   /\ TopFused(scores, q.limit) = [n \in 1 .. L |-> order[n]]
  <2>1. \E order : /\ Ranks(order, scores, DOMAIN scores)
                   /\ TopFused(scores, q.limit) =
                        [n \in 1 .. Least(q.limit, Cardinality(DOMAIN scores)) |-> order[n]]
    BY <1>3, <1>4, <1>6, <1>7, TopIsRanked
  <2> QED BY <1>4, <2>1
<1> DEFINE list == a.list
<1>9. list = [n \in 1 .. L |-> order[n]] /\ a.vector = v /\ a.keyword = k
  BY <1>1, <1>8 DEF scores
<1> HIDE DEF list, N
<1>10. L \in 0 .. N
  BY <1>3, <1>7 DEF Least, N
<1>11. /\ \A n \in 1 .. N : order[n] \in D
       /\ \A x \in D : \E n \in 1 .. N : order[n] = x
       /\ \A m, n \in 1 .. N : order[m] = order[n] => m = n
       /\ \A m, n \in 1 .. N : m < n <=> Ahead(scores, order[m], order[n])
  BY <1>8 DEF Ranks, N
<1> HIDE DEF L
<1>12. /\ DOMAIN list = 1 .. L /\ \A n \in 1 .. L : n \in 1 .. N /\ list[n] = order[n]
  BY <1>3, <1>9, <1>10
<1>13. IsInjective(list)
  BY <1>11, <1>12 DEF IsInjective
<1>14. \A r \in ToSet(list) : Relevant(q, r)
  <2>1. ToSet(list) \subseteq D
    BY <1>11, <1>12 DEF ToSet
  <2> QED BY <2>1 DEF D
<1>15. Len(list) = L
  <2>1. L \in Nat
    BY <1>3, <1>10
  <2> QED BY <1>9, <2>1
<1>16. ASSUME NEW r \in DOMAIN q.rows, NEW s \in DOMAIN q.rows,
              FoundByMore(a, r, s) \/ AheadOnBoth(a, r, s), s \in ToSet(list)
       PROVE  Precedes(list, r, s)
  <2> DEFINE b == [vector |-> v, keyword |-> k]
  <2>1. r \in D /\ s \in D
    <3>1. r \in ToSet(v) \union ToSet(k) /\ s \in ToSet(v) \union ToSet(k)
      BY <1>9, <1>16 DEF FoundByMore, AheadOnBoth, OnBoth
    <3> QED BY <1>4, <3>1 DEF scores, FuseRRF
  <2>2. FoundByMore(b, r, s) \/ AheadOnBoth(b, r, s)
    BY <1>9, <1>16 DEF FoundByMore, AheadOnBoth, OnBoth
  <2>3. scores[r] > scores[s]
    <3>1. r \in DOMAIN FuseRRF(v, k) /\ s \in DOMAIN FuseRRF(v, k)
      BY <1>4, <2>1 DEF scores
    <3> HIDE DEF b
    <3>2. FoundByMore(b, r, s) \/ AheadOnBoth(b, r, s) => FuseRRF(v, k)[r] > FuseRRF(v, k)[s]
      BY <3>1, BetterIsWorthMore DEF b
    <3> QED BY <2>2, <3>2 DEF scores
  <2>4. PICK n \in 1 .. L : list[n] = s
    BY <1>12, <1>16 DEF ToSet
  <2>5. PICK m \in 1 .. N : order[m] = r
    BY <1>11, <2>1
  <2>6. n \in 1 .. N /\ order[n] = s
    BY <1>12, <2>4
  <2>7. m < n
    BY <1>11, <2>3, <2>5, <2>6 DEF Ahead
  <2>8. m \in 1 .. L /\ list[m] = r
    <3>1. m \in 1 .. L
      BY <1>3, <1>10, <2>7
    <3> QED BY <1>12, <2>5, <3>1
  <2>9. RankIn(list, r) = m /\ RankIn(list, s) = n
    <3>1. \A i, j \in 1 .. L : list[i] = list[j] => i = j
      BY <1>11, <1>12
    <3> QED BY <1>12, <2>4, <2>8, <3>1 DEF RankIn
  <2>10. r \in ToSet(list)
    BY <1>12, <2>8 DEF ToSet
  <2> QED BY <2>7, <2>9, <2>10 DEF Precedes
<1> QED BY <1>13, <1>14, <1>15, <1>16 DEF AnswerIsSound, list, L, N, D

-----------------------------------------------------------------------------
(* What the state machine asks are questions of the kinds above. *)

Packable(doc, target, percent) ==
    doc \in Seq(Seq(Nat)) /\ target \in Nat /\ percent \in Nat

AnyBlockEvent == UNION {BlockEvents(n) : n \in Nat}
AnyDelta == UNION {Deltas(n) : n \in Nat}

Answerable ==
    /\ "family" \in DOMAIN asked
    /\ asked.family = "chunks" => Packable(asked.doc, asked.target, asked.percent)
    /\ asked.family = "grants" => asked.tools \in ToolTables
    /\ asked.family = "score" =>
         Gradable(asked.c) /\ asked.o.error \in BOOLEAN /\ Heard(asked.j)
    /\ asked.family = "search" => Asked(asked.q)
    /\ asked.family = "file" => \E V : asked.file.lines \in Seq(V)
    /\ asked.family = "anthropic" => "wire" \in DOMAIN asked /\ asked.wire \in Seq(AnyBlockEvent)
    /\ asked.family = "openai" => "wire" \in DOMAIN asked /\ asked.wire \in Seq(AnyDelta)

LEMMA KindsOfRows ==
    ASSUME NEW ranks, NEW k \in RowKinds(ranks)
    PROVE  k.ok \in BOOLEAN
<1> DEFINE row(d, e) == [ok |-> TRUE, dist |-> d, all |-> e[1], any |-> e[2]]
           alike == {row(d, e) : d \in {1, 2, 4, NoVector}, e \in ranks}
           hidden == [ok |-> FALSE, dist |-> 1, all |-> 2, any |-> 2]
<1>1. RowKinds(ranks) = alike \union {hidden}
  BY DEF RowKinds
<1>2. hidden.ok \in BOOLEAN
  OBVIOUS
<1>3. \A d, e : row(d, e).ok \in BOOLEAN
  OBVIOUS
<1> HIDE DEF row, hidden
<1>4. \A x \in alike : x.ok \in BOOLEAN
  BY <1>3
<1> HIDE DEF alike
<1> QED BY <1>1, <1>2, <1>4

LEMMA QueriesAreAsked ==
    ASSUME NEW rows \in Corpora, NEW n \in Limits, NEW distance, NEW floor
    PROVE  Asked(KnowledgeQuery(rows, n, floor)) /\ Asked(ProductQuery(rows, n, distance, floor))
<1>1. DOMAIN rows = 1 .. 3 /\ \A r \in 1 .. 3 : rows[r].ok \in BOOLEAN
  <2>1. ASSUME NEW ranks, rows \in [1 .. 3 -> RowKinds(ranks)]
        PROVE  DOMAIN rows = 1 .. 3 /\ \A r \in 1 .. 3 : rows[r].ok \in BOOLEAN
    <3>1. \A k \in RowKinds(ranks) : k.ok \in BOOLEAN
      BY KindsOfRows
    <3> DEFINE kinds == RowKinds(ranks)
    <3>2. rows \in [1 .. 3 -> kinds] /\ \A k \in kinds : k.ok \in BOOLEAN
      BY <2>1, <3>1
    <3> HIDE DEF kinds
    <3>3. DOMAIN rows = 1 .. 3 /\ \A r \in 1 .. 3 : rows[r] \in kinds
      BY <3>2
    <3> QED BY <3>2, <3>3
  <2> QED BY <2>1 DEF Corpora
<1>2. n \in Int
  BY SizesAssumption
<1>3. Clamped(n, 10) \in Nat /\ Clamped(n, 20) \in Nat
  BY <1>2 DEF Clamped, Greatest, Least
<1>4. Asked(KnowledgeQuery(rows, n, floor))
  BY <1>1, <1>3 DEF Asked, KnowledgeQuery
<1>5. Asked(ProductQuery(rows, n, distance, floor))
  <2> DEFINE limit == Clamped(n, 20)
             wide == Greatest(4 * limit, 20)
  <2>1. limit \in Nat
    BY <1>3
  <2> HIDE DEF limit
  <2>2. wide \in Nat /\ wide >= 20
    BY <2>1 DEF Greatest
  <2> DEFINE q == ProductQuery(rows, n, distance, floor)
  <2>3. q.rows = rows /\ q.limit = limit /\ q.candidates = wide
    BY DEF ProductQuery, limit
  <2> HIDE DEF wide, q
  <2>4. \E N \in 0 .. 20 : DOMAIN q.rows = 1 .. N
    BY <1>1, <2>3
  <2>5. \A r \in DOMAIN q.rows : q.rows[r].ok \in BOOLEAN
    BY <1>1, <2>3
  <2>6. Asked(q)
    BY <2>1, <2>2, <2>3, <2>4, <2>5 DEF Asked
  <2> QED BY <2>6 DEF q
<1> QED BY <1>4, <1>5

LEMMA FilesHaveLines == \A f \in Files(LineBound) : \E V : f.lines \in Seq(V)
<1> SUFFICES ASSUME NEW f \in Files(LineBound) PROVE \E V : f.lines \in Seq(V)
  OBVIOUS
<1>1. PICK t \in Formats :
        f \in [format : {t}, lines : UNION {[1 .. k -> LinesOf(t)] : k \in 0 .. LineBound}]
  BY DEF Files
<1>2. PICK k \in 0 .. LineBound : f.lines \in [1 .. k -> LinesOf(t)]
  BY <1>1
<1>3. k \in Nat
  BY <1>2, BoundsAssumption
<1> QED BY <1>2, <1>3, FunctionIsSeq

LEMMA EvalCasesAreGradable == \A c \in EvalCases : Gradable(c)
<1> SUFFICES ASSUME NEW c \in EvalCases PROVE Gradable(c)
  OBVIOUS
<1>1. /\ c.phrases \in SUBSET {"p1", "p2"} /\ c.documents \in SUBSET {"d1"}
      /\ c.products \in SUBSET {"q1"} /\ c.reference \in BOOLEAN
      /\ c.tools \in {<<>>, <<"t1">>, <<"t1", "t2">>, <<"t1", "t1">>}
  BY DEF EvalCases
<1>2. Expects(c)
  BY DEF EvalCases, Expects
<1>3. IsFiniteSet({"p1", "p2"}) /\ IsFiniteSet({"d1"}) /\ IsFiniteSet({"q1"})
  <2>1. IsFiniteSet({"p1"}) /\ IsFiniteSet({"d1"}) /\ IsFiniteSet({"q1"})
    BY FS_Singleton
  <2>2. IsFiniteSet({"p1"} \cup {"p2"}) /\ {"p1", "p2"} = {"p1"} \cup {"p2"}
    BY <2>1, FS_AddElement
  <2> QED BY <2>1, <2>2
<1>4. IsFiniteSet(c.phrases) /\ IsFiniteSet(c.documents) /\ IsFiniteSet(c.products)
  BY <1>1, <1>3, FS_Subset
<1>5. c.tools \in Seq(ToSet(c.tools))
  <2>1. PICK m \in Nat : DOMAIN c.tools = 1 .. m /\ c.tools = [n \in 1 .. m |-> c.tools[n]]
    BY <1>1
  <2>2. \A n \in 1 .. m : c.tools[n] \in ToSet(c.tools)
    BY <2>1 DEF ToSet
  <2>3. c.tools \in [1 .. m -> ToSet(c.tools)]
    BY <2>1, <2>2
  <2> QED BY <2>1, <2>3, FunctionIsSeq
<1> QED BY <1>1, <1>2, <1>4, <1>5 DEF Gradable

LEMMA AnswerableAlways == Spec => []Answerable
<1>1. Init => Answerable
  BY DEF Init, Answerable
<1>2. Answerable /\ [Next]_asked => Answerable'
  <2> SUFFICES ASSUME Answerable, [Next]_asked PROVE Answerable'
    OBVIOUS
  <2>1. CASE UNCHANGED asked
    BY <2>1 DEF Answerable
  <2>2. CASE AskAnthropic
    <3>1. CASE Idle
      <4>1. asked' = [family |-> "anthropic", wire |-> <<>>]
        BY <2>2, <3>1 DEF AskAnthropic, Idle
      <4> QED BY <4>1 DEF Answerable
    <3>2. CASE ~Idle
      <4>1. /\ asked.family = "anthropic"
            /\ \E e \in BlockEvents(Len(asked.wire) + 1) :
                 asked' = [asked EXCEPT !.wire = Append(asked.wire, e)]
        BY <2>2, <3>2 DEF AskAnthropic
      <4>2. asked.wire \in Seq(AnyBlockEvent)
        BY <4>1 DEF Answerable
      <4>3. PICK e \in BlockEvents(Len(asked.wire) + 1) :
              asked' = [asked EXCEPT !.wire = Append(asked.wire, e)]
        BY <4>1
      <4>4. Len(asked.wire) + 1 \in Nat
        BY <4>2
      <4>5. e \in AnyBlockEvent
        BY <4>4 DEF AnyBlockEvent
      <4> DEFINE longer == Append(asked.wire, e)
      <4>6. longer \in Seq(AnyBlockEvent)
        BY <4>2, <4>5
      <4> HIDE DEF longer
      <4>7. "family" \in DOMAIN asked' /\ asked'.family = "anthropic"
        BY <4>1, <4>3 DEF Answerable
      <4>8. "wire" \in DOMAIN asked' /\ asked'.wire = longer
        BY <4>1, <4>3 DEF Answerable, longer
      <4> QED BY <4>6, <4>7, <4>8 DEF Answerable
    <3> QED BY <3>1, <3>2
  <2>3. CASE AskOpenAI
    <3>1. CASE Idle
      <4>1. asked' = [family |-> "openai", wire |-> <<>>]
        BY <2>3, <3>1 DEF AskOpenAI, Idle
      <4> QED BY <4>1 DEF Answerable
    <3>2. CASE ~Idle
      <4>1. /\ asked.family = "openai"
            /\ \E e \in Deltas(Len(asked.wire) + 1) :
                 asked' = [asked EXCEPT !.wire = Append(asked.wire, e)]
        BY <2>3, <3>2 DEF AskOpenAI
      <4>2. asked.wire \in Seq(AnyDelta)
        BY <4>1 DEF Answerable
      <4>3. PICK e \in Deltas(Len(asked.wire) + 1) :
              asked' = [asked EXCEPT !.wire = Append(asked.wire, e)]
        BY <4>1
      <4>4. Len(asked.wire) + 1 \in Nat
        BY <4>2
      <4>5. e \in AnyDelta
        BY <4>4 DEF AnyDelta
      <4> DEFINE longer == Append(asked.wire, e)
      <4>6. longer \in Seq(AnyDelta)
        BY <4>2, <4>5
      <4> HIDE DEF longer
      <4>7. "family" \in DOMAIN asked' /\ asked'.family = "openai"
        BY <4>1, <4>3 DEF Answerable
      <4>8. "wire" \in DOMAIN asked' /\ asked'.wire = longer
        BY <4>1, <4>3 DEF Answerable, longer
      <4> QED BY <4>6, <4>7, <4>8 DEF Answerable
    <3> QED BY <3>1, <3>2
  <2>4. CASE AskSearch
    <3>1. PICK q : Asked(q) /\ asked' = [family |-> "search", q |-> q]
      <4>1. PICK rows \in Corpora, n \in Limits :
              \/ \E floor \in {0, 2} :
                   asked' = [family |-> "search", q |-> KnowledgeQuery(rows, n, floor)]
              \/ \E distance \in {NoFloor, 3}, floor \in {NoFloor, 2} :
                   asked' = [family |-> "search", q |-> ProductQuery(rows, n, distance, floor)]
        BY <2>4 DEF AskSearch
      <4> QED BY <4>1, QueriesAreAsked
    <3> QED BY <3>1 DEF Answerable
  <2>8. CASE AskFile
    <3>1. PICK f \in Files(LineBound) : asked' = [family |-> "file", file |-> f]
      BY <2>8 DEF AskFile
    <3>2. \E V : f.lines \in Seq(V)
      BY FilesHaveLines
    <3> QED BY <3>1, <3>2 DEF Answerable
  <2>5. CASE AskChunks
    <3>1. PICK doc \in Documents, t \in Targets, p \in Overlaps :
             asked' = [family |-> "chunks", doc |-> doc, target |-> t, percent |-> p]
      BY <2>5 DEF AskChunks
    <3>2. Packable(doc, t, p)
      BY DocumentsAreSections, SizesAssumption DEF Packable
    <3> QED BY <3>1, <3>2 DEF Answerable
  <2>6. CASE AskGrants
    BY <2>6 DEF AskGrants, Answerable
  <2>7. CASE AskScore
    <3>1. PICK c \in EvalCases, o \in Observations, j \in Judges :
             asked' = [family |-> "score", c |-> c, o |-> o, j |-> j]
      BY <2>7 DEF AskScore
    <3>2. Gradable(c)
      BY EvalCasesAreGradable
    <3>3. o.error \in BOOLEAN
      BY DEF Observations
    <3>4. Heard(j)
      BY DEF Judges, Heard
    <3> QED BY <3>1, <3>2, <3>3, <3>4 DEF Answerable
  <2> QED BY <2>1, <2>2, <2>3, <2>4, <2>5, <2>6, <2>7, <2>8 DEF Next
<1> QED BY <1>1, <1>2, PTL DEF Spec

(* The chunks of a document cover it as they should, whatever the targets and  *)
(* the overlaps, and every batch size embeds each of them once.                *)
THEOREM ChunksCover == Spec => []ChunksTileTheText
<1>1. Answerable => ChunksTileTheText
  <2> SUFFICES ASSUME Answerable, asked.family = "chunks",
                      NEW chunks \in {ChunkDocument(asked.doc, asked.target, asked.percent)}
               PROVE  /\ ChunksTile(asked.doc, chunks, asked.target, asked.percent)
                      /\ \A size \in 1 .. 3 : BatchesCover(chunks, size)
    BY DEF ChunksTileTheText
  <2>1. asked.doc \in Seq(Seq(Nat)) /\ asked.target \in Nat /\ asked.percent \in Nat
    BY DEF Answerable, Packable
  <2>2. ChunksTile(asked.doc, chunks, asked.target, asked.percent)
    BY <2>1, AnyDocumentIsTiled
  <2>3. chunks \in Seq(Chunk)
    BY <2>1, ChunksAreASeq
  <2>4. \A size \in 1 .. 3 : size \in Nat \ {0}
    OBVIOUS
  <2> QED BY <2>2, <2>3, <2>4, AnyBatchesCover
<1> QED BY <1>1, AnswerableAlways, PTL

(* The dashboard, its toggle, chat and MCP agree on what an agent may call.     *)
THEOREM GrantsAgree == Spec => []GrantsFollowTheToggle
<1>1. Answerable => GrantsFollowTheToggle
  BY GrantsAreAlwaysSound DEF Answerable, GrantsFollowTheToggle
<1> QED BY <1>1, AnswerableAlways, PTL

(* A case passes exactly if its turn met what it expects, and a cost that is    *)
(* known is that of the usage rows.                                             *)
THEOREM VerdictsEarned == Spec => []VerdictsAreEarned
<1>1. Answerable => VerdictsAreEarned
  <2> SUFFICES ASSUME Answerable, asked.family = "score"
               PROVE  /\ VerdictIsEarned(asked.c, asked.o, asked.j)
                      /\ \A turn \in TurnUsages, priced \in BOOLEAN :
                            CostIsBilled(asked.c, asked.o, asked.j, turn, priced)
    BY DEF VerdictsAreEarned
  <2>1. Gradable(asked.c) /\ asked.o.error \in BOOLEAN /\ Heard(asked.j)
    BY DEF Answerable
  <2> QED BY <2>1, AnyVerdictIsEarned, AnyCostIsBilled
<1> QED BY <1>1, AnswerableAlways, PTL

(* Every filled line of the file is imported or reported, once, and of the rows *)
(* of one external_id the last one.                                             *)
THEOREM LinesAccounted == Spec => []LinesAreAccountedFor
<1>1. Answerable => LinesAreAccountedFor
  <2> SUFFICES ASSUME Answerable, asked.family = "file"
               PROVE  EveryLineIsAccountedFor(asked.file)
    BY DEF LinesAreAccountedFor
  <2>1. PICK V : asked.file.lines \in Seq(V)
    BY DEF Answerable
  <2> QED BY <2>1, AnyFileIsAccountedFor
<1> QED BY <1>1, AnswerableAlways, PTL

(* An adapter delivers exactly the calls its wire made, however they mingle.    *)
THEOREM CallsWhole == Spec => []CallsAreWhole
<1>1. Answerable => CallsAreWhole
  <2> SUFFICES ASSUME Answerable PROVE CallsAreWhole
    OBVIOUS
  <2>1. ASSUME asked.family = "anthropic" PROVE AnthropicIsFaithful(asked.wire)
    <3> DEFINE wire == asked.wire
    <3>1. wire \in Seq(AnyBlockEvent)
      BY <2>1 DEF Answerable
    <3>2. \A e \in AnyBlockEvent : e.type \in BlockTypes
      BY DEF AnyBlockEvent, BlockEvents, BlockTypes
    <3> HIDE DEF wire
    <3>3. /\ Len(wire) \in Nat /\ DOMAIN wire = 1 .. Len(wire)
          /\ \A n \in 1 .. Len(wire) : wire[n].type \in BlockTypes
      BY <3>1, <3>2
    <3>4. AnthropicIsFaithful(wire)
      BY <3>3, AnyBlocksAreWhole
    <3> QED BY <3>4 DEF wire
  <2>2. ASSUME asked.family = "openai" PROVE OpenAIIsFaithful(asked.wire)
    <3> DEFINE wire == asked.wire
    <3>1. wire \in Seq(AnyDelta)
      BY <2>2 DEF Answerable
    <3>2. \A e \in AnyDelta : e.type \in {"delta", "text"}
      BY DEF AnyDelta, Deltas
    <3>a. \A e \in AnyDelta : e.type = "delta" => e.index \in Nat
      BY DEF AnyDelta, Deltas
    <3> HIDE DEF wire
    <3>3. /\ Len(wire) \in Nat /\ DOMAIN wire = 1 .. Len(wire)
          /\ \A n \in 1 .. Len(wire) : wire[n] \in AnyDelta
      BY <3>1
    <3>4. \A n \in 1 .. Len(wire) : wire[n].type \in {"delta", "text"}
      BY <3>2, <3>3
    <3>5. \A n \in 1 .. Len(wire) : wire[n].type = "delta" => wire[n].index \in Nat
      BY <3>a, <3>3
    <3>6. OpenAIIsFaithful(wire)
      BY <3>3, <3>4, <3>5, AnyDeltasAreWhole
    <3> QED BY <3>6 DEF wire
  <2> QED BY <2>1, <2>2 DEF CallsAreWhole
<1> QED BY <1>1, AnswerableAlways, PTL

(* Every answer of the two search services holds only rows the query admits,    *)
(* each once and as many as the limit lets in, and no row is kept behind one it *)
(* beats on both lists, or one that is on a single list while it is on both     *)
(* (fuse_rrf and top_fused in core/rrf.py).                                     *)
THEOREM AnswersSound == Spec => []AnswersAreSound
<1>1. Answerable => AnswersAreSound
  BY AnyAnswerIsSound DEF Answerable, AnswersAreSound
<1> QED BY <1>1, AnswerableAlways, PTL

=============================================================================
