-------------------------- MODULE CollectionsProofs --------------------------
(***************************************************************************)
(* TLAPS proofs about Collections: what is chosen from a sequence, and how *)
(* sums over finite sets are taken apart.  Induction is over the naturals  *)
(* and over finite sets, each as membership of a set.                      *)
(***************************************************************************)
EXTENDS Collections, FiniteSetTheorems, WellFoundedInduction, TLAPS

(* The least number of a set, and from it induction over the naturals.     *)
LEMMA LessInRelation == \A m, n \in Nat : m < n => <<m, n>> \in OpToRel(<, Nat)
BY SMT DEF OpToRel

LEMMA LeastNumber ==
    ASSUME NEW T, T \subseteq Nat, T # {}
    PROVE  \E m \in T : \A n \in T : ~(n < m)
<1>1. PICK m \in T : \A n \in T : ~(<<n, m>> \in OpToRel(<, Nat))
  BY NatLessThanWellFounded, WFMin
<1>2. QED BY <1>1, LessInRelation

LEMMA NatInSet ==
    ASSUME NEW S, 0 \in S, \A n \in Nat : n \in S => n + 1 \in S
    PROVE  Nat \subseteq S
<1> SUFFICES ASSUME NEW x \in Nat \ S PROVE FALSE
  OBVIOUS
<1>1. PICK m \in Nat \ S : \A n \in Nat \ S : ~(n < m)
  BY LeastNumber
<1>2. m - 1 \in Nat /\ m - 1 \in S
  BY <1>1
<1>3. QED BY <1>1, <1>2

(* The recursive function of Chosen, which is defined.                     *)
Collects(f, s, keep, top) ==
    f = [n \in 0..top |->
            IF n = 0 THEN <<>> ELSE IF n \in keep THEN Append(f[n - 1], s[n]) ELSE f[n - 1]]
Collected(s, keep) == CHOOSE f : Collects(f, s, keep, Len(s))

LEMMA CollectedDefined ==
    ASSUME NEW s, Len(s) \in Nat, NEW keep
    PROVE  Collects(Collected(s, keep), s, keep, Len(s))
<1> DEFINE S == {n \in Nat : \E f : Collects(f, s, keep, n)}
<1>1. 0 \in S
  <2>1. Collects([n \in 0..0 |-> <<>>], s, keep, 0)
    BY DEF Collects
  <2>2. QED BY <2>1
<1>2. ASSUME NEW n \in Nat, n \in S PROVE n + 1 \in S
  <2>1. PICK f : Collects(f, s, keep, n)
    BY <1>2
  <2> DEFINE more == IF n + 1 \in keep THEN Append(f[n], s[n + 1]) ELSE f[n]
             g == [m \in 0..(n + 1) |-> IF m <= n THEN f[m] ELSE more]
  <2>2. ASSUME NEW m \in 0..(n + 1)
        PROVE  g[m] = IF m = 0 THEN <<>>
                      ELSE IF m \in keep THEN Append(g[m - 1], s[m]) ELSE g[m - 1]
    <3>1. CASE m <= n
      <4>1. f[m] = IF m = 0 THEN <<>>
                   ELSE IF m \in keep THEN Append(f[m - 1], s[m]) ELSE f[m - 1]
        <5>1. m \in 0..n
          BY <3>1
        <5>2. QED BY <2>1, <5>1 DEF Collects
      <4>2. QED BY <3>1, <4>1
    <3>2. CASE m = n + 1
      BY <3>2
    <3>3. QED BY <3>1, <3>2
  <2>3. Collects(g, s, keep, n + 1)
    BY <2>2 DEF Collects
  <2> HIDE DEF g
  <2>4. QED BY <2>3
<1>3. Len(s) \in S
  <2> HIDE DEF S
  <2>1. Nat \subseteq S
    BY <1>1, <1>2, NatInSet
  <2>2. QED BY <2>1
<1>4. \E f : Collects(f, s, keep, Len(s))
  BY <1>3
<1>5. QED BY <1>4, Zenon DEF Collected

LEMMA ChosenIsCollected == \A s, keep : Chosen(s, keep) = Collected(s, keep)[Len(s)]
BY Zenon DEF Chosen, Collected, Collects

(* A strictly increasing choice of positions up to n, all those of keep.   *)
Selects(c, s, keep, n) ==
    \E pos \in [1..Len(c) -> 1..n] :
        /\ \A i \in 1..Len(c) : pos[i] \in keep /\ c[i] = s[pos[i]]
        /\ \A i, j \in 1..Len(c) : i < j => pos[i] < pos[j]
        /\ \A m \in 1..n : m \in keep => \E i \in 1..Len(c) : pos[i] = m

LEMMA ChosenSelects ==
    ASSUME NEW R, NEW s \in Seq(R), NEW keep
    PROVE  Chosen(s, keep) \in Seq(R) /\ Selects(Chosen(s, keep), s, keep, Len(s))
<1> DEFINE F == Collected(s, keep)
           Good(n) == F[n] \in Seq(R) /\ Selects(F[n], s, keep, n)
           S == {n \in Nat : n <= Len(s) => Good(n)}
<1>1. Len(s) \in Nat
  OBVIOUS
<1>2. /\ F[0] = <<>>
      /\ \A n \in Nat : n + 1 <= Len(s) =>
            F[n + 1] = IF n + 1 \in keep THEN Append(F[n], s[n + 1]) ELSE F[n]
  <2>1. Collects(F, s, keep, Len(s))
    BY <1>1, CollectedDefined
  <2> HIDE DEF F
  <2>2. \A n \in 0..Len(s) : F[n] =
          IF n = 0 THEN <<>> ELSE IF n \in keep THEN Append(F[n - 1], s[n]) ELSE F[n - 1]
    BY <2>1 DEF Collects
  <2>3. F[0] = <<>>
    BY <1>1, <2>2
  <2>4. ASSUME NEW n \in Nat, n + 1 <= Len(s)
        PROVE  F[n + 1] = IF n + 1 \in keep THEN Append(F[n], s[n + 1]) ELSE F[n]
    <3>1. n + 1 \in 0..Len(s) /\ n + 1 # 0 /\ (n + 1) - 1 = n
      BY <1>1, <2>4
    <3>2. QED BY <2>2, <3>1
  <2>5. QED BY <2>3, <2>4
<1> HIDE DEF F
<1>3. 0 \in S
  <2>1. <<>> \in Seq(R) /\ Len(<<>>) = 0
    OBVIOUS
  <2>2. Selects(<<>>, s, keep, 0)
    <3> DEFINE pos == [i \in 1..0 |-> i]
    <3>1. pos \in [1..Len(<<>>) -> 1..0] /\ 1..Len(<<>>) = {} /\ 1..0 = {}
      BY <2>1
    <3> HIDE DEF pos
    <3>2. QED BY <3>1, Zenon DEF Selects
  <2>3. QED BY <1>2, <2>1, <2>2
<1>4. ASSUME NEW n \in Nat, n \in S PROVE n + 1 \in S
  <2> SUFFICES ASSUME n + 1 <= Len(s) PROVE Good(n + 1)
    OBVIOUS
  <2> DEFINE c == F[n]
  <2>1. c \in Seq(R) /\ Selects(c, s, keep, n) /\ s[n + 1] \in R
    BY <1>1, <1>4
  <2>2. PICK pos \in [1..Len(c) -> 1..n] :
          /\ \A i \in 1..Len(c) : pos[i] \in keep /\ c[i] = s[pos[i]]
          /\ \A i, j \in 1..Len(c) : i < j => pos[i] < pos[j]
          /\ \A m \in 1..n : m \in keep => \E i \in 1..Len(c) : pos[i] = m
    BY <2>1 DEF Selects
  <2>3. CASE n + 1 \notin keep
    <3>1. F[n + 1] = c
      BY <1>2, <2>3
    <3> HIDE DEF c
    <3>2. pos \in [1..Len(c) -> 1..(n + 1)]
      BY <2>2
    <3>3. \A m \in 1..(n + 1) : m \in keep => \E i \in 1..Len(c) : pos[i] = m
      BY <2>2, <2>3
    <3>4. Selects(c, s, keep, n + 1)
      BY <2>2, <3>2, <3>3 DEF Selects
    <3>5. QED BY <2>1, <3>1, <3>4
  <2>4. CASE n + 1 \in keep
    <3> DEFINE d == Append(c, s[n + 1])
               len == Len(c)
               more == [i \in 1..(len + 1) |-> IF i <= len THEN pos[i] ELSE n + 1]
    <3>1. F[n + 1] = d
      BY <1>2, <2>4
    <3> HIDE DEF c
    <3>2. /\ d \in Seq(R) /\ Len(d) = len + 1 /\ len \in Nat
          /\ \A i \in 1..len : d[i] = c[i]
          /\ d[len + 1] = s[n + 1]
      BY <2>1
    <3> HIDE DEF d, len
    <3>3. pos \in [1..len -> 1..n]
      BY <2>2 DEF len
    <3>4. more \in [1..(len + 1) -> 1..(n + 1)]
      BY <3>2, <3>3
    <3>5. /\ \A i \in 1..len : more[i] = pos[i] /\ pos[i] \in 1..n
          /\ more[len + 1] = n + 1
      BY <3>2, <3>3
    <3> HIDE DEF more
    <3>6. ASSUME NEW i \in 1..(len + 1) PROVE more[i] \in keep /\ d[i] = s[more[i]]
      BY <2>2, <2>4, <3>2, <3>5 DEF len
    <3>7. ASSUME NEW i \in 1..(len + 1), NEW j \in 1..(len + 1), i < j
          PROVE  more[i] < more[j]
      <4>1. i \in 1..len
        BY <3>2, <3>7
      <4>2. CASE j \in 1..len
        BY <2>2, <3>5, <3>7, <4>1, <4>2 DEF len
      <4>3. CASE j = len + 1
        BY <3>5, <4>1, <4>3
      <4>4. QED BY <3>2, <4>2, <4>3
    <3>8. ASSUME NEW m \in 1..(n + 1), m \in keep
          PROVE  \E i \in 1..(len + 1) : more[i] = m
      <4>1. CASE m \in 1..n
        <5>1. PICK i \in 1..len : pos[i] = m
          BY <2>2, <3>8, <4>1 DEF len
        <5>2. i \in 1..(len + 1) /\ more[i] = m
          BY <3>2, <3>5, <5>1
        <5>3. QED BY <5>2
      <4>2. CASE m = n + 1
        BY <3>2, <3>5, <4>2
      <4>3. QED BY <4>1, <4>2
    <3>9. Selects(d, s, keep, n + 1)
      <4>1. /\ more \in [1..Len(d) -> 1..(n + 1)]
            /\ \A i \in 1..Len(d) : more[i] \in keep /\ d[i] = s[more[i]]
            /\ \A i, j \in 1..Len(d) : i < j => more[i] < more[j]
            /\ \A m \in 1..(n + 1) : m \in keep => \E i \in 1..Len(d) : more[i] = m
        BY <3>2, <3>4, <3>6, <3>7, <3>8
      <4>2. QED BY <4>1, Zenon DEF Selects
    <3>10. QED BY <3>1, <3>2, <3>9
  <2>5. QED BY <2>3, <2>4
<1>5. Good(Len(s))
  <2> HIDE DEF S
  <2>1. Nat \subseteq S
    BY <1>3, <1>4, NatInSet
  <2> USE DEF S
  <2> HIDE DEF Good
  <2>2. QED BY <1>1, <2>1
<1>6. QED BY <1>5, ChosenIsCollected DEF F

(* The positions of a choice.                                              *)
Increases(pos, len) == \A i, j \in 1..len : i < j => pos[i] < pos[j]

LEMMA PlacesSelect ==
    ASSUME NEW R, NEW s \in Seq(R), NEW keep
    PROVE  /\ Places(s, keep) \in Seq(1..Len(s)) /\ Len(Places(s, keep)) \in Nat
           /\ \A i \in 1..Len(Places(s, keep)) :
                Places(s, keep)[i] \in keep /\ Places(s, keep)[i] \in 1..Len(s)
           /\ Increases(Places(s, keep), Len(Places(s, keep)))
           /\ \A m \in 1..Len(s) : m \in keep =>
                \E i \in 1..Len(Places(s, keep)) : Places(s, keep)[i] = m
<1> DEFINE all == [i \in DOMAIN s |-> i]
           p == Places(s, keep)
<1>1. all \in Seq(1..Len(s)) /\ Len(all) = Len(s) /\ Len(s) \in Nat /\ \A i \in 1..Len(s) : all[i] = i
  OBVIOUS
<1>2. p = Chosen(all, keep)
  BY DEF Places
<1> HIDE DEF all, p
<1>3. p \in Seq(1..Len(s)) /\ Selects(p, all, keep, Len(s))
  BY <1>1, <1>2, ChosenSelects
<1>4. PICK pos \in [1..Len(p) -> 1..Len(s)] :
        /\ \A i \in 1..Len(p) : pos[i] \in keep /\ p[i] = all[pos[i]]
        /\ \A i, j \in 1..Len(p) : i < j => pos[i] < pos[j]
        /\ \A m \in 1..Len(s) : m \in keep => \E i \in 1..Len(p) : pos[i] = m
  BY <1>3 DEF Selects
<1>5. \A i \in 1..Len(p) : p[i] = pos[i] /\ pos[i] \in 1..Len(s)
  BY <1>1, <1>4
<1>6. Len(p) \in Nat
  BY <1>3
<1>7. QED BY <1>3, <1>4, <1>5, <1>6 DEF p, Increases

LEMMA Spread ==
    ASSUME NEW len \in Nat, NEW n \in Nat, NEW pos \in [1..len -> 1..n], Increases(pos, len)
    PROVE  \A i, j \in 1..len : i <= j => j - i <= pos[j] - pos[i]
<1> SUFFICES ASSUME NEW i \in 1..len
             PROVE  \A j \in 1..len : i <= j => j - i <= pos[j] - pos[i]
  OBVIOUS
<1> DEFINE S == {k \in Nat : i + k <= len => k <= pos[i + k] - pos[i]}
<1>1. 0 \in S
  OBVIOUS
<1>2. ASSUME NEW k \in Nat, k \in S PROVE k + 1 \in S
  <2> SUFFICES ASSUME i + (k + 1) <= len PROVE k + 1 <= pos[i + (k + 1)] - pos[i]
    OBVIOUS
  <2>1. i + k \in 1..len /\ i + (k + 1) \in 1..len /\ i + k < i + (k + 1)
    OBVIOUS
  <2>2. pos[i + k] < pos[i + (k + 1)] /\ pos[i + k] \in Int /\ pos[i + (k + 1)] \in Int /\ pos[i] \in Int
    BY <2>1 DEF Increases
  <2>3. k <= pos[i + k] - pos[i]
    BY <1>2, <2>1
  <2>4. QED BY <2>2, <2>3
<1> HIDE DEF S
<1>3. Nat \subseteq S
  BY <1>1, <1>2, NatInSet
<1>4. ASSUME NEW j \in 1..len, i <= j PROVE j - i <= pos[j] - pos[i]
  <2>1. j - i \in Nat /\ i + (j - i) = j /\ i + (j - i) <= len
    BY <1>4
  <2>2. QED BY <1>3, <2>1 DEF S
<1>5. QED BY <1>4

(* A finite set of numbers without gaps above a number is an interval.     *)
LEMMA NoGaps ==
    ASSUME NEW i \in Nat, NEW n \in Nat, NEW J, J \subseteq (i + 1)..n,
           \A k \in J : (i + 1)..k \subseteq J
    PROVE  J # {} => J = (i + 1)..(i + Cardinality(J)) /\ i + Cardinality(J) <= n
<1> SUFFICES ASSUME J # {} PROVE J = (i + 1)..(i + Cardinality(J)) /\ i + Cardinality(J) <= n
  OBVIOUS
<1> DEFINE T == {n - k : k \in J}
<1>1. \A k \in J : n - k \in Nat
  OBVIOUS
<1>2. T \subseteq Nat /\ T # {}
  BY <1>1
<1> HIDE DEF T
<1>3. PICK t \in T : \A u \in T : ~(u < t)
  BY <1>2, LeastNumber
<1>4. PICK m \in J : t = n - m
  BY DEF T
<1>5. ASSUME NEW k \in J PROVE k <= m
  <2>1. n - k \in T
    BY DEF T
  <2>2. ~(n - k < n - m) /\ k \in Int /\ m \in Int
    BY <1>3, <1>4, <2>1
  <2>3. QED BY <2>2
<1>6. J = (i + 1)..m
  <2>1. ASSUME NEW k \in J PROVE k \in (i + 1)..m
    <3>1. k <= m /\ k \in (i + 1)..n /\ m \in (i + 1)..n
      BY <1>5
    <3>2. QED BY <3>1
  <2>2. (i + 1)..m \subseteq J
    OBVIOUS
  <2>3. QED BY <2>1, <2>2
<1>7. Cardinality((i + 1)..m) = m - i
  <2>1. i + 1 \in Int /\ m \in Int /\ i + 1 <= m
    OBVIOUS
  <2>2. Cardinality((i + 1)..m) = IF i + 1 > m THEN 0 ELSE m - (i + 1) + 1
    BY <2>1, FS_Interval
  <2>3. QED BY <2>1, <2>2
<1>8. m \in (i + 1)..n
  OBVIOUS
<1>9. J = (i + 1)..(i + (m - i)) /\ i + (m - i) <= n
  BY <1>6, <1>8
<1>10. Cardinality(J) = m - i
  BY <1>6, <1>7
<1>11. QED BY <1>9, <1>10
-----------------------------------------------------------------------------
(* Induction over the subsets of a finite set.                             *)
LEMMA FiniteInSet ==
    ASSUME NEW S, IsFiniteSet(S), NEW P, {} \in P,
           \A T \in SUBSET S : \A x \in S \ T : T \in P => T \cup {x} \in P
    PROVE  S \in P
<1> DEFINE N == {n \in Nat : \A T \in SUBSET S : Cardinality(T) = n => T \in P}
<1>1. 0 \in N
  <2>1. ASSUME NEW T \in SUBSET S, Cardinality(T) = 0 PROVE T \in P
    <3>1. IsFiniteSet(T)
      BY FS_Subset
    <3>2. T = {}
      BY <2>1, <3>1, FS_EmptySet
    <3>3. QED BY <3>2
  <2>2. QED BY <2>1
<1>2. ASSUME NEW n \in Nat, n \in N PROVE n + 1 \in N
  <2>1. ASSUME NEW T \in SUBSET S, Cardinality(T) = n + 1 PROVE T \in P
    <3>1. IsFiniteSet(T) /\ T # {}
      BY <2>1, FS_Subset, FS_EmptySet
    <3>2. PICK x : x \in T
      BY <3>1
    <3>3. Cardinality(T \ {x}) = n
      <4>1. Cardinality(T \ {x}) = Cardinality(T) - 1
        BY <3>1, <3>2, FS_RemoveElement
      <4>2. QED BY <2>1, <4>1
    <3>4. T \ {x} \in P /\ T \ {x} \in SUBSET S
      BY <1>2, <3>3
    <3>5. (T \ {x}) \cup {x} \in P
      BY <3>2, <3>4
    <3>6. (T \ {x}) \cup {x} = T
      BY <3>2
    <3>7. QED BY <3>5, <3>6
  <2>2. QED BY <2>1
<1> HIDE DEF N
<1>3. Nat \subseteq N
  BY <1>1, <1>2, NatInSet
<1>4. Cardinality(S) \in N
  BY <1>3, FS_CardinalityType
<1>5. QED BY <1>4 DEF N

LEMMA ImageFinite ==
    ASSUME NEW S, IsFiniteSet(S), NEW f
    PROVE  /\ IsFiniteSet({f[x] : x \in S})
           /\ Cardinality({f[x] : x \in S}) <= Cardinality(S)
<1> DEFINE T == {f[x] : x \in S}
           g == [x \in S |-> f[x]]
<1>1. g \in Surjection(S, T)
  BY DEF Surjection
<1> HIDE DEF g
<1>2. QED BY <1>1, FS_Surjection

LEMMA NumbersFinite == \A n \in Nat : IsFiniteSet(1..n) /\ Cardinality(1..n) = n
<1> SUFFICES ASSUME NEW n \in Nat PROVE IsFiniteSet(1..n) /\ Cardinality(1..n) = n
  OBVIOUS
<1>1. IsFiniteSet(1..n) /\ Cardinality(1..n) = IF 1 > n THEN 0 ELSE n - 1 + 1
  BY FS_Interval
<1>2. QED BY <1>1

(* A sum of naturals counts points: f[x] of them in the column of x.       *)
Column(f, x) == {x} \X (1..f[x])
Points(f, T) == UNION {Column(f, x) : x \in T}
Naturals(f, S) == \A x \in S : f[x] \in Nat

LEMMA ColumnSize ==
    ASSUME NEW f, NEW x, f[x] \in Nat
    PROVE  IsFiniteSet(Column(f, x)) /\ Cardinality(Column(f, x)) = f[x]
<1>1. IsFiniteSet({x}) /\ Cardinality({x}) = 1
  BY FS_Singleton
<1>2. IsFiniteSet(1..f[x]) /\ Cardinality(1..f[x]) = f[x]
  BY FS_Interval
<1>3. /\ IsFiniteSet(Column(f, x))
      /\ Cardinality(Column(f, x)) = Cardinality({x}) * Cardinality(1..f[x])
  BY <1>1, <1>2, FS_Product DEF Column
<1>4. QED BY <1>1, <1>2, <1>3

LEMMA PointsStep ==
    ASSUME NEW f, NEW T, NEW x, x \notin T, f[x] \in Nat, IsFiniteSet(Points(f, T))
    PROVE  /\ IsFiniteSet(Points(f, T \cup {x}))
           /\ Cardinality(Points(f, T \cup {x})) = f[x] + Cardinality(Points(f, T))
<1>1. Points(f, T \cup {x}) = Column(f, x) \cup Points(f, T)
  BY DEF Points
<1>2. Column(f, x) \cap Points(f, T) = {}
  BY DEF Points, Column
<1>3. IsFiniteSet(Column(f, x)) /\ Cardinality(Column(f, x)) = f[x]
  BY ColumnSize
<1>4. /\ IsFiniteSet(Column(f, x) \cup Points(f, T))
      /\ Cardinality(Column(f, x) \cup Points(f, T))
           = Cardinality(Column(f, x)) + Cardinality(Points(f, T))
              - Cardinality(Column(f, x) \cap Points(f, T))
  BY <1>3, FS_Union
<1>5. Cardinality(Column(f, x) \cap Points(f, T)) = 0 /\ Cardinality(Points(f, T)) \in Nat
  <2>1. Cardinality({}) = 0
    BY FS_EmptySet
  <2>2. Cardinality(Points(f, T)) \in Nat
    BY FS_CardinalityType
  <2>3. QED BY <1>2, <2>1, <2>2, Zenon
<1>6. Cardinality(Points(f, T \cup {x})) = f[x] + Cardinality(Points(f, T))
  <2> DEFINE all == Cardinality(Points(f, T \cup {x}))
             pts == Cardinality(Points(f, T))
             col == Cardinality(Column(f, x))
             both == Cardinality(Column(f, x) \cap Points(f, T))
  <2>1. all = col + pts - both
    BY <1>1, <1>4, Zenon
  <2>2. col = f[x] /\ both = 0 /\ pts \in Nat
    BY <1>3, <1>5, Zenon
  <2> HIDE DEF all, pts, col, both
  <2>3. all = f[x] + pts
    BY <2>1, <2>2
  <2>4. QED BY <2>3, Zenon DEF all, pts
<1>7. QED BY <1>1, <1>4, <1>6, Zenon

LEMMA PointsFinite ==
    ASSUME NEW S, IsFiniteSet(S), NEW f, Naturals(f, S)
    PROVE  \A T \in SUBSET S : IsFiniteSet(Points(f, T))
<1> SUFFICES ASSUME NEW S2 \in SUBSET S PROVE IsFiniteSet(Points(f, S2))
  OBVIOUS
<1> DEFINE P == {T \in SUBSET S2 : IsFiniteSet(Points(f, T))}
<1>1. {} \in P
  <2>1. Points(f, {}) = {}
    BY DEF Points
  <2>2. QED BY <2>1, FS_EmptySet
<1>2. ASSUME NEW T \in SUBSET S2, NEW x \in S2 \ T, T \in P PROVE T \cup {x} \in P
  BY <1>2, PointsStep DEF Naturals
<1>3. IsFiniteSet(S2)
  BY FS_Subset
<1> HIDE DEF P
<1>4. S2 \in P
  BY <1>1, <1>2, <1>3, FiniteInSet
<1>5. QED BY <1>4 DEF P

(* The recursive function of Total, which is defined.                      *)
Sums(g, f, S) ==
    g = [T \in SUBSET S |->
            IF T = {} THEN 0 ELSE LET x == CHOOSE y \in T : TRUE IN f[x] + g[T \ {x}]]

LEMMA TotalIsPoints ==
    ASSUME NEW S, IsFiniteSet(S), NEW f, Naturals(f, S)
    PROVE  Total(f, S) = Cardinality(Points(f, S))
<1> DEFINE g == [T \in SUBSET S |-> Cardinality(Points(f, T))]
           sum == CHOOSE h : Sums(h, f, S)
<1>1. ASSUME NEW T \in SUBSET S
      PROVE  g[T] = IF T = {} THEN 0 ELSE LET x == CHOOSE y \in T : TRUE IN f[x] + g[T \ {x}]
  <2>1. CASE T = {}
    <3>1. Points(f, {}) = {}
      BY DEF Points
    <3>2. QED BY <2>1, <3>1, FS_EmptySet
  <2>2. CASE T # {}
    <3> DEFINE x == CHOOSE y \in T : TRUE
    <3>1. x \in T
      BY <2>2
    <3> HIDE DEF x
    <3>2. IsFiniteSet(Points(f, T \ {x})) /\ f[x] \in Nat /\ T \ {x} \in SUBSET S
      BY <3>1, PointsFinite DEF Naturals
    <3>3. Cardinality(Points(f, (T \ {x}) \cup {x})) = f[x] + Cardinality(Points(f, T \ {x}))
      BY <3>2, PointsStep
    <3>4. (T \ {x}) \cup {x} = T
      BY <3>1
    <3>5. g[T] = f[x] + g[T \ {x}]
      BY <3>2, <3>3, <3>4
    <3>6. QED BY <2>2, <3>5 DEF x
  <2>3. QED BY <2>1, <2>2
<1>2. Sums(g, f, S)
  BY <1>1 DEF Sums
<1> HIDE DEF g
<1>3. Sums(sum, f, S)
  BY <1>2
<1>4. Total(f, S) = sum[S]
  BY Zenon DEF Total, Sums
<1> HIDE DEF sum
<1>5. \A T \in SUBSET S :
        sum[T] = IF T = {} THEN 0 ELSE LET x == CHOOSE y \in T : TRUE IN f[x] + sum[T \ {x}]
  BY <1>3 DEF Sums
<1> DEFINE N == {n \in Nat : \A T \in SUBSET S :
                   Cardinality(T) = n => sum[T] = Cardinality(Points(f, T))}
<1>6. 0 \in N
  <2>1. ASSUME NEW T \in SUBSET S, Cardinality(T) = 0 PROVE sum[T] = Cardinality(Points(f, T))
    <3>1. T = {}
      BY <2>1, FS_Subset, FS_EmptySet
    <3>2. Points(f, {}) = {}
      BY DEF Points
    <3>3. QED BY <1>5, <3>1, <3>2, FS_EmptySet
  <2>2. QED BY <2>1
<1>7. ASSUME NEW n \in Nat, n \in N PROVE n + 1 \in N
  <2>1. ASSUME NEW T \in SUBSET S, Cardinality(T) = n + 1
        PROVE  sum[T] = Cardinality(Points(f, T))
    <3> DEFINE x == CHOOSE y \in T : TRUE
    <3>1. IsFiniteSet(T) /\ T # {}
      BY <2>1, FS_Subset, FS_EmptySet
    <3>2. x \in T
      BY <3>1
    <3>3. sum[T] = f[x] + sum[T \ {x}]
      BY <1>5, <3>1
    <3> HIDE DEF x
    <3>4. Cardinality(T \ {x}) = n
      <4>1. Cardinality(T \ {x}) = Cardinality(T) - 1
        BY <3>1, <3>2, FS_RemoveElement
      <4>2. QED BY <2>1, <4>1
    <3>5. sum[T \ {x}] = Cardinality(Points(f, T \ {x}))
      BY <1>7, <3>4
    <3>6. IsFiniteSet(Points(f, T \ {x})) /\ f[x] \in Nat
      BY <3>2, PointsFinite DEF Naturals
    <3>7. Cardinality(Points(f, (T \ {x}) \cup {x})) = f[x] + Cardinality(Points(f, T \ {x}))
      BY <3>6, PointsStep
    <3>8. (T \ {x}) \cup {x} = T
      BY <3>2
    <3>9. QED BY <3>3, <3>5, <3>7, <3>8
  <2>2. QED BY <2>1
<1> HIDE DEF N
<1>8. Cardinality(S) \in N
  BY <1>6, <1>7, NatInSet, FS_CardinalityType
<1>9. sum[S] = Cardinality(Points(f, S))
  BY <1>8 DEF N
<1>10. QED BY <1>4, <1>9

LEMMA TotalType ==
    ASSUME NEW S, IsFiniteSet(S), NEW f, Naturals(f, S)
    PROVE  Total(f, S) \in Nat
BY TotalIsPoints, PointsFinite, FS_CardinalityType

LEMMA TotalEmpty == \A f : Total(f, {}) = 0
<1> SUFFICES ASSUME NEW f PROVE Total(f, {}) = 0
  OBVIOUS
<1>1. IsFiniteSet({}) /\ Cardinality({}) = 0 /\ Points(f, {}) = {} /\ Naturals(f, {})
  BY FS_EmptySet DEF Points, Naturals
<1>2. QED BY <1>1, TotalIsPoints

LEMMA TotalMore ==
    ASSUME NEW S, IsFiniteSet(S), NEW f, Naturals(f, S), NEW x, x \notin S, f[x] \in Nat
    PROVE  Total(f, S \cup {x}) = Total(f, S) + f[x]
<1>1. IsFiniteSet(S \cup {x}) /\ Naturals(f, S \cup {x})
  BY FS_AddElement DEF Naturals
<1>2. IsFiniteSet(Points(f, S))
  BY PointsFinite
<1>3. /\ Total(f, S \cup {x}) = Cardinality(Points(f, S \cup {x}))
      /\ Total(f, S) = Cardinality(Points(f, S))
  BY <1>1, TotalIsPoints
<1>4. Cardinality(Points(f, S)) \in Nat
  BY <1>2, FS_CardinalityType
<1>5. QED BY <1>2, <1>3, <1>4, PointsStep

LEMMA TotalSame ==
    ASSUME NEW S, IsFiniteSet(S), NEW f, NEW g, Naturals(f, S), \A x \in S : f[x] = g[x]
    PROVE  Total(f, S) = Total(g, S)
<1>1. Naturals(g, S)
  BY DEF Naturals
<1>2. \A x \in S : Column(f, x) = Column(g, x)
  BY DEF Column
<1>3. Points(f, S) = Points(g, S)
  BY <1>2 DEF Points
<1>4. QED BY <1>1, <1>3, TotalIsPoints
LEMMA TotalWithout ==
    ASSUME NEW S, IsFiniteSet(S), NEW f, Naturals(f, S), NEW x \in S
    PROVE  Total(f, S) = Total(f, S \ {x}) + f[x]
<1>1. IsFiniteSet(S \ {x}) /\ Naturals(f, S \ {x}) /\ f[x] \in Nat
  BY FS_Subset DEF Naturals
<1>2. (S \ {x}) \cup {x} = S
  OBVIOUS
<1>3. Total(f, (S \ {x}) \cup {x}) = Total(f, S \ {x}) + f[x]
  BY <1>1, TotalMore
<1>4. QED BY <1>2, <1>3

(* Sums are linear.                                                        *)
LEMMA TotalPlus ==
    ASSUME NEW S, IsFiniteSet(S), NEW f, NEW g, NEW h, Naturals(f, S), Naturals(g, S),
           \A x \in S : h[x] = f[x] + g[x]
    PROVE  Total(h, S) = Total(f, S) + Total(g, S)
<1> DEFINE P == {T \in SUBSET S : Total(h, T) = Total(f, T) + Total(g, T)}
<1>1. {} \in P
  BY TotalEmpty
<1>2. ASSUME NEW T \in SUBSET S, NEW x \in S \ T, T \in P PROVE T \cup {x} \in P
  <2>1. /\ IsFiniteSet(T) /\ Naturals(f, T) /\ Naturals(g, T) /\ Naturals(h, T)
        /\ f[x] \in Nat /\ g[x] \in Nat /\ h[x] = f[x] + g[x] /\ h[x] \in Nat
    BY FS_Subset DEF Naturals
  <2>2. /\ Total(f, T \cup {x}) = Total(f, T) + f[x]
        /\ Total(g, T \cup {x}) = Total(g, T) + g[x]
        /\ Total(h, T \cup {x}) = Total(h, T) + h[x]
    BY <2>1, TotalMore
  <2>3. Total(f, T) \in Nat /\ Total(g, T) \in Nat
    BY <2>1, TotalType
  <2>4. Total(h, T \cup {x}) = Total(f, T \cup {x}) + Total(g, T \cup {x})
    BY <1>2, <2>1, <2>2, <2>3
  <2>5. QED BY <2>4
<1> HIDE DEF P
<1>3. S \in P
  BY <1>1, <1>2, FiniteInSet
<1>4. QED BY <1>3 DEF P

LEMMA TotalTimes ==
    ASSUME NEW S, IsFiniteSet(S), NEW f, NEW h, Naturals(f, S), NEW c \in Nat,
           \A x \in S : h[x] = c * f[x]
    PROVE  Total(h, S) = c * Total(f, S)
<1> DEFINE P == {T \in SUBSET S : Total(h, T) = c * Total(f, T)}
<1>1. {} \in P
  BY TotalEmpty
<1>2. ASSUME NEW T \in SUBSET S, NEW x \in S \ T, T \in P PROVE T \cup {x} \in P
  <2>1. /\ IsFiniteSet(T) /\ Naturals(f, T) /\ f[x] \in Nat /\ h[x] = c * f[x]
    BY FS_Subset DEF Naturals
  <2>2. \A y \in S : c * f[y] \in Nat
    BY DEF Naturals
  <2>3. Naturals(h, T) /\ h[x] \in Nat
    BY <2>2 DEF Naturals
  <2>4. /\ Total(f, T \cup {x}) = Total(f, T) + f[x]
        /\ Total(h, T \cup {x}) = Total(h, T) + h[x]
    BY <2>1, <2>3, TotalMore
  <2>5. Total(f, T) \in Nat
    BY <2>1, TotalType
  <2>6. \A a, b \in Nat : c * (a + b) = c * a + c * b
    OBVIOUS
  <2>7. c * (Total(f, T) + f[x]) = c * Total(f, T) + c * f[x]
    BY <2>1, <2>5, <2>6
  <2>8. QED BY <1>2, <2>1, <2>4, <2>7
<1> HIDE DEF P
<1>3. S \in P
  BY <1>1, <1>2, FiniteInSet
<1>4. QED BY <1>3 DEF P

LEMMA TotalOnes ==
    ASSUME NEW S, IsFiniteSet(S), NEW f, \A x \in S : f[x] = 1
    PROVE  Total(f, S) = Cardinality(S)
<1> DEFINE P == {T \in SUBSET S : Total(f, T) = Cardinality(T)}
<1>1. {} \in P
  BY TotalEmpty, FS_EmptySet
<1>2. ASSUME NEW T \in SUBSET S, NEW x \in S \ T, T \in P PROVE T \cup {x} \in P
  <2>1. IsFiniteSet(T) /\ Naturals(f, T) /\ f[x] = 1
    BY FS_Subset DEF Naturals
  <2>2. Total(f, T \cup {x}) = Total(f, T) + f[x]
    BY <2>1, TotalMore
  <2>3. Cardinality(T \cup {x}) = Cardinality(T) + 1
    BY <2>1, FS_AddElement
  <2>4. QED BY <1>2, <2>1, <2>2, <2>3
<1> HIDE DEF P
<1>3. S \in P
  BY <1>1, <1>2, FiniteInSet
<1>4. QED BY <1>3 DEF P

(* A sum is the sum of its groups' sums.                                   *)
GroupOf(key, S, k) == {x \in S : key[x] = k}

LEMMA TotalGroups ==
    ASSUME NEW S, IsFiniteSet(S), NEW K, IsFiniteSet(K), NEW f, Naturals(f, S),
           NEW key, \A x \in S : key[x] \in K,
           NEW g, \A k \in K : g[k] = Total(f, GroupOf(key, S, k))
    PROVE  Total(f, S) = Total(g, K)
<1> DEFINE G(T) == [k \in K |-> Total(f, GroupOf(key, T, k))]
           P == {T \in SUBSET S : Total(f, T) = Total(G(T), K)}
<1>1. ASSUME NEW T \in SUBSET S PROVE Naturals(G(T), K)
  <2>1. ASSUME NEW k \in K PROVE IsFiniteSet(GroupOf(key, T, k)) /\ Naturals(f, GroupOf(key, T, k))
    BY FS_Subset DEF GroupOf, Naturals
  <2>2. \A k \in K : Total(f, GroupOf(key, T, k)) \in Nat
    BY <2>1, TotalType
  <2>3. QED BY <2>2 DEF Naturals
<1>2. {} \in P
  <2>1. \A k \in K : GroupOf(key, {}, k) = {}
    BY DEF GroupOf
  <2>2. \A k \in K : G({})[k] = 0
    BY <2>1, TotalEmpty
  <2>3. Naturals(G({}), K)
    BY <1>1
  <2> HIDE DEF G
  <2>4. \A k \in K : G({})[k] = 0 * [j \in K |-> 0][k]
    BY <2>2
  <2>5. Naturals([j \in K |-> 0], K)
    BY DEF Naturals
  <2>6. Total(G({}), K) = 0 * Total([j \in K |-> 0], K)
    BY <2>4, <2>5, TotalTimes
  <2>7. Total([j \in K |-> 0], K) \in Nat
    BY <2>5, TotalType
  <2>8. Total(G({}), K) = 0
    BY <2>6, <2>7
  <2>9. QED BY <2>8, TotalEmpty
<1>3. ASSUME NEW T \in SUBSET S, NEW x \in S \ T, T \in P PROVE T \cup {x} \in P
  <2> DEFINE c == key[x]
             U == T \cup {x}
  <2>1. c \in K /\ U \in SUBSET S /\ IsFiniteSet(T) /\ Naturals(f, T) /\ f[x] \in Nat
    BY FS_Subset DEF Naturals
  <2>2. /\ GroupOf(key, U, c) = GroupOf(key, T, c) \cup {x} /\ x \notin GroupOf(key, T, c)
        /\ \A k \in K \ {c} : GroupOf(key, U, k) = GroupOf(key, T, k)
    BY DEF GroupOf
  <2>3. IsFiniteSet(GroupOf(key, T, c)) /\ Naturals(f, GroupOf(key, T, c))
    BY <2>1, FS_Subset DEF GroupOf, Naturals
  <2>4. Total(f, GroupOf(key, U, c)) = Total(f, GroupOf(key, T, c)) + f[x]
    <3>1. Total(f, GroupOf(key, T, c) \cup {x}) = Total(f, GroupOf(key, T, c)) + f[x]
      BY <2>1, <2>2, <2>3, TotalMore
    <3>2. QED BY <2>2, <3>1, Zenon
  <2>5. G(U)[c] = G(T)[c] + f[x] /\ \A k \in K \ {c} : G(U)[k] = G(T)[k]
    <3>1. G(U)[c] = Total(f, GroupOf(key, U, c)) /\ G(T)[c] = Total(f, GroupOf(key, T, c))
      BY <2>1
    <3>2. \A k \in K \ {c} : /\ G(U)[k] = Total(f, GroupOf(key, U, k))
                            /\ G(T)[k] = Total(f, GroupOf(key, T, k))
      BY <2>1
    <3>3. \A k \in K \ {c} : Total(f, GroupOf(key, U, k)) = Total(f, GroupOf(key, T, k))
      BY <2>2, Zenon
    <3> HIDE DEF G, U, c
    <3>4. G(U)[c] = G(T)[c] + f[x]
      BY <2>4, <3>1
    <3>5. QED BY <3>2, <3>3, <3>4
  <2>6. Naturals(G(U), K) /\ Naturals(G(T), K)
    BY <1>1, <2>1
  <2>7. Total(f, T) = Total(G(T), K) /\ Total(f, U) = Total(f, T) + f[x]
    BY <1>3, <2>1, TotalMore
  <2> HIDE DEF G, c
  <2>8. /\ Total(G(U), K) = Total(G(U), K \ {c}) + G(U)[c]
        /\ Total(G(T), K) = Total(G(T), K \ {c}) + G(T)[c]
    BY <2>1, <2>6, TotalWithout
  <2>9. Total(G(U), K \ {c}) = Total(G(T), K \ {c}) /\ Total(G(T), K \ {c}) \in Nat
    <3>1. IsFiniteSet(K \ {c}) /\ Naturals(G(U), K \ {c}) /\ Naturals(G(T), K \ {c})
      BY <2>6, FS_Subset DEF Naturals
    <3>2. QED BY <2>5, <3>1, TotalSame, TotalType
  <2>10. G(T)[c] \in Nat
    BY <2>1, <2>6 DEF Naturals
  <2>11. Total(f, U) = Total(G(U), K)
    <3> DEFINE tf == Total(f, T)
               uf == Total(f, U)
               ug == Total(G(U), K)
               tg == Total(G(T), K)
               ur == Total(G(U), K \ {c})
               tr == Total(G(T), K \ {c})
               uc == G(U)[c]
               tc == G(T)[c]
    <3>1. /\ tf = tg /\ uf = tf + f[x] /\ ug = ur + uc /\ tg = tr + tc
          /\ ur = tr /\ tr \in Nat /\ uc = tc + f[x] /\ tc \in Nat /\ f[x] \in Nat
      BY <2>1, <2>5, <2>7, <2>8, <2>9, <2>10
    <3> HIDE DEF tf, uf, ug, tg, ur, tr, uc, tc
    <3>2. uf = ug
      BY <3>1
    <3>3. QED BY <3>2 DEF uf, ug
  <2>12. QED BY <2>1, <2>11
<1>4. S \in P
  <2> HIDE DEF P
  <2>1. QED BY <1>2, <1>3, FiniteInSet
<1>5. Total(f, S) = Total(G(S), K)
  BY <1>4
<1>6. \A k \in K : G(S)[k] = g[k]
  OBVIOUS
<1>7. Naturals(G(S), K)
  BY <1>1
<1> HIDE DEF G
<1>8. QED BY <1>5, <1>6, <1>7, TotalSame

(* Values below a bound add up to less than as many times it.              *)
LEMMA TotalBelow ==
    ASSUME NEW S, IsFiniteSet(S), NEW f, Naturals(f, S), NEW v \in Nat, \A x \in S : f[x] <= v
    PROVE  Total(f, S) <= Cardinality(S) * v
<1> DEFINE P == {T \in SUBSET S : Total(f, T) <= Cardinality(T) * v}
<1>1. {} \in P
  BY TotalEmpty, FS_EmptySet
<1>2. ASSUME NEW T \in SUBSET S, NEW x \in S \ T, T \in P PROVE T \cup {x} \in P
  <2>1. IsFiniteSet(T) /\ Naturals(f, T) /\ f[x] \in Nat /\ f[x] <= v
    BY FS_Subset DEF Naturals
  <2>2. Total(f, T \cup {x}) = Total(f, T) + f[x] /\ Total(f, T) \in Nat
    BY <2>1, TotalMore, TotalType
  <2>3. Cardinality(T \cup {x}) = Cardinality(T) + 1 /\ Cardinality(T) \in Nat
    BY <2>1, FS_AddElement, FS_CardinalityType
  <2>4. \A n \in Nat : (n + 1) * v = n * v + v /\ n * v \in Nat
    OBVIOUS
  <2>5. Total(f, T) + f[x] <= Cardinality(T) * v + v
    BY <1>2, <2>1, <2>2, <2>3, <2>4
  <2>6. QED BY <2>2, <2>3, <2>4, <2>5
<1> HIDE DEF P
<1>3. S \in P
  BY <1>1, <1>2, FiniteInSet
<1>4. QED BY <1>3 DEF P
=============================================================================
