----------------------------- MODULE GatewayProofs -----------------------------
(***************************************************************************)
(* TLAPS proofs about Gateway, for any keys, quotas, clock resolution,     *)
(* number of slots and tables.                                             *)
(***************************************************************************)
EXTENDS Gateway, FiniteSetTheorems, WellFoundedInduction, TLAPS

Row == Range(Tables)

Request == [pc : {"none", "upsert", "start", "run", "mark", "abandoned", "delete"},
            kind : Kinds \cup {"-"}, todo : Seq(Row), gone : SUBSET Row,
            spoilt : BOOLEAN]

LimiterTypeOK ==
    /\ time \in Now
    /\ DOMAIN buckets \subseteq Ids
    /\ \A b \in DOMAIN buckets : buckets[b] \in [tokens : Nat, last : 0..time]
    /\ admitted \in [Ids -> [Now -> Nat]]
    /\ promise \in [Ids -> Nat \cup {None}]

RunsTypeOK ==
    /\ request \in [1..Requests -> Request]
    /\ slots \in Nat /\ listed \in BOOLEAN /\ rows \subseteq Row

(* The limiter and the requests it lets through have their types.          *)
GatewayTypeOK == LimiterTypeOK /\ RunsTypeOK

(* The tokens a bucket would offer now; one that is not kept is full.      *)
Level(b) == IF b \in DOMAIN buckets THEN Refilled(b) ELSE Capacity(b)

Rate(b) == Quota[b[1]].requests

(* What was let through since any moment and what is still offered come    *)
(* out of a full bucket and the refill since; nothing was let through in   *)
(* the future.                                                             *)
Budget ==
    \A b \in Ids :
        /\ \A since \in 0..time :
              Passed(b, since) * Whole(b) + Level(b) <= Capacity(b) + (time - since) * Rate(b)
        /\ \A t \in Now : t > time => admitted[b][t] = 0

(* A kept bucket holds a whole token by the time it was promised for.      *)
Promised ==
    \A b \in DOMAIN buckets :
        promise[b] # None =>
            buckets[b].tokens + (promise[b] - buckets[b].last) * Rate(b) >= Whole(b)

Holders == {r \in DOMAIN request : Holds(r)}

SlotsHeld == IsFiniteSet(Holders) /\ slots = Cardinality(Holders)

(* What a deletion has not reached yet, it still has to do.                *)
DeletionsSound ==
    \A r \in DOMAIN request :
        At(r, "delete") =>
            /\ request[r].kind = "delete"
            /\ request[r].spoilt \/ rows \subseteq request[r].gone \cup Range(request[r].todo)

LimiterInv == LimiterTypeOK /\ Budget /\ Promised
RunsInv == RunsTypeOK /\ SlotsHeld /\ DeletionsSound
-----------------------------------------------------------------------------
(* The least number of a set, and from it induction over the naturals.     *)
LEMMA LessInRelation == \A m, n \in Nat : m < n => <<m, n>> \in OpToRel(<, Nat)
BY SMT DEF OpToRel

LEMMA LeastNumber ==
    ASSUME NEW T, T \subseteq Nat, T # {}
    PROVE  \E m \in T : \A n \in T : ~(n < m)
<1>1. PICK m \in T : \A n \in T : ~(<<n, m>> \in OpToRel(<, Nat))
  BY NatLessThanWellFounded, WFMin
<1>2. QED BY <1>1, LessInRelation

LEMMA NatInSet ==
    ASSUME NEW S, 0 \in S, \A n \in Nat : n \in S => n + 1 \in S
    PROVE  Nat \subseteq S
<1> SUFFICES ASSUME NEW x \in Nat \ S PROVE FALSE
  OBVIOUS
<1>1. PICK m \in Nat \ S : \A n \in Nat \ S : ~(n < m)
  BY LeastNumber
<1>2. m - 1 \in Nat /\ m - 1 \in S
  BY <1>1
<1>3. QED BY <1>1, <1>2

LEMMA Moments ==
    /\ 0 \in Now /\ Now \subseteq Nat /\ MaxTime \in Nat
    /\ \A n \in Nat : n + 1 \in Now => n \in Now
    /\ \A t \in Now, n \in Nat : n <= t => n \in Now
<1>1. MaxTime \in Nat
  BY GatewayAssumption
<1>2. QED BY <1>1 DEF Now

(* What the recursive function of Passed computes.                         *)
UpTo(g, since) ==
    CHOOSE f : f = [t \in Now |->
        IF t < since THEN 0 ELSE g[t] + IF t = 0 THEN 0 ELSE f[t - 1]]

LEMMA UpToDefined ==
    ASSUME NEW g, NEW since
    PROVE  UpTo(g, since) = [t \in Now |->
              IF t < since THEN 0
              ELSE g[t] + IF t = 0 THEN 0 ELSE UpTo(g, since)[t - 1]]
<1> DEFINE Sums(f, n) ==
        f = [t \in 0..n |-> IF t < since THEN 0 ELSE g[t] + IF t = 0 THEN 0 ELSE f[t - 1]]
           S == {n \in Nat : \E f : Sums(f, n)}
<1>1. 0 \in S
  <2>1. Sums([t \in 0..0 |-> IF 0 < since THEN 0 ELSE g[0] + 0], 0)
    OBVIOUS
  <2>2. QED BY <2>1
<1>2. ASSUME NEW n \in Nat, n \in S PROVE n + 1 \in S
  <2>1. PICK f : Sums(f, n)
    BY <1>2
  <2> DEFINE h == [t \in 0..(n + 1) |->
                     IF t <= n THEN f[t]
                     ELSE IF t < since THEN 0 ELSE g[t] + f[n]]
  <2>2. ASSUME NEW t \in 0..(n + 1)
        PROVE  h[t] = IF t < since THEN 0 ELSE g[t] + IF t = 0 THEN 0 ELSE h[t - 1]
    <3>1. CASE t <= n
      BY <2>1, <3>1
    <3>2. CASE t = n + 1
      BY <3>2
    <3>3. QED BY <3>1, <3>2
  <2>3. Sums(h, n + 1)
    BY <2>2
  <2> HIDE DEF h, Sums
  <2>4. QED BY <2>3
<1>3. MaxTime \in S
  <2> HIDE DEF S
  <2>1. Nat \subseteq S
    BY <1>1, <1>2, NatInSet
  <2>2. QED BY <2>1, GatewayAssumption
<1>4. \E f : f = [t \in Now |->
                 IF t < since THEN 0 ELSE g[t] + IF t = 0 THEN 0 ELSE f[t - 1]]
  BY <1>3 DEF Now
<1>5. QED BY <1>4, Zenon DEF UpTo

LEMMA UpToAt ==
    ASSUME NEW g, NEW since, NEW t \in Now
    PROVE  UpTo(g, since)[t] = IF t < since THEN 0
                               ELSE g[t] + IF t = 0 THEN 0 ELSE UpTo(g, since)[t - 1]
<1> DEFINE F == UpTo(g, since)
<1>1. F = [n \in Now |-> IF n < since THEN 0 ELSE g[n] + IF n = 0 THEN 0 ELSE F[n - 1]]
  BY UpToDefined
<1> HIDE DEF F
<1>2. F[t] = IF t < since THEN 0 ELSE g[t] + IF t = 0 THEN 0 ELSE F[t - 1]
  BY <1>1
<1>3. QED BY <1>2 DEF F

LEMMA UpToNext ==
    ASSUME NEW g, NEW since, NEW n \in Nat, n + 1 \in Now
    PROVE  UpTo(g, since)[n + 1] = IF n + 1 < since THEN 0 ELSE g[n + 1] + UpTo(g, since)[n]
<1> DEFINE F == UpTo(g, since)
<1>1. F[n + 1] = IF n + 1 < since THEN 0
                 ELSE g[n + 1] + IF n + 1 = 0 THEN 0 ELSE F[(n + 1) - 1]
  BY UpToAt
<1> HIDE DEF F
<1>2. F[n + 1] = IF n + 1 < since THEN 0 ELSE g[n + 1] + F[n]
  BY <1>1
<1>3. QED BY <1>2 DEF F

LEMMA UpToStart ==
    ASSUME NEW g, g[0] \in Nat, NEW since
    PROVE  UpTo(g, since)[0] = IF 0 < since THEN 0 ELSE g[0]
<1>1. 0 \in Now
  BY GatewayAssumption DEF Now
<1>2. UpTo(g, since)[0] = IF 0 < since THEN 0 ELSE g[0] + 0
  BY <1>1, UpToAt
<1>3. QED BY <1>2

LEMMA PassedIsUpTo == \A b, since : Passed(b, since) = UpTo(admitted[b], since)[time]
BY Zenon DEF Passed, UpTo

LEMMA UpToType ==
    ASSUME NEW g \in [Now -> Nat], NEW since \in Nat
    PROVE  UpTo(g, since) \in [Now -> Nat]
<1> DEFINE S == {n \in Nat : n \in Now => UpTo(g, since)[n] \in Nat}
<1>1. 0 \in S
  <2>1. 0 \in Now /\ g[0] \in Nat
    BY Moments
  <2>2. UpTo(g, since)[0] = IF 0 < since THEN 0 ELSE g[0]
    BY <2>1, UpToStart
  <2>3. QED BY <2>1, <2>2
<1>2. ASSUME NEW n \in Nat, n \in S PROVE n + 1 \in S
  <2>1. CASE n + 1 \in Now
    <3>1. n \in Now /\ UpTo(g, since)[n] \in Nat
      BY <1>2, <2>1, Moments
    <3>2. UpTo(g, since)[n + 1] = IF n + 1 < since THEN 0 ELSE g[n + 1] + UpTo(g, since)[n]
      BY <2>1, UpToNext
    <3>3. QED BY <2>1, <3>1, <3>2
  <2>2. QED BY <2>1
<1>3. \A t \in Now : UpTo(g, since)[t] \in Nat
  <2> HIDE DEF S
  <2>1. Nat \subseteq S
    BY <1>1, <1>2, NatInSet
  <2>2. QED BY <2>1, Moments DEF S
<1>4. QED BY <1>3, UpToDefined

(* Sums agree where what they add up agrees.                               *)
LEMMA UpToSame ==
    ASSUME NEW g \in [Now -> Nat], NEW h \in [Now -> Nat], NEW since \in Nat,
           NEW until \in Now, \A t \in 0..until : g[t] = h[t]
    PROVE  UpTo(g, since)[until] = UpTo(h, since)[until]
<1> DEFINE S == {n \in Nat : n <= until => UpTo(g, since)[n] = UpTo(h, since)[n]}
<1>1. 0 \in S
  <2>1. g[0] = h[0] /\ g[0] \in Nat /\ h[0] \in Nat
    BY Moments
  <2>2. /\ UpTo(g, since)[0] = IF 0 < since THEN 0 ELSE g[0]
        /\ UpTo(h, since)[0] = IF 0 < since THEN 0 ELSE h[0]
    BY <2>1, UpToStart
  <2>3. QED BY <2>1, <2>2
<1>2. ASSUME NEW n \in Nat, n \in S PROVE n + 1 \in S
  <2>1. CASE n + 1 <= until
    <3>1. n + 1 \in Now
      BY <2>1, Moments
    <3>2. UpTo(g, since)[n + 1] = IF n + 1 < since THEN 0 ELSE g[n + 1] + UpTo(g, since)[n]
      BY <3>1, UpToNext
    <3>3. UpTo(h, since)[n + 1] = IF n + 1 < since THEN 0 ELSE h[n + 1] + UpTo(h, since)[n]
      BY <3>1, UpToNext
    <3>4. g[n + 1] = h[n + 1] /\ n <= until
      BY <2>1, Moments
    <3>5. QED BY <1>2, <3>2, <3>3, <3>4
  <2>2. QED BY <2>1
<1>3. until \in S
  <2> HIDE DEF S
  <2>1. Nat \subseteq S
    BY <1>1, <1>2, NatInSet
  <2>2. QED BY <2>1, Moments
<1>4. QED BY <1>3
-----------------------------------------------------------------------------
(* Arithmetic of the buckets.                                              *)
LEMMA TimesType == \A m, n \in Nat : m * n \in Nat
OBVIOUS

LEMMA TimesMonotone ==
    ASSUME NEW x \in Int, NEW y \in Int, NEW r \in Nat, x <= y
    PROVE  x * r <= y * r
OBVIOUS

LEMMA TimesSum ==
    ASSUME NEW x \in Int, NEW y \in Int, NEW r \in Int
    PROVE  (x + y) * r = x * r + y * r
OBVIOUS

LEMMA CeilingCovers ==
    ASSUME NEW n \in Nat, NEW d \in Nat \ {0}
    PROVE  /\ (n + d - 1) \div d \in Nat
           /\ ((n + d - 1) \div d) * d >= n
OBVIOUS

LEMMA QuotaFacts ==
    ASSUME NEW b \in Ids
    PROVE  /\ Rate(b) \in Nat \ {0} /\ Whole(b) \in Nat \ {0}
           /\ Capacity(b) \in Nat /\ Capacity(b) = Rate(b) * Whole(b)
           /\ Whole(b) <= Capacity(b) /\ Whole(b) <= IdleTimeout
<1>1. b[1] \in {"chat", "general"}
  BY DEF Ids
<1>2. /\ Quota[b[1]].requests \in Nat \ {0} /\ Quota[b[1]].window \in Nat \ {0}
      /\ Second \in Nat \ {0} /\ Quota[b[1]].window * Second <= IdleTimeout
  BY <1>1, GatewayAssumption
<1>3. Whole(b) \in Nat \ {0}
  BY <1>2 DEF Whole
<1>4. Rate(b) * Whole(b) \in Nat /\ Whole(b) <= Rate(b) * Whole(b)
  BY <1>2, <1>3 DEF Rate
<1>5. QED BY <1>2, <1>3, <1>4 DEF Rate, Capacity, Whole
-----------------------------------------------------------------------------
LEMMA RefilledFacts ==
    ASSUME LimiterInv, NEW b \in DOMAIN buckets
    PROVE  /\ b \in Ids /\ buckets[b].tokens \in Nat /\ buckets[b].last \in 0..time
           /\ time \in Nat
           /\ (time - buckets[b].last) * Rate(b) \in Nat
           /\ Refilled(b) \in Nat /\ Refilled(b) <= Capacity(b)
           /\ \/ Refilled(b) = Capacity(b)
              \/ Refilled(b) = buckets[b].tokens + (time - buckets[b].last) * Rate(b)
           /\ Refilled(b) <= buckets[b].tokens + (time - buckets[b].last) * Rate(b)
<1>1. /\ b \in Ids /\ buckets[b].tokens \in Nat /\ buckets[b].last \in 0..time
      /\ time \in Nat
  BY Moments DEF LimiterInv, LimiterTypeOK
<1>2. Rate(b) \in Nat /\ Capacity(b) \in Nat
  BY <1>1, QuotaFacts
<1>3. (time - buckets[b].last) * Rate(b) \in Nat
  BY <1>1, <1>2
<1>4. Refilled(b) = IF buckets[b].tokens + (time - buckets[b].last) * Rate(b) < Capacity(b)
                    THEN buckets[b].tokens + (time - buckets[b].last) * Rate(b)
                    ELSE Capacity(b)
  BY DEF Refilled, Rate
<1>5. QED BY <1>1, <1>2, <1>3, <1>4

LEMMA LevelFacts ==
    ASSUME LimiterInv, NEW b \in Ids
    PROVE  Level(b) \in Nat /\ Level(b) <= Capacity(b)
BY RefilledFacts, QuotaFacts DEF Level

(* A bucket may be forgotten once it is full again.                        *)
LEMMA IdleIsFull ==
    ASSUME LimiterInv, NEW b \in DOMAIN buckets, time - buckets[b].last > IdleTimeout
    PROVE  Refilled(b) = Capacity(b)
<1>1. /\ b \in Ids /\ buckets[b].tokens \in Nat /\ time - buckets[b].last \in Nat
  BY RefilledFacts
<1>2. /\ Rate(b) \in Nat /\ Whole(b) \in Nat /\ Capacity(b) = Rate(b) * Whole(b)
      /\ Whole(b) <= IdleTimeout /\ IdleTimeout \in Nat
  BY <1>1, QuotaFacts, GatewayAssumption
<1>3. Whole(b) * Rate(b) <= (time - buckets[b].last) * Rate(b)
  BY <1>1, <1>2, TimesMonotone
<1>4. Capacity(b) <= buckets[b].tokens + (time - buckets[b].last) * Rate(b)
  BY <1>1, <1>2, <1>3
<1>5. QED BY <1>1, <1>2, <1>4, RefilledFacts

(* A bucket is written, and others may be forgotten: nobody else's level   *)
(* changes.                                                                *)
Stores(b, tokens) ==
    /\ b \in DOMAIN buckets' /\ DOMAIN buckets' \subseteq DOMAIN buckets \cup {b}
    /\ buckets'[b] = [tokens |-> tokens, last |-> time]
    /\ \A c \in DOMAIN buckets' \ {b} : buckets'[c] = buckets[c]
    /\ \A c \in DOMAIN buckets \ DOMAIN buckets' : time - buckets[c].last > IdleTimeout

LEMMA WithStores ==
    ASSUME LimiterInv, NEW b, NEW tokens,
           buckets' = With(Kept, b, Bucket(tokens)) \/ buckets' = With(buckets, b, Bucket(tokens))
    PROVE  Stores(b, tokens)
<1>1. PICK base \in {Kept, buckets} :
         buckets' = [i \in DOMAIN base \cup {b} |-> IF i = b THEN Bucket(tokens) ELSE base[i]]
  BY DEF With
<1>2. /\ DOMAIN base \subseteq DOMAIN buckets
      /\ \A c \in DOMAIN base : base[c] = buckets[c]
      /\ \A c \in DOMAIN buckets \ DOMAIN base : time - buckets[c].last > IdleTimeout
  <2>1. CASE base = buckets
    BY <2>1
  <2>2. CASE base = Kept /\ ~(Cardinality(DOMAIN buckets) < MaxBuckets)
    <3>1. base = [c \in {i \in DOMAIN buckets : time - buckets[i].last <= IdleTimeout}
                     |-> buckets[c]]
      BY <2>2 DEF Kept, Restrict
    <3>2. \A c \in DOMAIN buckets : ~(time - buckets[c].last <= IdleTimeout)
                                      => time - buckets[c].last > IdleTimeout
      <4>1. IdleTimeout \in Nat
        BY GatewayAssumption
      <4>2. \A c \in DOMAIN buckets : time - buckets[c].last \in Int
        BY RefilledFacts
      <4>3. QED BY <4>1, <4>2
    <3>3. QED BY <3>1, <3>2
  <2>3. CASE base = Kept /\ Cardinality(DOMAIN buckets) < MaxBuckets
    BY <2>3 DEF Kept
  <2>4. QED BY <1>1, <2>1, <2>2, <2>3
<1>3. QED BY <1>1, <1>2 DEF Stores, Bucket

LEMMA StoredLevels ==
    ASSUME LimiterInv, NEW b \in Ids, NEW tokens \in Nat, tokens <= Capacity(b),
           Stores(b, tokens), UNCHANGED time
    PROVE  /\ DOMAIN buckets' \subseteq Ids
           /\ \A c \in DOMAIN buckets' : buckets'[c] \in [tokens : Nat, last : 0..time]
           /\ Level(b)' = tokens
           /\ \A c \in Ids \ {b} : Level(c)' = Level(c)
<1> USE DEF LimiterInv, LimiterTypeOK
<1>1. time \in Nat
  BY Moments
<1>2. /\ DOMAIN buckets' \subseteq Ids
      /\ \A c \in DOMAIN buckets' : buckets'[c] \in [tokens : Nat, last : 0..time]
  BY <1>1 DEF Stores
<1>3. Level(b)' = tokens
  <2>1. Refilled(b)' = IF tokens + (time - time) * Rate(b) < Capacity(b)
                       THEN tokens + (time - time) * Rate(b) ELSE Capacity(b)
    <3>1. /\ time' = time /\ buckets'[b].tokens = tokens /\ buckets'[b].last = time
          /\ Capacity(b)' = Capacity(b)
      BY DEF Stores, Capacity, Whole
    <3>2. QED BY <3>1 DEF Refilled, Rate
  <2>2. (time - time) * Rate(b) = 0 /\ Capacity(b) \in Nat
    BY <1>1, QuotaFacts
  <2>3. Refilled(b)' = tokens
    BY ONLY <2>1, <2>2, tokens \in Nat, tokens <= Capacity(b)
  <2>4. QED BY <2>3 DEF Level, Stores
<1>4. ASSUME NEW c \in Ids \ {b} PROVE Level(c)' = Level(c)
  <2>1. CASE c \in DOMAIN buckets'
    BY <2>1 DEF Level, Stores, Refilled, Capacity, Whole
  <2>2. CASE c \notin DOMAIN buckets'
    <3>1. Level(c)' = Capacity(c)
      BY <2>2 DEF Level, Capacity, Whole
    <3>2. c \in DOMAIN buckets => Refilled(c) = Capacity(c)
      BY <2>2, IdleIsFull DEF Stores
    <3>3. QED BY <3>1, <3>2 DEF Level
  <2>3. QED BY <2>1, <2>2
<1>5. QED BY <1>2, <1>3, <1>4

LEMMA OneMorePassed ==
    ASSUME NEW g \in [Now -> Nat], NEW t \in Now, NEW since \in 0..t,
           NEW h, h = [g EXCEPT ![t] = @ + 1]
    PROVE  UpTo(h, since)[t] = UpTo(g, since)[t] + 1
<1>1. /\ h \in [Now -> Nat] /\ h[t] = g[t] + 1 /\ g[t] \in Nat
      /\ \A n \in Now \ {t} : h[n] = g[n]
      /\ since \in Nat /\ t \in Nat /\ ~(t < since)
  BY Moments
<1>2. UpTo(h, since)[t] = IF t < since THEN 0
                          ELSE h[t] + IF t = 0 THEN 0 ELSE UpTo(h, since)[t - 1]
  BY UpToAt
<1>5. UpTo(g, since)[t] = IF t < since THEN 0
                          ELSE g[t] + IF t = 0 THEN 0 ELSE UpTo(g, since)[t - 1]
  BY UpToAt
<1>3. CASE t = 0
  BY <1>1, <1>2, <1>3, <1>5
<1>4. CASE t # 0
  <2>1. t - 1 \in Now /\ \A n \in 0..(t - 1) : g[n] = h[n]
    BY <1>1, <1>4, Moments
  <2> DEFINE u == t - 1
  <2>2. UpTo(g, since)[u] = UpTo(h, since)[u]
    <3>1. u \in Now /\ \A n \in 0..u : g[n] = h[n]
      BY <2>1
    <3> HIDE DEF u
    <3>2. g \in [Now -> Nat] /\ h \in [Now -> Nat] /\ since \in Nat
      BY <1>1
    <3>3. \A i \in [Now -> Nat], k \in [Now -> Nat], s \in Nat, n \in Now :
             (\A m \in 0..n : i[m] = k[m]) => UpTo(i, s)[n] = UpTo(k, s)[n]
      BY UpToSame
    <3>4. QED BY ONLY <3>1, <3>2, <3>3
  <2>3. UpTo(g, since)[t - 1] \in Nat
    BY <1>1, <2>1, UpToType
  <2>4. QED BY <1>1, <1>2, <1>4, <1>5, <2>2, <2>3
<1>6. QED BY <1>3, <1>4

LEMMA NextPassed ==
    \A b, since : Passed(b, since)' = UpTo(admitted'[b], since)[time']
BY Zenon DEF Passed, UpTo

LEMMA PassedType ==
    ASSUME LimiterInv, NEW b \in Ids, NEW since \in Nat
    PROVE  Passed(b, since) \in Nat
<1>1. UpTo(admitted[b], since) \in [Now -> Nat]
  BY UpToType DEF LimiterInv, LimiterTypeOK
<1>2. QED BY <1>1, PassedIsUpTo DEF LimiterInv, LimiterTypeOK

LEMMA NextCapacity ==
    \A b : Capacity(b)' = Capacity(b) /\ Whole(b)' = Whole(b) /\ Rate(b)' = Rate(b)
BY DEF Capacity, Whole, Rate

(* One bucket offers less by what it let through, the others the same.     *)
LEMMA BudgetSpent ==
    ASSUME LimiterInv, UNCHANGED time, NEW b \in Ids, NEW taken \in {0, 1},
           admitted' = [admitted EXCEPT ![b][time] = @ + taken],
           Level(b)' = Level(b) - taken * Whole(b),
           \A c \in Ids \ {b} : Level(c)' = Level(c)
    PROVE  Budget'
<1>1. /\ time \in Now /\ time \in Nat /\ admitted \in [Ids -> [Now -> Nat]]
      /\ Budget
  BY Moments DEF LimiterInv, LimiterTypeOK
<1> SUFFICES ASSUME NEW c \in Ids
             PROVE  /\ \A since \in 0..time :
                          Passed(c, since)' * Whole(c) + Level(c)'
                             <= Capacity(c) + (time - since) * Rate(c)
                    /\ \A t \in Now : t > time => admitted'[c][t] = 0
  BY NextCapacity DEF Budget
<1>2. \A t \in Now : t > time => admitted'[c][t] = 0
  <2>1. \A t \in Now : t > time => admitted[c][t] = 0 /\ t # time
    BY <1>1, Moments DEF Budget
  <2>2. \A t \in Now : t # time => admitted'[c][t] = admitted[c][t]
    BY <1>1
  <2>3. QED BY <2>1, <2>2
<1>3. ASSUME NEW since \in 0..time
      PROVE  Passed(c, since)' * Whole(c) + Level(c)'
                <= Capacity(c) + (time - since) * Rate(c)
  <2>1. Passed(c, since) * Whole(c) + Level(c) <= Capacity(c) + (time - since) * Rate(c)
    BY <1>1 DEF Budget
  <2>2. CASE c = b /\ taken = 1
    <3> DEFINE g == admitted[b]
    <3>1. g \in [Now -> Nat] /\ admitted'[b] = [g EXCEPT ![time] = @ + 1]
      BY <1>1, <2>2
    <3>2. UpTo(admitted'[b], since)[time] = UpTo(g, since)[time] + 1
      <4> DEFINE h == admitted'[b]
      <4>1. h = [g EXCEPT ![time] = @ + 1]
        BY <3>1
      <4> HIDE DEF g, h
      <4>2. UpTo(h, since)[time] = UpTo(g, since)[time] + 1
        <5>1. \A i \in [Now -> Nat], t \in Now :
                 \A s \in 0..t : \A k : k = [i EXCEPT ![t] = @ + 1] =>
                    UpTo(k, s)[t] = UpTo(i, s)[t] + 1
          BY OneMorePassed
        <5>2. g \in [Now -> Nat] /\ time \in Now /\ since \in 0..time
          BY <1>1, <3>1
        <5>3. \A k : k = [g EXCEPT ![time] = @ + 1] =>
                 UpTo(k, since)[time] = UpTo(g, since)[time] + 1
          BY ONLY <5>1, <5>2
        <5>4. QED BY <4>1, <5>3, Zenon
      <4>3. QED BY <4>2 DEF h
    <3>3. Passed(b, since)' = Passed(b, since) + 1
      BY <3>2, PassedIsUpTo, NextPassed
    <3>4. /\ Passed(b, since) \in Nat /\ Whole(b) \in Nat /\ Level(b) \in Nat
      BY <1>1, PassedType, QuotaFacts, LevelFacts
    <3>5. Passed(b, since)' * Whole(b) = Passed(b, since) * Whole(b) + Whole(b)
      BY ONLY <3>3, <3>4
    <3>6. Level(b)' = Level(b) - Whole(b)
      BY <2>2, <3>4
    <3>7. Passed(b, since) * Whole(b) \in Nat
      BY <3>4, TimesType
    <3>8. Passed(b, since)' * Whole(b) + Level(b)' = Passed(b, since) * Whole(b) + Level(b)
      BY ONLY <3>4, <3>5, <3>6, <3>7
    <3>9. QED BY <2>1, <2>2, <3>8
  <2>3. CASE ~(c = b /\ taken = 1)
    <3>1. admitted'[c] = admitted[c]
      <4>1. CASE c # b
        BY <1>1, <4>1
      <4>2. CASE c = b /\ taken = 0
        <5>1. admitted[b] \in [Now -> Nat] /\ admitted[b][time] \in Nat
          BY <1>1
        <5>2. admitted'[b] = [admitted[b] EXCEPT ![time] = @ + 0]
          BY <1>1, <4>2
        <5>3. QED BY <4>2, <5>1, <5>2
      <4>3. QED BY <2>3, <4>1, <4>2
    <3>2. Passed(c, since)' = Passed(c, since)
      BY <3>1, PassedIsUpTo, NextPassed
    <3>3. Level(c)' = Level(c)
      <4>1. CASE c # b
        BY <4>1
      <4>2. CASE c = b /\ taken = 0
        <5>1. Level(b) \in Nat /\ Whole(b) \in Nat
          BY LevelFacts, QuotaFacts
        <5>2. QED BY <4>2, <5>1
      <4>3. QED BY <2>3, <4>1, <4>2
    <3>4. QED BY <2>1, <3>2, <3>3
  <2>4. QED BY <2>2, <2>3
<1>4. QED BY <1>2, <1>3

LEMMA AdmitLimiter ==
    ASSUME LimiterInv, NEW kind \in Kinds, NEW key \in Keys, Admit(kind, key)
    PROVE  LimiterInv'
<1> DEFINE b == <<Tier(kind), key>>
<1>1. b \in Ids
  BY DEF Ids, Tier
<1>2. /\ b \notin DOMAIN buckets => buckets' = With(Kept, b, Bucket(Capacity(b) - Whole(b)))
      /\ b \in DOMAIN buckets =>
            Refilled(b) >= Whole(b) /\ buckets' = With(buckets, b, Bucket(Refilled(b) - Whole(b)))
      /\ admitted' = [admitted EXCEPT ![b][time] = @ + 1]
      /\ promise' = [promise EXCEPT ![b] = None]
      /\ time' = time
  BY Zenon DEF Admit, Fresh, Reached
<1> HIDE DEF b
<1>3. /\ Whole(b) \in Nat /\ Capacity(b) \in Nat /\ Whole(b) <= Capacity(b)
      /\ Level(b) \in Nat /\ Level(b) <= Capacity(b)
  BY <1>1, QuotaFacts, LevelFacts
<1>4. PICK tokens \in Nat : /\ tokens = Level(b) - Whole(b) /\ tokens <= Capacity(b)
                            /\ Stores(b, tokens)
  <2>1. CASE b \in DOMAIN buckets
    <3>1. /\ Level(b) = Refilled(b) /\ Refilled(b) >= Whole(b)
          /\ buckets' = With(buckets, b, Bucket(Refilled(b) - Whole(b)))
      BY <1>2, <2>1 DEF Level
    <3>2. Stores(b, Refilled(b) - Whole(b))
      BY <3>1, WithStores
    <3>3. QED BY <1>3, <3>1, <3>2
  <2>2. CASE b \notin DOMAIN buckets
    <3>1. /\ Level(b) = Capacity(b)
          /\ buckets' = With(Kept, b, Bucket(Capacity(b) - Whole(b)))
      BY <1>2, <2>2 DEF Level
    <3>2. Stores(b, Capacity(b) - Whole(b))
      BY <3>1, WithStores
    <3>3. QED BY <1>3, <3>1, <3>2
  <2>3. QED BY <2>1, <2>2
<1>5. /\ DOMAIN buckets' \subseteq Ids
      /\ \A c \in DOMAIN buckets' : buckets'[c] \in [tokens : Nat, last : 0..time]
      /\ Level(b)' = tokens
      /\ \A c \in Ids \ {b} : Level(c)' = Level(c)
  BY <1>1, <1>2, <1>4, StoredLevels
<1>6. Budget'
  <2>1. Level(b)' = Level(b) - 1 * Whole(b)
    BY <1>3, <1>4, <1>5
  <2>2. QED BY <1>1, <1>2, <1>5, <2>1, BudgetSpent
<1>7. Promised'
  <2> SUFFICES ASSUME NEW c \in DOMAIN buckets', promise'[c] # None
               PROVE  buckets'[c].tokens + (promise'[c] - buckets'[c].last) * Rate(c) >= Whole(c)
    BY NextCapacity DEF Promised
  <2>1. promise \in [Ids -> Nat \cup {None}] /\ c \in Ids
    BY <1>5 DEF LimiterInv, LimiterTypeOK
  <2>2. c # b /\ promise'[c] = promise[c]
    BY <1>1, <1>2, <2>1
  <2>3. c \in DOMAIN buckets /\ buckets'[c] = buckets[c]
    BY <1>4, <2>2 DEF Stores
  <2>4. QED BY <2>2, <2>3 DEF LimiterInv, Promised
<1>8. LimiterTypeOK'
  <2>1. /\ time \in Now /\ admitted \in [Ids -> [Now -> Nat]]
        /\ promise \in [Ids -> Nat \cup {None}]
    BY DEF LimiterInv, LimiterTypeOK
  <2>2. admitted' \in [Ids -> [Now -> Nat]] /\ promise' \in [Ids -> Nat \cup {None}]
    BY <1>1, <1>2, <2>1
  <2>3. QED BY <1>2, <1>5, <2>1, <2>2 DEF LimiterTypeOK
<1>9. QED BY <1>6, <1>7, <1>8 DEF LimiterInv

(* The seconds of a 429 fill a bucket up to a whole token.                 *)
LEMMA RetryCovers ==
    ASSUME NEW b \in Ids, NEW tokens \in Nat, tokens < Whole(b)
    PROVE  /\ RetryAfter(b, tokens) \in Nat
           /\ tokens + RetryAfter(b, tokens) * Rate(b) >= Whole(b)
<1> DEFINE rate == Rate(b) * Second
           lack == Whole(b) - tokens
           wait == (lack + rate - 1) \div rate
           secs == IF wait < 1 THEN 1 ELSE wait
<1>1. Rate(b) \in Nat \ {0} /\ Whole(b) \in Nat /\ Second \in Nat \ {0}
  BY QuotaFacts, GatewayAssumption
<1>2. rate \in Nat \ {0} /\ lack \in Nat
  BY <1>1
<1>3. wait \in Nat /\ wait * rate >= lack
  <2> HIDE DEF rate, lack
  <2>1. QED BY <1>2, CeilingCovers
<1>4. RetryAfter(b, tokens) = Second * secs
  BY DEF RetryAfter, Rate
<1>5. secs \in Nat /\ wait <= secs
  <2> HIDE DEF wait
  <2>1. QED BY <1>3
<1>6. wait * rate <= secs * rate
  <2> HIDE DEF wait, rate, secs
  <2>1. QED BY <1>2, <1>3, <1>5, TimesMonotone
<1>7. (Second * secs) * Rate(b) = secs * rate
  <2> HIDE DEF wait, secs
  <2>1. QED BY <1>1, <1>5
<1>8. Second * secs \in Nat
  <2> HIDE DEF secs
  <2>1. QED BY <1>1, <1>5
<1>9. (Second * secs) * Rate(b) >= lack
  <2> HIDE DEF wait, secs, rate, lack
  <2>1. wait * rate \in Int /\ secs * rate \in Int
    BY <1>2, <1>3, <1>5
  <2>2. QED BY <1>2, <1>3, <1>6, <1>7, <2>1
<1>10. QED
  <2> HIDE DEF secs
  <2>1. (Second * secs) * Rate(b) \in Int
    BY <1>1, <1>8
  <2>2. QED BY <1>1, <1>4, <1>8, <1>9, <2>1

LEMMA RefuseLimiter ==
    ASSUME LimiterInv, NEW b \in Ids, Refuse(b)
    PROVE  LimiterInv'
<1> DEFINE tokens == Refilled(b)
<1>1. /\ b \in DOMAIN buckets /\ tokens < Whole(b)
      /\ buckets' = With(buckets, b, Bucket(tokens))
      /\ promise' = [promise EXCEPT ![b] =
                        IF @ = None THEN time + RetryAfter(b, tokens) ELSE @]
      /\ time' = time /\ admitted' = admitted
  BY Zenon DEF Refuse, Reached
<1>2. /\ buckets[b].tokens \in Nat /\ buckets[b].last \in 0..time /\ time \in Nat
      /\ tokens \in Nat /\ tokens <= Capacity(b)
      /\ (time - buckets[b].last) * Rate(b) \in Nat
      /\ \/ tokens = Capacity(b)
         \/ tokens = buckets[b].tokens + (time - buckets[b].last) * Rate(b)
  BY <1>1, RefilledFacts
<1>3. /\ Whole(b) \in Nat /\ Capacity(b) \in Nat /\ Whole(b) <= Capacity(b) /\ Rate(b) \in Nat
      /\ Level(b) = tokens
  BY <1>1, QuotaFacts DEF Level
<1> HIDE DEF tokens
<1>4. /\ time \in Now /\ admitted \in [Ids -> [Now -> Nat]]
      /\ promise \in [Ids -> Nat \cup {None}]
  BY DEF LimiterInv, LimiterTypeOK
<1>5. Stores(b, tokens)
  BY <1>1, WithStores
<1>6. /\ DOMAIN buckets' \subseteq Ids
      /\ \A c \in DOMAIN buckets' : buckets'[c] \in [tokens : Nat, last : 0..time]
      /\ Level(b)' = tokens
      /\ \A c \in Ids \ {b} : Level(c)' = Level(c)
  BY <1>1, <1>2, <1>5, StoredLevels
<1>7. Budget'
  <2>1. Level(b)' = Level(b) - 0 * Whole(b)
    BY <1>2, <1>3, <1>6
  <2>2. admitted' = [admitted EXCEPT ![b][time] = @ + 0]
    <3>1. admitted[b][time] + 0 = admitted[b][time]
      BY <1>4
    <3>2. QED BY <1>1, <1>4, <3>1
  <2>3. QED BY <1>1, <1>6, <2>1, <2>2, BudgetSpent
<1>8. /\ RetryAfter(b, tokens) \in Nat
      /\ tokens + RetryAfter(b, tokens) * Rate(b) >= Whole(b)
  BY <1>1, <1>2, RetryCovers
<1>9. promise' \in [Ids -> Nat \cup {None}]
  BY <1>1, <1>2, <1>4, <1>8
<1>10. Promised'
  <2> SUFFICES ASSUME NEW c \in DOMAIN buckets', promise'[c] # None
               PROVE  buckets'[c].tokens + (promise'[c] - buckets'[c].last) * Rate(c) >= Whole(c)
    BY NextCapacity DEF Promised
  <2>1. CASE c # b
    <3>1. c \in DOMAIN buckets /\ buckets'[c] = buckets[c]
      BY <1>5, <2>1 DEF Stores
    <3>2. promise'[c] = promise[c]
      BY <1>1, <1>4, <1>6, <2>1
    <3>3. QED BY <3>1, <3>2 DEF LimiterInv, Promised
  <2>2. CASE c = b
    <3>1. buckets'[b].tokens = tokens /\ buckets'[b].last = time
      BY <1>5 DEF Stores
    <3>2. CASE promise[b] = None
      <4>1. promise'[b] = time + RetryAfter(b, tokens)
        BY <1>1, <1>4, <3>2
      <4>2. promise'[b] - time = RetryAfter(b, tokens)
        BY <1>2, <1>8, <4>1
      <4>3. QED BY <1>8, <2>2, <3>1, <4>2
    <3>3. CASE promise[b] # None
      <4>1. promise'[b] = promise[b] /\ promise[b] \in Nat
        BY <1>1, <1>4, <3>3
      <4>2. buckets[b].tokens + (promise[b] - buckets[b].last) * Rate(b) >= Whole(b)
        BY <1>1, <3>3 DEF LimiterInv, Promised
      <4> DEFINE was == time - buckets[b].last
                 wait == promise[b] - time
      <4>3. /\ was \in Int /\ wait \in Int /\ was + wait = promise[b] - buckets[b].last
            /\ promise'[b] - time = wait
        BY <1>2, <4>1
      <4>4. tokens = buckets[b].tokens + was * Rate(b)
        BY <1>1, <1>2, <1>3
      <4> HIDE DEF was, wait
      <4>5. (was + wait) * Rate(b) = was * Rate(b) + wait * Rate(b)
        BY <1>3, <4>3, TimesSum
      <4>6. was * Rate(b) \in Int /\ wait * Rate(b) \in Int
        BY <1>3, <4>3
      <4>7. tokens + wait * Rate(b) >= Whole(b)
        BY <1>2, <1>3, <4>2, <4>3, <4>4, <4>5, <4>6
      <4>8. QED BY <2>2, <3>1, <4>3, <4>7
    <3>4. QED BY <3>2, <3>3
  <2>3. QED BY <2>1, <2>2
<1>11. QED BY <1>1, <1>4, <1>6, <1>7, <1>9, <1>10 DEF LimiterInv, LimiterTypeOK

LEMMA TickLevel ==
    ASSUME LimiterInv, Tick, NEW b \in Ids
    PROVE  /\ Level(b)' \in Nat /\ Level(b)' <= Capacity(b)
           /\ Level(b)' <= Level(b) + Rate(b)
<1>1. time' = time + 1 /\ buckets' = buckets
  BY DEF Tick
<1>2. Rate(b) \in Nat /\ Capacity(b) \in Nat
  BY QuotaFacts
<1>3. CASE b \notin DOMAIN buckets
  <2>1. Level(b) = Capacity(b) /\ Level(b)' = Capacity(b)
    BY <1>1, <1>3, NextCapacity DEF Level
  <2>2. QED BY <1>2, <2>1
<1>4. CASE b \in DOMAIN buckets
  <2> DEFINE was == time - buckets[b].last
             full == buckets[b].tokens + was * Rate(b)
             next == buckets[b].tokens + (was + 1) * Rate(b)
  <2>1. /\ buckets[b].tokens \in Nat /\ was \in Nat /\ was * Rate(b) \in Nat
        /\ time \in Nat /\ buckets[b].last \in Nat
    BY <1>4, RefilledFacts
  <2>2. Level(b) = IF full < Capacity(b) THEN full ELSE Capacity(b)
    BY <1>4 DEF Level, Refilled, Rate
  <2>3. Level(b)' = IF next < Capacity(b) THEN next ELSE Capacity(b)
    <3>1. (time + 1) - buckets[b].last = was + 1
      BY <2>1
    <3> HIDE DEF was
    <3>2. Refilled(b)' = IF next < Capacity(b) THEN next ELSE Capacity(b)
      BY <1>1, <3>1, NextCapacity DEF Refilled, Rate
    <3>3. QED BY <1>1, <1>4, <3>2 DEF Level
  <2> HIDE DEF was
  <2>4. (was + 1) * Rate(b) = was * Rate(b) + Rate(b)
    BY <1>2, <2>1
  <2>5. QED BY <1>2, <2>1, <2>2, <2>3, <2>4
<1>5. QED BY <1>3, <1>4

LEMMA TickPassed ==
    ASSUME LimiterInv, Tick, NEW b \in Ids, NEW since \in 0..time'
    PROVE  IF since = time' THEN Passed(b, since)' = 0
           ELSE since \in 0..time /\ Passed(b, since)' = Passed(b, since)
<1> DEFINE g == admitted[b]
<1>1. /\ time' = time + 1 /\ admitted' = admitted /\ time \in Nat /\ time \in Now
      /\ since \in Nat /\ time + 1 \in Now /\ MaxTime \in Nat
  BY Moments DEF Tick, LimiterInv, LimiterTypeOK, Now
<1>2. g \in [Now -> Nat] /\ g[time + 1] = 0
  BY <1>1 DEF LimiterInv, LimiterTypeOK, Budget
<1>3. Passed(b, since)' = UpTo(g, since)[time + 1] /\ Passed(b, since) = UpTo(g, since)[time]
  BY <1>1, PassedIsUpTo, NextPassed
<1> HIDE DEF g
<1>4. UpTo(g, since)[time + 1] =
         IF time + 1 < since THEN 0 ELSE g[time + 1] + UpTo(g, since)[time]
  BY <1>1, UpToNext
<1>5. UpTo(g, since)[time] \in Nat
  BY <1>1, <1>2, UpToType
<1>6. CASE since = time + 1
  <2>1. UpTo(g, since)[time] = IF time < since THEN 0
                               ELSE g[time] + IF time = 0 THEN 0 ELSE UpTo(g, since)[time - 1]
    BY <1>1, UpToAt
  <2>2. UpTo(g, since)[time] = 0
    BY <1>1, <1>6, <2>1
  <2>3. QED BY <1>1, <1>2, <1>3, <1>4, <1>6, <2>2
<1>7. CASE since # time + 1
  BY <1>1, <1>2, <1>3, <1>4, <1>5, <1>7
<1>8. QED BY <1>6, <1>7, <1>1

LEMMA TickLimiter ==
    ASSUME LimiterInv, Tick
    PROVE  LimiterInv'
<1>1. /\ time' = time + 1 /\ time < MaxTime /\ time \in Nat /\ time \in Now /\ time' \in Now
      /\ buckets' = buckets /\ admitted' = admitted /\ promise' = promise /\ Now \subseteq Nat
  BY Moments DEF Tick, LimiterInv, LimiterTypeOK, Now
<1>2. LimiterTypeOK'
  BY <1>1 DEF LimiterInv, LimiterTypeOK
<1>3. Promised'
  BY <1>1, NextCapacity DEF LimiterInv, Promised
<1>4. ASSUME NEW b \in Ids, NEW since \in 0..time'
      PROVE  Passed(b, since)' * Whole(b) + Level(b)'
                <= Capacity(b) + (time' - since) * Rate(b)
  <2>1. /\ Rate(b) \in Nat /\ Whole(b) \in Nat /\ Capacity(b) \in Nat
        /\ Level(b) \in Nat /\ since \in Nat
    BY <1>1, QuotaFacts, LevelFacts
  <2>2. /\ Level(b)' \in Nat /\ Level(b)' <= Capacity(b)
        /\ Level(b)' <= Level(b) + Rate(b)
    BY TickLevel
  <2>3. CASE since = time'
    <3>1. Passed(b, since)' = 0
      BY <2>3, TickPassed
    <3>2. 0 * Whole(b) = 0 /\ (time' - since) * Rate(b) = 0
      BY <1>1, <2>1, <2>3
    <3>3. QED BY <2>1, <2>2, <3>1, <3>2
  <2>4. CASE since # time'
    <3>1. since \in 0..time /\ Passed(b, since)' = Passed(b, since)
      BY <2>4, TickPassed
    <3>2. /\ Passed(b, since) * Whole(b) + Level(b) <= Capacity(b) + (time - since) * Rate(b)
          /\ Passed(b, since) \in Nat
      BY <2>1, <3>1, PassedType DEF LimiterInv, Budget
    <3> DEFINE ago == time - since
               used == Passed(b, since) * Whole(b)
    <3>3. used \in Nat
      BY <2>1, <3>2
    <3>4. ago \in Nat /\ time' - since = ago + 1
      BY <1>1, <2>1, <3>1
    <3>5. used + Level(b) <= Capacity(b) + ago * Rate(b)
      BY <3>2
    <3>6. Passed(b, since)' * Whole(b) = used
      BY <3>1
    <3> HIDE DEF ago, used
    <3>7. (ago + 1) * Rate(b) = ago * Rate(b) + 1 * Rate(b) /\ ago * Rate(b) \in Nat
      BY <2>1, <3>4, TimesSum, TimesType
    <3>8. QED BY <2>1, <2>2, <3>3, <3>4, <3>5, <3>6, <3>7
  <2>5. QED BY <2>3, <2>4
<1>5. ASSUME NEW b \in Ids, NEW t \in Now, t > time' PROVE admitted'[b][t] = 0
  BY <1>1, <1>5 DEF LimiterInv, Budget
<1>6. Budget'
  BY <1>4, <1>5, NextCapacity DEF Budget
<1>7. QED BY <1>2, <1>3, <1>6 DEF LimiterInv
-----------------------------------------------------------------------------
(* The slots, as the handlers of chats and streams come and go.            *)
Holding == {"upsert", "start", "run", "mark", "abandoned"}

LEMMA HoldersAre ==
    /\ Holders = {r \in DOMAIN request : request[r].pc \in Holding}
    /\ Holders' = {r \in DOMAIN request' : request'[r].pc \in Holding}
BY DEF Holders, Holds, At, Holding

LEMMA SlotsKept ==
    ASSUME SlotsHeld, slots' = slots, DOMAIN request' = DOMAIN request,
           \A q \in DOMAIN request : request'[q].pc \in Holding <=> request[q].pc \in Holding
    PROVE  SlotsHeld'
<1>1. Holders' = Holders
  BY HoldersAre
<1>2. QED BY <1>1 DEF SlotsHeld

LEMMA SlotTaken ==
    ASSUME SlotsHeld, NEW r \in DOMAIN request, request[r].pc \notin Holding,
           slots' = slots + 1, DOMAIN request' = DOMAIN request,
           request'[r].pc \in Holding,
           \A q \in DOMAIN request \ {r} : request'[q].pc = request[q].pc
    PROVE  SlotsHeld'
<1>1. Holders' = Holders \cup {r} /\ r \notin Holders
  BY HoldersAre
<1>2. QED BY <1>1, FS_AddElement DEF SlotsHeld

LEMMA SlotReleased ==
    ASSUME SlotsHeld, NEW r \in DOMAIN request, request[r].pc \in Holding,
           Release(r), DOMAIN request' = DOMAIN request,
           request'[r].pc \notin Holding,
           \A q \in DOMAIN request \ {r} : request'[q].pc = request[q].pc
    PROVE  SlotsHeld'
<1>1. Holders' = Holders \ {r} /\ r \in Holders
  BY HoldersAre
<1>2. IsFiniteSet(Holders') /\ Cardinality(Holders') = Cardinality(Holders) - 1
  BY <1>1, FS_RemoveElement DEF SlotsHeld
<1>3. Cardinality(Holders) \in Nat /\ Cardinality(Holders') \in Nat
  BY <1>2, FS_CardinalityType DEF SlotsHeld
<1>4. slots' = slots - 1
  BY <1>2, <1>3 DEF Release, SlotsHeld
<1>5. QED BY <1>2, <1>4 DEF SlotsHeld

LEMMA IdleIsRequest == NoRequest \in Request
BY DEF NoRequest, Request

(* A handler that holds its slot goes on and keeps it.                     *)
LEMMA GoesRuns ==
    ASSUME RunsInv, NEW r \in DOMAIN request, request[r].pc \in Holding,
           NEW pc \in Holding, Goes(r, pc), UNCHANGED <<slots, rows>>, listed' \in BOOLEAN
    PROVE  RunsInv'
<1>1. /\ request \in [1..Requests -> Request] /\ r \in 1..Requests
      /\ request' = [request EXCEPT ![r].pc = pc]
  BY DEF RunsInv, RunsTypeOK, Goes
<1>2. request' \in [1..Requests -> Request]
  BY <1>1 DEF Request, Holding
<1>3. /\ request'[r].pc = pc
      /\ \A q \in 1..Requests \ {r} : request'[q] = request[q]
  BY <1>1 DEF Request
<1>4. SlotsHeld'
  BY <1>1, <1>2, <1>3, SlotsKept DEF RunsInv
<1>5. DeletionsSound'
  BY <1>1, <1>2, <1>3 DEF DeletionsSound, At, RunsInv, Holding
<1>6. QED BY <1>2, <1>4, <1>5 DEF RunsInv, RunsTypeOK

(* A handler answers, and its slot is free again if it held one.           *)
LEMMA AnsweredRuns ==
    ASSUME RunsInv, NEW r \in DOMAIN request, Answered(r),
           IF request[r].pc \in Holding THEN Release(r) ELSE slots' = slots,
           rows' \subseteq rows, listed' \in BOOLEAN
    PROVE  RunsInv'
<1>1. /\ request \in [1..Requests -> Request] /\ r \in 1..Requests
      /\ request' = [request EXCEPT ![r] = NoRequest]
      /\ slots \in Nat
  BY DEF RunsInv, RunsTypeOK, Answered
<1>2. request' \in [1..Requests -> Request]
  BY <1>1, IdleIsRequest
<1>3. /\ request'[r] = NoRequest
      /\ \A q \in 1..Requests \ {r} : request'[q] = request[q]
  BY <1>1
<1>4. request'[r].pc = "none"
  BY <1>3 DEF NoRequest
<1>5. SlotsHeld'
  <2>1. CASE request[r].pc \in Holding
    BY <1>1, <1>2, <1>3, <1>4, <2>1, SlotReleased DEF RunsInv, Holding
  <2>2. CASE request[r].pc \notin Holding
    BY <1>1, <1>2, <1>3, <1>4, <2>2, SlotsKept DEF RunsInv, Holding
  <2>3. QED BY <2>1, <2>2
<1>6. DeletionsSound'
  BY <1>1, <1>2, <1>3, <1>4 DEF DeletionsSound, At, RunsInv
<1>7. slots' \in Nat
  BY <1>1 DEF Release
<1>8. QED BY <1>2, <1>5, <1>6, <1>7 DEF RunsInv, RunsTypeOK

LEMMA TakeRuns ==
    ASSUME RunsInv, NEW r \in DOMAIN request, NEW kind \in {"chat", "stream"}, Take(r, kind)
    PROVE  RunsInv'
<1>1. PICK pc \in {"upsert", Body(kind)} :
         request' = [request EXCEPT ![r].pc = pc, ![r].kind = kind]
  BY DEF Take
<1>2. pc \in {"upsert", "start", "run"}
  BY DEF Body
<1>3. /\ request \in [1..Requests -> Request] /\ r \in 1..Requests
      /\ request[r].pc = "none" /\ slots \in Nat
      /\ slots' = slots + 1 /\ rows' = rows /\ listed' = listed
  BY DEF RunsInv, RunsTypeOK, Take, Handler, At
<1>4. request' \in [1..Requests -> Request]
  BY <1>1, <1>2, <1>3 DEF Request, Kinds
<1>5. /\ request'[r].pc = pc
      /\ \A q \in 1..Requests \ {r} : request'[q] = request[q]
  BY <1>1, <1>3 DEF Request
<1>6. SlotsHeld'
  BY <1>2, <1>3, <1>4, <1>5, SlotTaken DEF RunsInv, Holding
<1>7. DeletionsSound'
  BY <1>2, <1>3, <1>4, <1>5 DEF DeletionsSound, At, RunsInv
<1>8. QED BY <1>3, <1>4, <1>6, <1>7 DEF RunsInv, RunsTypeOK

(* A run writes checkpoints: a deletion under way does not see them.       *)
LEMMA WritesRuns ==
    ASSUME RunsInv, NEW r \in DOMAIN request, NEW ends \in BOOLEAN, Writes(r, ends),
           request[r].pc \in Holding, listed' = listed,
           IF ends THEN Release(r) ELSE slots' = slots
    PROVE  RunsInv'
<1>1. /\ request \in [1..Requests -> Request] /\ r \in 1..Requests
      /\ DOMAIN request = 1..Requests /\ slots \in Nat /\ listed \in BOOLEAN
  BY DEF RunsInv, RunsTypeOK
<1>2. /\ rows' = Row /\ DOMAIN request' = 1..Requests
      /\ \A q \in 1..Requests \ {r} : request'[q] = Spoilt(request[q])
      /\ request'[r] = IF ends THEN NoRequest ELSE request[r]
  BY <1>1 DEF Writes, Row
<1>3. \A q \in 1..Requests :
         /\ Spoilt(request[q]) \in Request
         /\ Spoilt(request[q]).pc = request[q].pc /\ Spoilt(request[q]).kind = request[q].kind
         /\ Spoilt(request[q]).spoilt = (request[q].kind = "delete")
  BY <1>1 DEF Spoilt, Request
<1>4. request' \in [1..Requests -> Request]
  <2>1. request'[r] \in Request
    BY <1>1, <1>2, IdleIsRequest
  <2>2. \A q \in 1..Requests : request'[q] \in Request
    BY <1>2, <1>3, <2>1
  <2>3. request' = [q \in 1..Requests |-> request'[q]]
    BY <1>1 DEF Writes
  <2>4. QED BY <2>2, <2>3
<1>5. SlotsHeld'
  <2>1. CASE ends
    <3>1. request'[r].pc = "none"
      BY <1>2, <2>1 DEF NoRequest
    <3>2. QED BY <1>1, <1>2, <1>3, <2>1, <3>1, SlotReleased DEF RunsInv, Holding
  <2>2. CASE ~ends
    BY <1>1, <1>2, <1>3, <2>2, SlotsKept DEF RunsInv
  <2>3. QED BY <2>1, <2>2
<1>6. DeletionsSound'
  <2> SUFFICES ASSUME NEW q \in 1..Requests, request'[q].pc = "delete"
               PROVE  request'[q].kind = "delete" /\ request'[q].spoilt
    BY <1>2 DEF DeletionsSound, At
  <2>1. q # r
    BY <1>2 DEF Holding, NoRequest
  <2>2. request[q].kind = "delete"
    BY <1>1, <1>2, <1>3, <2>1 DEF RunsInv, DeletionsSound, At
  <2>3. QED BY <1>2, <1>3, <2>1, <2>2
<1>7. slots' \in Nat
  BY <1>1 DEF Release
<1>8. QED BY <1>1, <1>2, <1>4, <1>5, <1>6, <1>7 DEF RunsInv, RunsTypeOK
-----------------------------------------------------------------------------
(* The deletions.                                                          *)
LEMMA TodoRange ==
    ASSUME NEW todo \in Seq(Row), todo # <<>>
    PROVE  /\ Head(todo) \in Row /\ Tail(todo) \in Seq(Row)
           /\ Range(todo) = {Head(todo)} \cup Range(Tail(todo))
<1>1. /\ Head(todo) = todo[1] /\ Len(todo) \in Nat \ {0} /\ DOMAIN todo = 1..Len(todo)
      /\ Tail(todo) \in Seq(Row) /\ Len(Tail(todo)) = Len(todo) - 1
      /\ DOMAIN Tail(todo) = 1..Len(Tail(todo))
      /\ \A i \in 1..Len(todo) : todo[i] \in Row
  OBVIOUS
<1>2. \A i \in 1..Len(Tail(todo)) : Tail(todo)[i] = todo[i + 1]
  OBVIOUS
<1>3. Range(Tail(todo)) = {todo[i + 1] : i \in 1..(Len(todo) - 1)}
  BY <1>1, <1>2 DEF Range
<1>4. Range(todo) = {todo[i] : i \in 1..Len(todo)}
  BY <1>1 DEF Range
<1>5. \A i \in 1..Len(todo) : i = 1 \/ (i - 1 \in 1..(Len(todo) - 1) /\ todo[(i - 1) + 1] = todo[i])
  BY <1>1
<1>6. \A i \in 1..(Len(todo) - 1) : i + 1 \in 1..Len(todo)
  BY <1>1
<1>7. 1 \in 1..Len(todo)
  BY <1>1
<1>8. ASSUME NEW x \in Range(todo) PROVE x \in {Head(todo)} \cup Range(Tail(todo))
  <2>1. PICK i \in 1..Len(todo) : x = todo[i]
    BY <1>4
  <2>2. CASE i = 1
    BY <1>1, <2>1, <2>2
  <2>3. CASE i # 1
    <3>1. i - 1 \in 1..(Len(todo) - 1) /\ todo[(i - 1) + 1] = x
      BY <1>5, <2>1, <2>3
    <3>2. QED BY <1>3, <3>1
  <2>4. QED BY <2>2, <2>3
<1>9. Range(Tail(todo)) \subseteq Range(todo)
  BY <1>3, <1>4, <1>6
<1>10. Head(todo) \in Range(todo)
  BY <1>1, <1>4, <1>7
<1>11. Head(todo) \in Row
  BY <1>1, <1>7
<1>12. QED BY <1>1, <1>8, <1>9, <1>10, <1>11

LEMMA FindRuns ==
    ASSUME RunsInv, NEW r \in DOMAIN request, FindThread(r)
    PROVE  RunsInv'
<1>1. /\ request \in [1..Requests -> Request] /\ r \in 1..Requests
      /\ request[r].pc = "none" /\ slots' = slots /\ rows' = rows /\ listed' = listed
      /\ rows \subseteq Row
  BY DEF RunsInv, RunsTypeOK, FindThread, Handler, At
<1>2. CASE request' = request
  BY <1>1, <1>2, SlotsKept
     DEF RunsInv, RunsTypeOK, DeletionsSound, At
<1>3. CASE request' = [request EXCEPT ![r].pc = "delete", ![r].kind = "delete", ![r].todo = Tables]
  <2>1. Tables \in Seq(Row)
    BY GatewayAssumption DEF Row
  <2>2. request' \in [1..Requests -> Request]
    BY <1>1, <1>3, <2>1 DEF Request, Kinds
  <2>3. /\ request'[r].pc = "delete" /\ request'[r].kind = "delete" /\ request'[r].todo = Tables
        /\ \A q \in 1..Requests \ {r} : request'[q] = request[q]
    BY <1>1, <1>3 DEF Request
  <2>4. SlotsHeld'
    BY <1>1, <2>2, <2>3, SlotsKept DEF RunsInv, Holding
  <2>5. DeletionsSound'
    <3> SUFFICES ASSUME NEW q \in 1..Requests, request'[q].pc = "delete"
                 PROVE  /\ request'[q].kind = "delete"
                        /\ \/ request'[q].spoilt
                           \/ rows \subseteq request'[q].gone \cup Range(request'[q].todo)
      BY <1>1, <2>2 DEF DeletionsSound, At
    <3>1. CASE q = r
      BY <1>1, <2>3, <3>1 DEF Row
    <3>2. CASE q # r
      BY <1>1, <2>3, <3>2 DEF RunsInv, DeletionsSound, At
    <3>3. QED BY <3>1, <3>2
  <2>6. QED BY <1>1, <2>2, <2>4, <2>5 DEF RunsInv, RunsTypeOK
<1>4. QED BY <1>2, <1>3 DEF FindThread

LEMMA DeleteRuns ==
    ASSUME RunsInv, NEW r \in DOMAIN request, DeleteRows(r) \/ StatementFails(r)
    PROVE  RunsInv'
<1> DEFINE todo == request[r].todo
           head == Head(todo)
<1>1. /\ request \in [1..Requests -> Request] /\ r \in 1..Requests
      /\ request[r].pc = "delete" /\ todo # <<>>
      /\ slots' = slots /\ rows' = rows /\ listed' = listed
  BY DEF RunsInv, RunsTypeOK, DeleteRows, StatementFails, At
<1>2. /\ todo \in Seq(Row) /\ request[r].gone \subseteq Row
      /\ request[r] \in Request
  BY <1>1 DEF Request
<1>3. /\ head \in Row /\ Tail(todo) \in Seq(Row)
      /\ Range(todo) = {head} \cup Range(Tail(todo))
  BY <1>1, <1>2, TodoRange
<1>4. /\ request[r].kind = "delete"
      /\ request[r].spoilt \/ rows \subseteq request[r].gone \cup Range(todo)
  BY <1>1 DEF RunsInv, DeletionsSound, At
<1>5. PICK gone, spoilt :
         /\ gone \subseteq Row /\ spoilt \in BOOLEAN
         /\ request' = [request EXCEPT ![r] =
                          [@ EXCEPT !.todo = Tail(todo), !.gone = gone, !.spoilt = spoilt]]
         /\ spoilt \/ rows \subseteq gone \cup Range(Tail(todo))
  <2>1. CASE DeleteRows(r)
    <3>1. request' = [request EXCEPT ![r] =
            [@ EXCEPT !.todo = Tail(todo), !.gone = request[r].gone \cup {head},
                      !.spoilt = request[r].spoilt]]
      BY <1>1, <1>2, <2>1 DEF DeleteRows, Request
    <3>2. request[r].gone \cup {head} \subseteq Row /\ request[r].spoilt \in BOOLEAN
      BY <1>2, <1>3 DEF Request
    <3>3. request[r].spoilt \/ rows \subseteq (request[r].gone \cup {head}) \cup Range(Tail(todo))
      BY <1>3, <1>4
    <3> HIDE DEF todo, head
    <3>4. QED BY <3>1, <3>2, <3>3
  <2>2. CASE StatementFails(r)
    <3>1. request' = [request EXCEPT ![r] =
            [@ EXCEPT !.todo = Tail(todo), !.gone = {}, !.spoilt = TRUE]]
      BY <1>1, <1>2, <2>2 DEF StatementFails, Request
    <3>2. PICK gone \in SUBSET Row, spoilt \in BOOLEAN :
            /\ request' = [request EXCEPT ![r] =
                             [@ EXCEPT !.todo = Tail(todo), !.gone = gone, !.spoilt = spoilt]]
            /\ spoilt
      <4> HIDE DEF todo
      <4>1. QED BY <3>1, Zenon
    <3> HIDE DEF todo
    <3>3. QED BY <3>2
  <2>3. QED BY <1>1, <2>1, <2>2
<1> HIDE DEF todo, head
<1>6. request' \in [1..Requests -> Request]
  BY <1>1, <1>2, <1>3, <1>5 DEF Request
<1>7. /\ request'[r].pc = "delete" /\ request'[r].kind = "delete"
      /\ request'[r].todo = Tail(todo) /\ request'[r].gone = gone
      /\ request'[r].spoilt = spoilt
      /\ \A q \in 1..Requests \ {r} : request'[q] = request[q]
  BY <1>1, <1>2, <1>4, <1>5 DEF Request
<1>8. SlotsHeld'
  BY <1>1, <1>6, <1>7, SlotsKept DEF RunsInv, Holding
<1>9. DeletionsSound'
  <2> SUFFICES ASSUME NEW q \in 1..Requests, request'[q].pc = "delete"
               PROVE  /\ request'[q].kind = "delete"
                      /\ \/ request'[q].spoilt
                         \/ rows \subseteq request'[q].gone \cup Range(request'[q].todo)
    BY <1>1, <1>6 DEF DeletionsSound, At
  <2>1. CASE q = r
    BY <1>5, <1>7, <2>1
  <2>2. CASE q # r
    BY <1>1, <1>7, <2>2 DEF RunsInv, DeletionsSound, At
  <2>3. QED BY <2>1, <2>2
<1>10. QED BY <1>1, <1>6, <1>8, <1>9 DEF RunsInv, RunsTypeOK
-----------------------------------------------------------------------------
LEMMA InitInv ==
    ASSUME Init
    PROVE  LimiterInv /\ RunsInv
<1>1. LimiterTypeOK
  BY Moments DEF Init, LimiterTypeOK
<1>2. Promised
  BY DEF Init, Promised
<1>3. Budget
  <2> SUFFICES ASSUME NEW b \in Ids
               PROVE  /\ \A since \in 0..time :
                            Passed(b, since) * Whole(b) + Level(b)
                               <= Capacity(b) + (time - since) * Rate(b)
                      /\ \A t \in Now : t > time => admitted[b][t] = 0
    BY DEF Budget
  <2>1. time = 0 /\ admitted[b] = [t \in Now |-> 0] /\ b \notin DOMAIN buckets
    BY DEF Init
  <2>2. Passed(b, 0) = 0
    <3> DEFINE g == admitted[b]
    <3>1. g[0] = 0
      BY <2>1, Moments
    <3> HIDE DEF g
    <3>2. UpTo(g, 0)[0] = IF 0 < 0 THEN 0 ELSE g[0]
      BY <3>1, UpToStart
    <3>3. UpTo(g, 0)[0] = 0
      BY <3>1, <3>2
    <3>4. QED BY <2>1, <3>3, PassedIsUpTo DEF g
  <2>3. Level(b) = Capacity(b)
    BY <2>1 DEF Level
  <2>4. /\ Whole(b) \in Nat /\ Capacity(b) \in Nat /\ Rate(b) \in Nat
    BY QuotaFacts
  <2>5. QED BY <2>1, <2>2, <2>3, <2>4
<1>4. request = [r \in 1..Requests |-> NoRequest] /\ slots = 0 /\ rows = {} /\ listed = FALSE
  BY DEF Init
<1>5. RunsTypeOK
  BY <1>4, IdleIsRequest DEF RunsTypeOK
<1>6. SlotsHeld
  <2>1. Holders = {}
    BY <1>4, HoldersAre DEF NoRequest, Holding
  <2>2. QED BY <1>4, <2>1, FS_EmptySet DEF SlotsHeld
<1>7. DeletionsSound
  BY <1>4 DEF DeletionsSound, At, NoRequest
<1>8. QED BY <1>1, <1>2, <1>3, <1>5, <1>6, <1>7 DEF LimiterInv, RunsInv

LEMMA LimiterIdle ==
    ASSUME LimiterInv, UNCHANGED Limiter
    PROVE  LimiterInv'
<1>1. time' = time /\ buckets' = buckets /\ admitted' = admitted /\ promise' = promise
  BY DEF Limiter
<1>2. \A b : Level(b)' = Level(b)
  BY <1>1, NextCapacity DEF Level, Refilled
<1>3. \A b, since : Passed(b, since)' = Passed(b, since)
  BY <1>1, PassedIsUpTo, NextPassed
<1>4. Budget'
  BY <1>1, <1>2, <1>3, NextCapacity DEF LimiterInv, Budget
<1>5. Promised'
  BY <1>1, NextCapacity DEF LimiterInv, Promised
<1>6. QED BY <1>1, <1>4, <1>5 DEF LimiterInv, LimiterTypeOK

LEMMA RunsIdle ==
    ASSUME RunsInv, UNCHANGED <<request, slots, listed, rows>>
    PROVE  RunsInv'
<1>1. SlotsHeld'
  BY SlotsKept DEF RunsInv
<1>2. QED BY <1>1 DEF RunsInv, RunsTypeOK, DeletionsSound, At

LEMMA NextKeeps ==
    ASSUME LimiterInv, RunsInv, [Next]_vars
    PROVE  LimiterInv' /\ RunsInv'
<1> USE DEF Holding
<1>1. ASSUME NEW kind \in Kinds, NEW key \in Keys, Reject(kind, key)
      PROVE  LimiterInv' /\ RunsInv'
  BY <1>1, AdmitLimiter, RunsIdle DEF Reject
<1>2. ASSUME NEW r, NEW kind \in Kinds, Handler(r, kind)
      PROVE  LimiterInv'
  BY <1>2, AdmitLimiter, GatewayAssumption DEF Handler
<1>3. ASSUME NEW r \in DOMAIN request, NEW kind \in {"chat", "stream"}, Take(r, kind)
      PROVE  LimiterInv' /\ RunsInv'
  BY <1>2, <1>3, TakeRuns DEF Take, Kinds
<1>4. ASSUME NEW r \in DOMAIN request, FindThread(r) PROVE LimiterInv' /\ RunsInv'
  BY <1>2, <1>4, FindRuns DEF FindThread, Kinds
<1>5. ASSUME NEW kind \in {"chat", "stream"}, Busy(kind) PROVE LimiterInv' /\ RunsInv'
  BY <1>5, AdmitLimiter, RunsIdle, GatewayAssumption DEF Busy, Kinds
<1>6. ASSUME NEW b \in Ids, Refuse(b) PROVE LimiterInv' /\ RunsInv'
  BY <1>6, RefuseLimiter, RunsIdle DEF Refuse
<1>7. CASE Tick
  BY <1>7, TickLimiter, RunsIdle DEF Tick
<1>8. ASSUME NEW r \in DOMAIN request,
             \/ Upsert(r) \/ Start(r) \/ Mark(r) \/ DeleteRows(r) \/ Commit(r)
             \/ Run(r) \/ Finish(r) \/ Interrupted(r) \/ Abandon(r)
             \/ StatementFails(r) \/ CommitFails(r)
      PROVE  LimiterInv' /\ RunsInv'
  <2>1. LimiterInv'
    BY <1>8, LimiterIdle
       DEF Upsert, Start, Mark, DeleteRows, Commit, Run, Finish, Interrupted, Abandon,
           StatementFails, CommitFails
  <2>2. listed \in BOOLEAN
    BY DEF RunsInv, RunsTypeOK
  <2>3. CASE Upsert(r)
    <3>1. Body(request[r].kind) \in Holding
      BY DEF Body
    <3>2. QED BY <1>8, <2>1, <2>2, <2>3, <3>1, GoesRuns DEF Upsert, At
  <2>4. CASE Start(r) \/ Interrupted(r) \/ Abandon(r)
    BY <1>8, <2>1, <2>2, <2>4, GoesRuns DEF Start, Interrupted, Abandon, At
  <2>5. CASE Mark(r)
    <3>1. CASE Writes(r, TRUE)
      BY <1>8, <2>1, <2>5, <3>1, WritesRuns DEF Mark, At
    <3>2. CASE Answered(r) /\ UNCHANGED rows
      BY <1>8, <2>1, <2>2, <2>5, <3>2, AnsweredRuns DEF Mark, At
    <3>3. QED BY <2>5, <3>1, <3>2 DEF Mark
  <2>6. CASE Run(r)
    BY <1>8, <2>1, <2>6, WritesRuns DEF Run, At
  <2>7. CASE Finish(r)
    BY <1>8, <2>1, <2>2, <2>7, AnsweredRuns DEF Finish, At
  <2>8. CASE Commit(r) \/ CommitFails(r)
    BY <1>8, <2>1, <2>2, <2>8, AnsweredRuns DEF Commit, CommitFails, At
  <2>9. CASE DeleteRows(r) \/ StatementFails(r)
    BY <1>8, <2>1, <2>9, DeleteRuns
  <2>10. QED BY <1>8, <2>1, <2>3, <2>4, <2>5, <2>6, <2>7, <2>8, <2>9
<1>9. CASE UNCHANGED vars
  BY <1>9, LimiterIdle, RunsIdle DEF vars, Limiter
<1>10. QED BY <1>1, <1>3, <1>4, <1>5, <1>6, <1>7, <1>8, <1>9 DEF Next, Handle

LEMMA Invariance == Spec => [](LimiterInv /\ RunsInv)
<1>1. Init => LimiterInv /\ RunsInv
  BY InitInv
<1>2. LimiterInv /\ RunsInv /\ [Next]_vars => (LimiterInv /\ RunsInv)'
  BY NextKeeps
<1>3. QED BY <1>1, <1>2, PTL DEF Spec

(* In every reachable state the limiter, the slots and the handlers are    *)
(* what their code takes them for.                                         *)
THEOREM GatewayTypeCorrect == Spec => []GatewayTypeOK
<1>1. LimiterInv /\ RunsInv => GatewayTypeOK
  BY DEF LimiterInv, RunsInv, GatewayTypeOK
<1>2. QED BY <1>1, Invariance, PTL

(* Over no interval is a key let through more often than a full bucket and *)
(* the refill of the interval allow, and the slots counted as taken are    *)
(* those of the handlers that hold one (RateLimiter.allow, SlotLimiter).   *)
THEOREM LimitsAlwaysHeld == Spec => []LimitsHeld
<1>1. ASSUME LimiterInv PROVE QuotaHeld
  <2> SUFFICES ASSUME NEW b \in Ids, NEW since \in 0..time
               PROVE  Passed(b, since) * Whole(b) <= Capacity(b) + (time - since) * Rate(b)
    BY DEF QuotaHeld, Rate
  <2> DEFINE used == Passed(b, since) * Whole(b)
             most == Capacity(b) + (time - since) * Rate(b)
  <2>1. used + Level(b) <= most
    BY <1>1 DEF LimiterInv, Budget
  <2>2. /\ time \in Nat /\ since \in Nat /\ Rate(b) \in Nat /\ Whole(b) \in Nat
        /\ Capacity(b) \in Nat /\ Level(b) \in Nat /\ Passed(b, since) \in Nat
    BY <1>1, Moments, QuotaFacts, LevelFacts, PassedType DEF LimiterInv, LimiterTypeOK
  <2>3. used \in Int /\ most \in Int
    BY <2>2
  <2> HIDE DEF used, most
  <2>4. used <= most
    BY <2>1, <2>2, <2>3
  <2>5. QED BY <2>4 DEF used, most
<1>2. RunsInv => SlotsAccounted
  BY DEF RunsInv, SlotsHeld, Holders, SlotsAccounted
<1>3. LimiterInv /\ RunsInv => LimitsHeld
  BY <1>1, <1>2 DEF LimitsHeld
<1>4. QED BY <1>3, Invariance, PTL

(* A caller that comes back after the Retry-After of its 429, to a bucket  *)
(* nobody used meanwhile, is let through (RateLimiter.allow).              *)
THEOREM RetryAlwaysHonest == Spec => RetryHonest
<1>1. ASSUME LimiterInv, NEW b \in Ids, promise[b] # None, time >= promise[b]
      PROVE  ~Refuse(b)
  <2> SUFFICES ASSUME b \in DOMAIN buckets PROVE Refilled(b) >= Whole(b)
    <3>1. b \in DOMAIN buckets => Refilled(b) \in Nat
      BY <1>1, RefilledFacts
    <3>2. QED BY <3>1, QuotaFacts DEF Refuse
  <2> DEFINE last == buckets[b].last
  <2>1. /\ buckets[b].tokens \in Nat /\ last \in Nat /\ time \in Nat
        /\ (time - last) * Rate(b) \in Nat
        /\ \/ Refilled(b) = Capacity(b)
           \/ Refilled(b) = buckets[b].tokens + (time - last) * Rate(b)
    BY <1>1, RefilledFacts
  <2>2. /\ Rate(b) \in Nat /\ Whole(b) \in Nat /\ Capacity(b) \in Nat
        /\ Whole(b) <= Capacity(b)
    BY QuotaFacts
  <2>3. /\ promise[b] \in Nat
        /\ buckets[b].tokens + (promise[b] - last) * Rate(b) >= Whole(b)
    BY <1>1 DEF LimiterInv, LimiterTypeOK, Promised
  <2> HIDE DEF last
  <2>4. (promise[b] - last) * Rate(b) <= (time - last) * Rate(b)
    BY <1>1, <2>1, <2>2, <2>3, TimesMonotone
  <2>5. (promise[b] - last) * Rate(b) \in Int
    BY <2>1, <2>2, <2>3
  <2>6. QED BY <2>1, <2>2, <2>3, <2>4, <2>5
<1>2. LimiterInv => [\A b \in Ids : promise[b] # None /\ time >= promise[b] => ~Refuse(b)]_vars
  BY <1>1
<1>3. QED BY <1>2, Invariance, PTL DEF RetryHonest

(* A deletion that commits, with no statement failed and no run writing    *)
(* meanwhile, leaves no checkpoint of its thread (delete_thread).          *)
THEOREM DeletedAlwaysGone == Spec => DeletedMeansGone
<1>1. ASSUME RunsInv, NEW r \in DOMAIN request, Commit(r), ~request[r].spoilt
      PROVE  rows' = {}
  <2>1. request[r].pc = "delete" /\ request[r].todo = <<>> /\ rows' = rows \ request[r].gone
    BY <1>1 DEF Commit, At
  <2>2. rows \subseteq request[r].gone \cup Range(request[r].todo)
    BY <1>1, <2>1 DEF RunsInv, DeletionsSound, At
  <2>3. Range(<<>>) = {}
    BY DEF Range
  <2>4. QED BY <2>1, <2>2, <2>3
<1>2. RunsInv => [\A r \in DOMAIN request : Commit(r) /\ ~request[r].spoilt => rows' = {}]_vars
  BY <1>1
<1>3. QED BY <1>2, Invariance, PTL DEF DeletedMeansGone
==============================================================================
