---------------------------- MODULE AccountsProofs ----------------------------
(***************************************************************************)
(* TLAPS proofs about the two components that keep accounts.               *)
(*                                                                         *)
(* UsageBuffer, for any calls, buffer, number of attempts and retention:   *)
(* it implements UsageLog, and what is read of the table, by rows or in    *)
(* sums, is what was recorded.                                             *)
(*                                                                         *)
(* EvalGate, for any labelled items, outputs, verdicts, number of runs,    *)
(* grid, headroom and tolerance: what a verdict of the gate says of the    *)
(* reports, and what the floors are made of.                               *)
(***************************************************************************)
EXTENDS UsageBuffer, EvalGate, CollectionsProofs, SequenceTheorems

Stored == [id : Ids, day : 0..MaxDay, sample : BOOLEAN]
Flushing == {"flush", "finalflush"}

(* The buffer, the batch and the table hold rows of recorded calls.        *)
UsageTypeOK ==
    /\ last \in 0..Len(Calls)
    /\ pending \in Seq(Row) /\ inflight \in Seq(Row)
    /\ failing \in BOOLEAN /\ due \in BOOLEAN
    /\ flusher \in {"sleep", "backoff", "purge", "final", "closed"} \cup Flushing
    /\ table \in Seq(Stored)
    /\ today \in 0..MaxDay
    /\ dropped \subseteq Ids /\ unacked \subseteq Ids

BatchInHand == inflight # <<>> <=> flusher \in Flushing

Ascends(rows) == \A i, j \in DOMAIN rows : i < j => rows[i].id < rows[j].id
Before(rows, later) == \A i \in DOMAIN rows, j \in DOMAIN later : rows[i].id < later[j].id
UpTo(rows, most) == \A i \in DOMAIN rows : rows[i].id <= most

(* The batch is older than what waits, both in recording order.            *)
Ordered ==
    /\ Ascends(inflight) /\ Ascends(pending) /\ Before(inflight, pending)
    /\ UpTo(inflight, last) /\ UpTo(pending, last)

(* A row whose flush was not in doubt is older than what is not written    *)
(* yet, and than the rows after it.                                        *)
Precedes(m, rows) == \A i \in DOMAIN rows : table[m].id < rows[i].id
TableOrdered ==
    /\ UpTo(table, last)
    /\ \A m \in DOMAIN table :
         table[m].id \notin unacked =>
            /\ \A n \in DOMAIN table : m < n => table[m].id < table[n].id
            /\ Precedes(m, inflight) /\ Precedes(m, pending)

SamplesKept ==
    \A n \in DOMAIN table :
        /\ table[n].day <= today
        /\ Call(n).status = "error" /\ today - table[n].day <= Retention => table[n].sample

UInv == UsageTypeOK /\ BatchInHand /\ Ordered /\ TableOrdered /\ SamplesKept
-----------------------------------------------------------------------------
(* Sequences of rows.                                                      *)
LEMMA IdsAreNumbers == Ids = 1..Len(Calls) /\ Ids \subseteq Nat /\ Len(Calls) \in Nat
BY UsageAssumption DEF Ids

LEMMA SeqDomain == ASSUME NEW R, NEW s \in Seq(R) PROVE DOMAIN s = 1..Len(s) /\ Len(s) \in Nat
OBVIOUS

LEMMA RowIds ==
    ASSUME NEW R, NEW rows \in Seq(R), NEW i \in DOMAIN rows,
           \A r \in R : r.id \in Ids
    PROVE  rows[i] \in R /\ rows[i].id \in Ids /\ rows[i].id \in Nat /\ rows[i].id \in IdsOf(rows)
BY IdsAreNumbers DEF IdsOf

LEMMA Joined ==
    ASSUME NEW R, NEW p \in Seq(R), NEW q \in Seq(R)
    PROVE  /\ p \o q \in Seq(R) /\ Len(p \o q) = Len(p) + Len(q)
           /\ \A i \in DOMAIN p : i \in DOMAIN (p \o q) /\ (p \o q)[i] = p[i]
           /\ \A i \in DOMAIN q : Len(p) + i \in DOMAIN (p \o q) /\ (p \o q)[Len(p) + i] = q[i]
           /\ \A i \in DOMAIN (p \o q) :
                 \/ i \in DOMAIN p /\ (p \o q)[i] = p[i]
                 \/ i > Len(p) /\ i - Len(p) \in DOMAIN q /\ (p \o q)[i] = q[i - Len(p)]
<1>1. /\ p \o q \in Seq(R) /\ Len(p \o q) = Len(p) + Len(q)
      /\ Len(p) \in Nat /\ Len(q) \in Nat
      /\ DOMAIN p = 1..Len(p) /\ DOMAIN q = 1..Len(q)
      /\ DOMAIN (p \o q) = 1..(Len(p) + Len(q))
  OBVIOUS
<1>2. \A i \in 1..(Len(p) + Len(q)) :
         (p \o q)[i] = IF i <= Len(p) THEN p[i] ELSE q[i - Len(p)]
  OBVIOUS
<1>3. \A i \in 1..Len(q) : Len(p) + i \in 1..(Len(p) + Len(q)) /\ (p \o q)[Len(p) + i] = q[i]
  BY <1>1, <1>2
<1>4. \A i \in 1..(Len(p) + Len(q)) :
         \/ i \in 1..Len(p) /\ (p \o q)[i] = p[i]
         \/ i > Len(p) /\ i - Len(p) \in 1..Len(q) /\ (p \o q)[i] = q[i - Len(p)]
  BY <1>1, <1>2
<1>5. \A i \in 1..Len(p) : i \in 1..(Len(p) + Len(q)) /\ (p \o q)[i] = p[i]
  BY <1>1, <1>2
<1>6. QED BY <1>1, <1>3, <1>4, <1>5

LEMMA JoinedRows ==
    ASSUME NEW p \in Seq(Row), NEW q \in Seq(Row)
    PROVE  /\ p \o q \in Seq(Row)
           /\ IdsOf(p \o q) = IdsOf(p) \cup IdsOf(q)
           /\ Ascends(p) /\ Ascends(q) /\ Before(p, q) => Ascends(p \o q)
<1>1. IdsOf(p \o q) = IdsOf(p) \cup IdsOf(q)
  <2> DEFINE s == p \o q
  <2>1. \A i \in DOMAIN p : i \in DOMAIN s /\ s[i] = p[i]
    BY Joined
  <2>2. \A i \in DOMAIN q : Len(p) + i \in DOMAIN s /\ s[Len(p) + i] = q[i]
    BY Joined
  <2>3. \A i \in DOMAIN s : \/ i \in DOMAIN p /\ s[i] = p[i]
                            \/ i - Len(p) \in DOMAIN q /\ s[i] = q[i - Len(p)]
    BY Joined
  <2> HIDE DEF s
  <2>4. IdsOf(p) \subseteq IdsOf(s)
    BY <2>1 DEF IdsOf
  <2>5. IdsOf(q) \subseteq IdsOf(s)
    BY <2>2 DEF IdsOf
  <2>6. IdsOf(s) \subseteq IdsOf(p) \cup IdsOf(q)
    BY <2>3 DEF IdsOf
  <2>7. QED BY <2>4, <2>5, <2>6 DEF s
<1>2. ASSUME Ascends(p), Ascends(q), Before(p, q), NEW i \in DOMAIN (p \o q),
             NEW j \in DOMAIN (p \o q), i < j
      PROVE  (p \o q)[i].id < (p \o q)[j].id
  <2>1. DOMAIN p = 1..Len(p) /\ DOMAIN q = 1..Len(q) /\ Len(p) \in Nat
        /\ i \in Nat /\ j \in Nat
    BY Joined
  <2>2. \/ i \in DOMAIN p /\ (p \o q)[i] = p[i]
        \/ i > Len(p) /\ i - Len(p) \in DOMAIN q /\ (p \o q)[i] = q[i - Len(p)]
    BY Joined
  <2>3. \/ j \in DOMAIN p /\ (p \o q)[j] = p[j]
        \/ j > Len(p) /\ j - Len(p) \in DOMAIN q /\ (p \o q)[j] = q[j - Len(p)]
    BY Joined
  <2>4. CASE i \in DOMAIN p /\ j \in DOMAIN p
    BY <1>2, <2>1, <2>2, <2>3, <2>4 DEF Ascends
  <2>5. CASE i \in DOMAIN p /\ j \notin DOMAIN p
    BY <1>2, <2>1, <2>2, <2>3, <2>5 DEF Before
  <2>6. CASE i \notin DOMAIN p
    <3>1. i - Len(p) < j - Len(p) /\ j \notin DOMAIN p
      BY <1>2, <2>1, <2>2, <2>6
    <3>2. QED BY <1>2, <2>1, <2>2, <2>3, <2>6, <3>1 DEF Ascends
  <2>7. QED BY <2>4, <2>5, <2>6
<1>3. Ascends(p) /\ Ascends(q) /\ Before(p, q) => Ascends(p \o q)
  BY <1>2 DEF Ascends
<1>4. QED BY <1>1, <1>3, Joined

(* Every row a requeue keeps stems from one of the batch, in its order.    *)
LEMMA RetainedRows ==
    ASSUME NEW rows \in Seq(Row)
    PROVE  /\ Retained(rows) \in Seq(Row)
           /\ IdsOf(Retained(rows)) \subseteq IdsOf(rows)
           /\ \A i \in DOMAIN Retained(rows) :
                 \E k \in DOMAIN rows : Retained(rows)[i].id = rows[k].id
           /\ Ascends(rows) => Ascends(Retained(rows))
<1> DEFINE aged == Aged(rows)
           keep == {i \in DOMAIN rows : aged[i].attempts < MaxAttempts}
           Old == [id : Ids, attempts : 1..MaxAttempts]
           c == Chosen(aged, keep)
<1>1. /\ MaxAttempts \in Nat \ {0}
      /\ \A i \in DOMAIN rows : rows[i] \in Row
      /\ DOMAIN rows = 1..Len(rows) /\ Len(rows) \in Nat
  BY UsageAssumption
<1>2. /\ DOMAIN aged = 1..Len(rows)
      /\ \A i \in 1..Len(rows) : aged[i] \in Old /\ aged[i].id = rows[i].id
  BY <1>1 DEF Aged, Row
<1>3. aged \in Seq(Old) /\ Len(aged) = Len(rows)
  <2>1. aged = [i \in 1..Len(rows) |-> aged[i]]
    BY <1>1 DEF Aged
  <2> HIDE DEF aged, Old
  <2>2. QED BY <1>1, <1>2, <2>1
<1> HIDE DEF aged
<1>4. c \in Seq(Old) /\ Selects(c, aged, keep, Len(rows))
  <2> HIDE DEF Old, keep
  <2>1. QED BY <1>3, ChosenSelects
<1>5. PICK pos \in [1..Len(c) -> 1..Len(rows)] :
         /\ \A i \in 1..Len(c) : pos[i] \in keep /\ c[i] = aged[pos[i]]
         /\ \A i, j \in 1..Len(c) : i < j => pos[i] < pos[j]
  BY <1>4 DEF Selects
<1>6. c = Retained(rows)
  BY DEF Retained, aged
<1> HIDE DEF c
<1>7. DOMAIN c = 1..Len(c) /\ Len(c) \in Nat
  BY <1>4
<1>8. ASSUME NEW i \in DOMAIN c
      PROVE  c[i] \in Row /\ pos[i] \in DOMAIN rows /\ c[i].id = rows[pos[i]].id
  <2>1. pos[i] \in 1..Len(rows) /\ c[i] = aged[pos[i]] /\ c[i].attempts < MaxAttempts
    BY <1>5, <1>7
  <2>2. c[i] \in Old /\ c[i].id = rows[pos[i]].id
    BY <1>2, <2>1
  <2>3. c[i] = [id |-> c[i].id, attempts |-> c[i].attempts]
        /\ c[i].id \in Ids /\ c[i].attempts \in 0..(MaxAttempts - 1)
    BY <1>1, <2>1, <2>2
  <2>4. QED BY <1>1, <2>1, <2>2, <2>3 DEF Row
<1>9. c \in Seq(Row)
  <2>1. c = [i \in 1..Len(c) |-> c[i]]
    BY <1>4
  <2> HIDE DEF Old
  <2>2. QED BY <1>7, <1>8, <2>1
<1>10. \A i \in DOMAIN c : \E k \in DOMAIN rows : c[i].id = rows[k].id
  BY <1>8
<1>11. ASSUME Ascends(rows), NEW i \in DOMAIN c, NEW j \in DOMAIN c, i < j
       PROVE  c[i].id < c[j].id
  <2>1. pos[i] < pos[j]
    BY <1>5, <1>7, <1>11
  <2>2. QED BY <1>8, <1>11, <2>1 DEF Ascends
<1>12. QED BY <1>6, <1>9, <1>10, <1>11 DEF Ascends, IdsOf

(* A full buffer gives up its oldest row, and has one.                     *)
LEMMA RoomMade ==
    ASSUME NEW rows \in Seq(Row), Ascends(rows)
    PROVE  /\ MakeRoom(rows) \in Seq(Row) /\ Ascends(MakeRoom(rows))
           /\ IdsOf(MakeRoom(rows)) \subseteq IdsOf(rows)
           /\ \A i \in DOMAIN MakeRoom(rows) :
                 \E k \in DOMAIN rows : MakeRoom(rows)[i].id = rows[k].id
           /\ \/ IdsOf(rows) \ IdsOf(MakeRoom(rows)) = {}
              \/ IdsOf(rows) \ IdsOf(MakeRoom(rows)) = Log!Oldest(IdsOf(rows))
<1>1. CASE MakeRoom(rows) = rows
  BY <1>1 DEF IdsOf
<1>2. CASE MakeRoom(rows) # rows
  <2> DEFINE rest == Tail(rows)
  <2>1. MakeRoom(rows) = rest /\ Len(rows) >= BufferMax /\ BufferMax \in Nat \ {0}
    BY <1>2, UsageAssumption DEF MakeRoom
  <2>2. rows # <<>> /\ Len(rows) \in Nat /\ DOMAIN rows = 1..Len(rows)
    BY <2>1
  <2>3. /\ rest \in Seq(Row) /\ Len(rest) = Len(rows) - 1 /\ DOMAIN rest = 1..(Len(rows) - 1)
        /\ \A i \in 1..(Len(rows) - 1) : rest[i] = rows[i + 1]
    BY <2>2
  <2> HIDE DEF rest
  <2>4. /\ 1 \in 1..Len(rows)
        /\ \A i \in 1..(Len(rows) - 1) : i + 1 \in 1..Len(rows) /\ 1 < i + 1
        /\ \A i \in 1..Len(rows) \ {1} : i - 1 \in 1..(Len(rows) - 1) /\ rest[i - 1] = rows[i]
    <3>1. \A i \in 1..Len(rows) \ {1} : i - 1 \in 1..(Len(rows) - 1) /\ (i - 1) + 1 = i
      BY <2>2
    <3>2. 1 \in 1..Len(rows)
      BY <2>1, <2>2
    <3>3. \A i \in 1..(Len(rows) - 1) : i + 1 \in 1..Len(rows) /\ 1 < i + 1
      BY <2>2
    <3>4. QED BY <2>3, <3>1, <3>2, <3>3
  <2>5. \A i \in 1..Len(rows) : rows[i] \in Row /\ rows[i].id \in Nat
    <3>1. \A r \in Row : r.id \in Nat
      BY IdsAreNumbers DEF Row
    <3>2. \A i \in 1..Len(rows) : rows[i] \in Row
      BY <2>2
    <3>3. QED BY <3>1, <3>2
  <2>6. \A i \in 1..Len(rows) : i # 1 => rows[1].id < rows[i].id
    <3>1. \A i \in 1..Len(rows) : i # 1 => 1 < i
      BY <2>2
    <3>2. QED BY <2>2, <2>4, <3>1 DEF Ascends
  <2>7. IdsOf(rows) = {rows[i].id : i \in 1..Len(rows)}
    BY <2>2 DEF IdsOf
  <2>8. IdsOf(rest) = {rest[i].id : i \in 1..(Len(rows) - 1)}
    BY <2>3 DEF IdsOf
  <2>9. IdsOf(rest) = IdsOf(rows) \ {rows[1].id}
    <3>1. ASSUME NEW x \in IdsOf(rest) PROVE x \in IdsOf(rows) \ {rows[1].id}
      <4>1. PICK i \in 1..(Len(rows) - 1) : x = rows[i + 1].id
        BY <2>3, <2>8
      <4>2. i + 1 \in 1..Len(rows) /\ i + 1 # 1
        BY <2>4, <2>2
      <4>3. rows[1].id < rows[i + 1].id
        BY <2>6, <4>2
      <4>4. x # rows[1].id
        BY <2>4, <2>5, <4>1, <4>2, <4>3
      <4>5. QED BY <2>7, <4>1, <4>2, <4>4
    <3>2. ASSUME NEW x \in IdsOf(rows) \ {rows[1].id} PROVE x \in IdsOf(rest)
      <4>1. PICK i \in 1..Len(rows) : x = rows[i].id
        BY <2>7
      <4>2. i - 1 \in 1..(Len(rows) - 1) /\ rest[i - 1].id = x
        BY <2>4, <4>1
      <4>3. QED BY <2>8, <4>2
    <3>3. QED BY <3>1, <3>2
  <2>10. Log!Oldest(IdsOf(rows)) = {rows[1].id}
    <3>1. \A x \in IdsOf(rows) : rows[1].id <= x /\ x \in Nat
      <4>1. ASSUME NEW i \in 1..Len(rows) PROVE rows[1].id <= rows[i].id /\ rows[i].id \in Nat
        BY <2>4, <2>5, <2>6
      <4>2. QED BY <2>7, <4>1
    <3>2. rows[1].id \in IdsOf(rows)
      BY <2>4, <2>7
    <3>3. \A x \in IdsOf(rows) : (\A y \in IdsOf(rows) : x <= y) => x = rows[1].id
      BY <3>1, <3>2
    <3>4. QED BY <3>1, <3>2, <3>3 DEF Log!Oldest
  <2>11. Ascends(rest)
    <3>1. ASSUME NEW i \in 1..(Len(rows) - 1), NEW j \in 1..(Len(rows) - 1), i < j
          PROVE  rest[i].id < rest[j].id
      <4>1. i + 1 < j + 1 /\ i + 1 \in 1..Len(rows) /\ j + 1 \in 1..Len(rows)
        BY <2>4, <3>1
      <4>2. rows[i + 1].id < rows[j + 1].id
        BY <2>2, <4>1 DEF Ascends
      <4>3. QED BY <2>3, <4>2
    <3>2. QED BY <2>3, <3>1 DEF Ascends
  <2>12. \A i \in DOMAIN rest : \E k \in DOMAIN rows : rest[i].id = rows[k].id
    BY <2>2, <2>3, <2>4
  <2>13. IdsOf(rows) \ IdsOf(rest) = {rows[1].id}
    BY <2>4, <2>7, <2>9
  <2>14. QED BY <2>1, <2>3, <2>9, <2>10, <2>11, <2>12, <2>13
<1>3. QED BY <1>1, <1>2
-----------------------------------------------------------------------------
LEMMA InitInv ==
    ASSUME Init
    PROVE  UInv
<1>1. /\ MaxDay \in Nat /\ Len(Calls) \in Nat
      /\ <<>> \in Seq(Row) /\ <<>> \in Seq(Stored) /\ DOMAIN <<>> = {}
  BY UsageAssumption
<1>2. UsageTypeOK
  <2>1. pending \in Seq(Row) /\ inflight \in Seq(Row) /\ table \in Seq(Stored)
    BY <1>1 DEF Init
  <2>2. last \in 0..Len(Calls) /\ today \in 0..MaxDay
    BY <1>1 DEF Init
  <2>3. QED BY <2>1, <2>2 DEF Init, UsageTypeOK
<1>3. QED BY <1>1, <1>2
          DEF Init, UInv, BatchInHand, Flushing, Ordered, Ascends, Before, UpTo, TableOrdered,
              SamplesKept

LEMMA TableIds ==
    ASSUME UsageTypeOK
    PROVE  /\ \A n \in DOMAIN table : table[n] \in Stored /\ table[n].id \in Nat
           /\ \A i \in DOMAIN pending : pending[i] \in Row /\ pending[i].id \in Nat
           /\ \A i \in DOMAIN inflight : inflight[i] \in Row /\ inflight[i].id \in Nat
           /\ last \in Nat /\ today \in Nat
<1>1. \A n \in DOMAIN table : table[n] \in Stored
  BY DEF UsageTypeOK
<1>2. /\ \A i \in DOMAIN pending : pending[i] \in Row
      /\ \A i \in DOMAIN inflight : inflight[i] \in Row
  BY DEF UsageTypeOK
<1>3. /\ \A r \in Stored : r.id \in Nat
      /\ \A r \in Row : r.id \in Nat
  BY IdsAreNumbers DEF Stored, Row
<1>4. last \in Nat /\ today \in Nat
  BY UsageAssumption DEF UsageTypeOK
<1>5. QED BY <1>1, <1>2, <1>3, <1>4

LEMMA RecordKeeps ==
    ASSUME UInv, Record
    PROVE  UInv'
<1> DEFINE room == MakeRoom(pending)
           new == [id |-> last + 1, attempts |-> 0]
<1>1. /\ last' = last + 1 /\ last < Len(Calls) /\ pending' = Append(room, new)
      /\ dropped' = dropped \cup (IdsOf(pending) \ IdsOf(room))
      /\ inflight' = inflight /\ failing' = failing /\ flusher' = flusher /\ table' = table
      /\ today' = today /\ due' = due /\ unacked' = unacked
  BY DEF Record
<1>2. UsageTypeOK /\ Ordered /\ TableOrdered /\ BatchInHand /\ SamplesKept
  BY DEF UInv
<1>3. /\ room \in Seq(Row) /\ Ascends(room)
      /\ \A i \in DOMAIN room : \E k \in DOMAIN pending : room[i].id = pending[k].id
  BY <1>2, RoomMade DEF UsageTypeOK, Ordered
<1>4. /\ last \in Nat /\ last + 1 \in Ids
      /\ \A i \in DOMAIN pending : pending[i].id \in Nat
      /\ \A i \in DOMAIN inflight : inflight[i].id \in Nat
      /\ \A n \in DOMAIN table : table[n].id \in Nat
  BY <1>1, <1>2, TableIds, IdsAreNumbers DEF UsageTypeOK
<1>5. new \in Row /\ new.id = last + 1
  BY <1>4, UsageAssumption DEF Row
<1> HIDE DEF room, new
<1>6. /\ pending' \in Seq(Row) /\ DOMAIN room = 1..Len(room) /\ Len(room) \in Nat
      /\ DOMAIN pending' = 1..(Len(room) + 1)
      /\ \A i \in DOMAIN room : pending'[i] = room[i]
      /\ pending'[Len(room) + 1] = new
  BY <1>1, <1>3, <1>5
<1>7. ASSUME NEW i \in DOMAIN pending'
      PROVE  \/ i = Len(room) + 1 /\ pending'[i].id = last + 1
             \/ i \in DOMAIN room /\ \E k \in DOMAIN pending : pending'[i].id = pending[k].id
  <2>1. i = Len(room) + 1 \/ i \in DOMAIN room
    BY <1>6
  <2>2. QED BY <1>3, <1>5, <1>6, <2>1
<1>8. IdsOf(pending) \subseteq Ids
  <2>1. \A i \in DOMAIN pending : pending[i].id \in Ids
    BY <1>2, TableIds DEF Row
  <2>2. QED BY <2>1 DEF IdsOf
<1>9. UsageTypeOK'
  BY <1>1, <1>2, <1>4, <1>6, <1>8, UsageAssumption DEF UsageTypeOK
<1>10. Ascends(pending')
  <2> SUFFICES ASSUME NEW i \in DOMAIN pending', NEW j \in DOMAIN pending', i < j
               PROVE  pending'[i].id < pending'[j].id
    BY DEF Ascends
  <2>1. i \in DOMAIN room /\ pending'[i] = room[i]
    BY <1>6
  <2>2. CASE j \in DOMAIN room
    BY <1>3, <1>6, <2>1, <2>2 DEF Ascends
  <2>3. CASE j \notin DOMAIN room
    <3>1. pending'[j].id = last + 1
      BY <1>7, <2>3
    <3>2. PICK k \in DOMAIN pending : pending'[i].id = pending[k].id
      BY <1>7, <1>6, <2>1
    <3>3. pending[k].id <= last
      BY <1>2 DEF Ordered, UpTo
    <3>4. QED BY <1>4, <3>1, <3>2, <3>3
  <2>4. QED BY <2>2, <2>3
<1>11. /\ UpTo(pending', last') /\ UpTo(inflight', last') /\ UpTo(table', last')
  <2>1. ASSUME NEW i \in DOMAIN pending' PROVE pending'[i].id <= last'
    <3>1. \A k \in DOMAIN pending : pending[k].id <= last
      BY <1>2 DEF Ordered, UpTo
    <3>2. QED BY <1>1, <1>4, <1>7, <3>1
  <2>2. \A i \in DOMAIN inflight : inflight[i].id <= last
    BY <1>2 DEF Ordered, UpTo
  <2>3. \A n \in DOMAIN table : table[n].id <= last
    BY <1>2 DEF TableOrdered, UpTo
  <2>4. QED BY <1>1, <1>4, <2>1, <2>2, <2>3 DEF UpTo
<1>12. Before(inflight', pending')
  <2> SUFFICES ASSUME NEW i \in DOMAIN inflight, NEW j \in DOMAIN pending'
               PROVE  inflight[i].id < pending'[j].id
    BY <1>1 DEF Before
  <2>1. inflight[i].id <= last /\ \A k \in DOMAIN pending : inflight[i].id < pending[k].id
    BY <1>2 DEF Ordered, UpTo, Before
  <2>2. QED BY <1>4, <1>7, <2>1
<1>13. TableOrdered'
  <2> SUFFICES ASSUME NEW m \in DOMAIN table, table[m].id \notin unacked
               PROVE  /\ \A n \in DOMAIN table : m < n => table[m].id < table[n].id
                      /\ \A i \in DOMAIN inflight : table[m].id < inflight[i].id
                      /\ \A i \in DOMAIN pending' : table[m].id < pending'[i].id
    BY <1>1, <1>11 DEF TableOrdered, Precedes
  <2>1. /\ \A n \in DOMAIN table : m < n => table[m].id < table[n].id
        /\ \A i \in DOMAIN inflight : table[m].id < inflight[i].id
        /\ \A k \in DOMAIN pending : table[m].id < pending[k].id
        /\ table[m].id <= last
    BY <1>2 DEF TableOrdered, Precedes, UpTo
  <2>2. \A i \in DOMAIN pending' : table[m].id < pending'[i].id
    BY <1>4, <1>7, <2>1
  <2>3. QED BY <2>1, <2>2
<1>14. Ordered'
  BY <1>1, <1>2, <1>10, <1>11, <1>12 DEF Ordered
<1>15. BatchInHand' /\ SamplesKept'
  BY <1>1, <1>2 DEF BatchInHand, SamplesKept, Call
<1>16. QED BY <1>9, <1>13, <1>14, <1>15 DEF UInv

LEMMA DrainKeeps ==
    ASSUME UInv, NEW next \in Flushing, Drain(next), flusher \notin Flushing
    PROVE  UInv'
<1>1. /\ pending # <<>> /\ inflight' = pending /\ pending' = <<>> /\ flusher' = next
      /\ last' = last /\ failing' = failing /\ table' = table /\ today' = today
      /\ due' = due /\ dropped' = dropped /\ unacked' = unacked
  BY DEF Drain, AfterDrain
<1>2. UsageTypeOK /\ Ordered /\ TableOrdered /\ BatchInHand /\ SamplesKept
  BY DEF UInv
<1>3. <<>> \in Seq(Row) /\ DOMAIN <<>> = {}
  OBVIOUS
<1>4. UsageTypeOK'
  BY <1>1, <1>2, <1>3 DEF UsageTypeOK
<1>5. Ordered'
  BY <1>1, <1>2, <1>3 DEF Ordered, Ascends, Before, UpTo
<1>6. TableOrdered'
  BY <1>1, <1>2, <1>3 DEF TableOrdered, Precedes, UpTo
<1>7. QED BY <1>1, <1>2, <1>4, <1>5, <1>6 DEF UInv, BatchInHand, SamplesKept, Call

LEMMA GotoKeeps ==
    ASSUME UInv, NEW next \in {"sleep", "backoff", "purge", "final", "closed"}, Goto(next),
           flusher \notin Flushing
    PROVE  UInv'
BY DEF Goto, UInv, UsageTypeOK, Ordered, TableOrdered, Precedes, BatchInHand, SamplesKept, Call,
       Flushing

LEMMA NextDayKeeps ==
    ASSUME UInv, NextDay
    PROVE  UInv'
<1>1. /\ today' = today + 1 /\ today < MaxDay /\ due' = TRUE
      /\ last' = last /\ pending' = pending /\ inflight' = inflight /\ failing' = failing
      /\ flusher' = flusher /\ table' = table /\ dropped' = dropped /\ unacked' = unacked
  BY DEF NextDay
<1>2. UsageTypeOK /\ Ordered /\ TableOrdered /\ BatchInHand /\ SamplesKept
  BY DEF UInv
<1>3. UsageTypeOK'
  BY <1>1, <1>2, UsageAssumption DEF UsageTypeOK
<1>4. SamplesKept'
  <2> SUFFICES ASSUME NEW n \in DOMAIN table
               PROVE  /\ table[n].day <= today + 1
                      /\ Call(n).status = "error" /\ (today + 1) - table[n].day <= Retention
                            => table[n].sample
    BY <1>1 DEF SamplesKept, Call
  <2>1. table[n].day \in Nat /\ today \in Nat /\ Retention \in Nat
    BY <1>2, TableIds, UsageAssumption DEF Stored
  <2>2. /\ table[n].day <= today
        /\ Call(n).status = "error" /\ today - table[n].day <= Retention => table[n].sample
    BY <1>2 DEF SamplesKept
  <2>3. QED BY <2>1, <2>2
<1>5. QED BY <1>1, <1>2, <1>3, <1>4 DEF UInv, Ordered, TableOrdered, Precedes, BatchInHand

(* A purge takes the text of expired rows and leaves the rows.             *)
LEMMA Purged ==
    ASSUME UInv, Purge
    PROVE  /\ table' \in Seq(Stored) /\ DOMAIN table' = DOMAIN table /\ Len(table') = Len(table)
           /\ \A n \in DOMAIN table :
                 /\ table'[n].id = table[n].id /\ table'[n].day = table[n].day
                 /\ table[n].sample /\ today - table[n].day <= Retention => table'[n].sample
<1>1. UsageTypeOK
  BY DEF UInv
<1>2. table \in Seq(Stored) /\ Len(table) \in Nat /\ DOMAIN table = 1..Len(table)
  BY <1>1 DEF UsageTypeOK
<1>3. CASE UNCHANGED table
  BY <1>2, <1>3
<1>4. CASE table' = [n \in DOMAIN table |->
                        [table[n] EXCEPT !.sample = @ /\ ~Expired(table[n])]]
  <2>1. \A n \in 1..Len(table) :
           /\ table'[n] = [table[n] EXCEPT !.sample = @ /\ ~Expired(table[n])]
           /\ table[n] \in Stored
    BY <1>2, <1>4
  <2>2. \A n \in 1..Len(table) :
           /\ table'[n] \in Stored
           /\ table'[n].id = table[n].id /\ table'[n].day = table[n].day
           /\ table'[n].sample = (table[n].sample /\ ~Expired(table[n]))
    BY <2>1 DEF Stored
  <2>3. table' = [n \in 1..Len(table) |-> table'[n]]
    BY <1>2, <1>4
  <2>4. table' \in Seq(Stored) /\ DOMAIN table' = 1..Len(table) /\ Len(table') = Len(table)
    <3> HIDE DEF Stored
    <3>1. QED BY <1>2, <2>2, <2>3
  <2>5. \A n \in 1..Len(table) :
           today - table[n].day <= Retention => ~Expired(table[n])
    <3>1. today \in Nat /\ Retention \in Nat /\ \A n \in 1..Len(table) : table[n].day \in Nat
      BY <1>1, <2>1, TableIds, UsageAssumption DEF Stored
    <3>2. QED BY <3>1 DEF Expired
  <2>6. QED BY <1>2, <2>2, <2>4, <2>5
<1>5. QED BY <1>3, <1>4 DEF Purge

LEMMA PurgeKeeps ==
    ASSUME UInv, Purge
    PROVE  UInv'
<1>1. /\ flusher = "purge" /\ due' = FALSE /\ flusher' = "sleep"
      /\ last' = last /\ pending' = pending /\ inflight' = inflight /\ failing' = failing
      /\ today' = today /\ dropped' = dropped /\ unacked' = unacked
  BY DEF Purge
<1>2. UsageTypeOK /\ Ordered /\ TableOrdered /\ BatchInHand /\ SamplesKept
  BY DEF UInv
<1>3. /\ table' \in Seq(Stored) /\ DOMAIN table' = DOMAIN table
      /\ \A n \in DOMAIN table :
           /\ table'[n].id = table[n].id /\ table'[n].day = table[n].day
           /\ table[n].sample /\ today - table[n].day <= Retention => table'[n].sample
  BY Purged
<1>4. UsageTypeOK'
  BY <1>1, <1>2, <1>3 DEF UsageTypeOK
<1>5. TableOrdered'
  BY <1>1, <1>2, <1>3 DEF TableOrdered, Precedes, UpTo
<1>6. SamplesKept'
  BY <1>1, <1>2, <1>3 DEF SamplesKept, Call
<1>7. QED BY <1>1, <1>2, <1>4, <1>5, <1>6 DEF UInv, Ordered, BatchInHand, Flushing

(* The rows an INSERT adds are those of the batch, in its order.           *)
Additions ==
    [n \in DOMAIN inflight |->
        [id |-> inflight[n].id, day |-> today, sample |-> Sampled(Calls[inflight[n].id])]]

LEMMA AdditionsAre ==
    ASSUME UsageTypeOK
    PROVE  /\ Additions \in Seq(Stored) /\ DOMAIN Additions = DOMAIN inflight
           /\ Len(Additions) = Len(inflight)
           /\ \A n \in DOMAIN inflight :
                 /\ Additions[n].id = inflight[n].id /\ Additions[n].day = today
                 /\ Calls[inflight[n].id].status = "error" => Additions[n].sample
           /\ Inserted(TRUE) = table \o Additions /\ Inserted(FALSE) = table
<1>1. inflight \in Seq(Row) /\ Len(inflight) \in Nat /\ DOMAIN inflight = 1..Len(inflight)
  BY DEF UsageTypeOK
<1>2. \A n \in 1..Len(inflight) :
         /\ Additions[n].id = inflight[n].id /\ Additions[n].day = today
         /\ Additions[n].sample = Sampled(Calls[inflight[n].id])
         /\ Additions[n] \in Stored
  <2> SUFFICES ASSUME NEW n \in 1..Len(inflight)
               PROVE  /\ Additions[n].id = inflight[n].id /\ Additions[n].day = today
                      /\ Additions[n].sample = Sampled(Calls[inflight[n].id])
                      /\ Additions[n] \in Stored
    OBVIOUS
  <2>1. Sampled(Calls[inflight[n].id]) \in BOOLEAN
    BY DEF Sampled
  <2>2. inflight[n].id \in Ids
    BY <1>1, TableIds DEF Row
  <2>3. today \in 0..MaxDay
    BY DEF UsageTypeOK
  <2>4. QED BY <1>1, <2>1, <2>2, <2>3 DEF Additions, Stored
<1>3. Additions = [n \in 1..Len(inflight) |-> Additions[n]]
  BY <1>1 DEF Additions
<1>4. /\ Additions \in Seq(Stored) /\ DOMAIN Additions = 1..Len(inflight)
      /\ Len(Additions) = Len(inflight)
  <2>1. \A n \in 1..Len(inflight) : Additions[n] \in Stored
    BY <1>2
  <2>2. QED BY ONLY <1>1, <1>3, <2>1
<1>5. QED BY <1>1, <1>2, <1>4 DEF Inserted, Additions, Sampled

(* A batch was inserted: the table is still in order, provided its rows    *)
(* are older than the rest of the buffer or were in doubt.                 *)
LEMMA InsertedRows ==
    ASSUME UInv, NEW committed \in BOOLEAN, table' = Inserted(committed),
           today' = today, last' = last, unacked \subseteq unacked', inflight' = <<>>,
           \A i \in DOMAIN pending' : \/ \E k \in DOMAIN pending : pending'[i].id = pending[k].id
                                      \/ \E k \in DOMAIN inflight : pending'[i].id = inflight[k].id,
           \/ ~committed
           \/ pending' = pending
           \/ IdsOf(inflight) \subseteq unacked'
    PROVE  table' \in Seq(Stored) /\ TableOrdered' /\ SamplesKept'
<1>1. UsageTypeOK /\ Ordered /\ TableOrdered /\ SamplesKept
  BY DEF UInv
<1>2. /\ \A n \in DOMAIN table : table[n].id \in Nat /\ table[n].day \in Nat
      /\ \A i \in DOMAIN pending : pending[i].id \in Nat
      /\ \A i \in DOMAIN inflight : inflight[i].id \in Nat
      /\ last \in Nat /\ today \in Nat
      /\ table \in Seq(Stored)
  BY <1>1, TableIds DEF UsageTypeOK, Stored
<1>3. CASE ~committed
  <2>1. table' = table
    BY <1>1, <1>3, AdditionsAre
  <2>2. TableOrdered'
    <3> SUFFICES ASSUME NEW m \in DOMAIN table, table[m].id \notin unacked'
                 PROVE  /\ \A n \in DOMAIN table : m < n => table[m].id < table[n].id
                        /\ \A i \in DOMAIN pending' : table[m].id < pending'[i].id
      BY <1>1, <2>1 DEF TableOrdered, Precedes, UpTo
    <3>1. /\ \A n \in DOMAIN table : m < n => table[m].id < table[n].id
          /\ \A i \in DOMAIN pending : table[m].id < pending[i].id
          /\ \A i \in DOMAIN inflight : table[m].id < inflight[i].id
      BY <1>1 DEF TableOrdered, Precedes
    <3>2. QED BY <3>1
  <2>3. QED BY <1>1, <1>2, <2>1, <2>2 DEF SamplesKept, Call
<1>4. CASE committed
  <2> DEFINE new == Additions
             len == Len(table)
             joined == table \o new
  <2>1. /\ new \in Seq(Stored) /\ DOMAIN new = DOMAIN inflight
        /\ \A n \in DOMAIN inflight :
              /\ new[n].id = inflight[n].id /\ new[n].day = today
              /\ Calls[inflight[n].id].status = "error" => new[n].sample
        /\ table' = joined
    BY <1>1, <1>4, AdditionsAre
  <2> HIDE DEF new
  <2>2. joined \in Seq(Stored) /\ DOMAIN table = 1..len /\ len \in Nat
        /\ DOMAIN new = 1..Len(new) /\ Len(new) \in Nat
    BY <1>2, <2>1, Joined
  <2>3. ASSUME NEW n \in DOMAIN joined
        PROVE  \/ n \in DOMAIN table /\ joined[n] = table[n]
               \/ n > len /\ n - len \in DOMAIN new /\ joined[n] = new[n - len]
    BY <1>2, <2>1, Joined
  <2> HIDE DEF joined
  <2>4. UpTo(joined, last)
    <3> SUFFICES ASSUME NEW n \in DOMAIN joined PROVE joined[n].id <= last
      BY DEF UpTo
    <3>1. /\ \A m \in DOMAIN table : table[m].id <= last
          /\ \A m \in DOMAIN inflight : inflight[m].id <= last
      BY <1>1 DEF TableOrdered, Ordered, UpTo
    <3>2. QED BY <2>1, <2>3, <3>1
  <2>5. ASSUME NEW m \in DOMAIN joined, joined[m].id \notin unacked'
        PROVE  /\ \A n \in DOMAIN joined : m < n => joined[m].id < joined[n].id
               /\ \A i \in DOMAIN pending' : joined[m].id < pending'[i].id
    <3>1. CASE m \in DOMAIN table /\ joined[m] = table[m]
      <4>1. /\ \A n \in DOMAIN table : m < n => table[m].id < table[n].id
            /\ \A i \in DOMAIN pending : table[m].id < pending[i].id
            /\ \A i \in DOMAIN inflight : table[m].id < inflight[i].id
        BY <1>1, <2>5, <3>1 DEF TableOrdered, Precedes
      <4>2. \A i \in DOMAIN pending' : joined[m].id < pending'[i].id
        BY <3>1, <4>1
      <4>3. \A n \in DOMAIN joined : m < n => joined[m].id < joined[n].id
        BY <2>1, <2>3, <3>1, <4>1
      <4>4. QED BY <4>2, <4>3
    <3>2. CASE m > len /\ m - len \in DOMAIN new /\ joined[m] = new[m - len]
      <4>1. m - len \in DOMAIN inflight /\ joined[m].id = inflight[m - len].id
        BY <2>1, <3>2
      <4>2. joined[m].id \in IdsOf(inflight)
        BY <4>1 DEF IdsOf
      <4>3. pending' = pending
        BY <1>4, <2>5, <4>2
      <4>4. \A i \in DOMAIN pending : joined[m].id < pending[i].id
        BY <1>1, <4>1 DEF Ordered, Before
      <4>5. ASSUME NEW n \in DOMAIN joined, m < n PROVE joined[m].id < joined[n].id
        <5>1. m \in Nat /\ n \in Nat
          BY <2>2, <3>2 DEF joined
        <5>2. n > len /\ n - len \in DOMAIN inflight /\ joined[n].id = inflight[n - len].id
          <6>1. n \notin DOMAIN table
            BY <2>2, <3>2, <4>5, <5>1
          <6>2. QED BY <2>1, <2>3, <6>1
        <5>3. m - len < n - len
          BY <2>2, <4>5, <5>1
        <5>4. QED BY <1>1, <4>1, <5>2, <5>3 DEF Ordered, Ascends
      <4>6. QED BY <4>3, <4>4, <4>5
    <3>3. QED BY <2>3, <3>1, <3>2
  <2>6. TableOrdered'
    BY <2>1, <2>4, <2>5 DEF TableOrdered, Precedes
  <2>7. SamplesKept'
    <3> SUFFICES ASSUME NEW n \in DOMAIN joined
                 PROVE  /\ joined[n].day <= today
                        /\ Calls[joined[n].id].status = "error" /\ today - joined[n].day <= Retention
                              => joined[n].sample
      BY <2>1 DEF SamplesKept, Call
    <3>1. CASE n \in DOMAIN table /\ joined[n] = table[n]
      BY <1>1, <3>1 DEF SamplesKept, Call
    <3>2. CASE n - len \in DOMAIN new /\ joined[n] = new[n - len]
      BY <1>2, <2>1, <3>2
    <3>3. QED BY <2>3, <3>1, <3>2
  <2>8. QED BY <2>1, <2>2, <2>6, <2>7
<1>5. QED BY <1>3, <1>4

LEMMA SucceedKeeps ==
    ASSUME UInv, NEW next \in {"purge", "closed"}, Succeed(next), flusher \in Flushing
    PROVE  UInv'
<1>1. /\ table' = Inserted(TRUE) /\ inflight' = <<>> /\ failing' = FALSE /\ flusher' = next
      /\ last' = last /\ pending' = pending /\ today' = today /\ due' = due
      /\ dropped' = dropped /\ unacked' = unacked
  BY DEF Succeed
<1>2. UsageTypeOK /\ Ordered
  BY DEF UInv
<1>3. <<>> \in Seq(Row) /\ DOMAIN <<>> = {}
  OBVIOUS
<1>4. table' \in Seq(Stored) /\ TableOrdered' /\ SamplesKept'
  BY <1>1, InsertedRows
<1>5. UsageTypeOK'
  BY <1>1, <1>2, <1>3, <1>4 DEF UsageTypeOK
<1>6. Ordered'
  BY <1>1, <1>2, <1>3 DEF Ordered, Ascends, Before, UpTo
<1>7. QED BY <1>1, <1>4, <1>5, <1>6 DEF UInv, BatchInHand, Flushing

LEMMA RequeueKeeps ==
    ASSUME UInv, NEW committed \in BOOLEAN, NEW next \in {"backoff", "final", "closed"},
           Requeue(committed, next), flusher \in Flushing
    PROVE  UInv'
<1> DEFINE kept == Retained(inflight)
           queued == kept \o pending
<1>1. /\ table' = Inserted(committed) /\ inflight' = <<>> /\ failing' = TRUE /\ flusher' = next
      /\ unacked' = IF committed THEN unacked \cup IdsOf(inflight) ELSE unacked
      /\ pending' = queued
      /\ dropped' = dropped \cup (IdsOf(inflight) \ IdsOf(kept))
      /\ last' = last /\ today' = today /\ due' = due
  BY DEF Requeue, Requeued
<1>2. UsageTypeOK /\ Ordered
  BY DEF UInv
<1>3. inflight \in Seq(Row) /\ pending \in Seq(Row)
  BY <1>2 DEF UsageTypeOK
<1>4. /\ kept \in Seq(Row) /\ Ascends(kept)
      /\ \A i \in DOMAIN kept : \E k \in DOMAIN inflight : kept[i].id = inflight[k].id
  BY <1>2, <1>3, RetainedRows DEF Ordered
<1> HIDE DEF kept
<1>5. Before(kept, pending)
  BY <1>2, <1>4 DEF Ordered, Before
<1>6. queued \in Seq(Row) /\ Ascends(queued)
  BY <1>2, <1>3, <1>4, <1>5, JoinedRows DEF Ordered
<1>7. ASSUME NEW i \in DOMAIN queued
      PROVE  \/ \E k \in DOMAIN pending : queued[i].id = pending[k].id
             \/ \E k \in DOMAIN inflight : queued[i].id = inflight[k].id
  <2>1. \/ i \in DOMAIN kept /\ queued[i] = kept[i]
        \/ i - Len(kept) \in DOMAIN pending /\ queued[i] = pending[i - Len(kept)]
    BY <1>3, <1>4, Joined
  <2>2. QED BY <1>4, <2>1
<1> HIDE DEF queued
<1>8. IdsOf(inflight) \subseteq Ids
  <2>1. \A i \in DOMAIN inflight : inflight[i].id \in Ids
    BY <1>2, TableIds DEF Row
  <2>2. QED BY <2>1 DEF IdsOf
<1>9. table' \in Seq(Stored) /\ TableOrdered' /\ SamplesKept'
  <2>1. unacked \subseteq unacked' /\ (~committed \/ IdsOf(inflight) \subseteq unacked')
    BY <1>1
  <2>2. \A i \in DOMAIN pending' : \/ \E k \in DOMAIN pending : pending'[i].id = pending[k].id
                                   \/ \E k \in DOMAIN inflight : pending'[i].id = inflight[k].id
    BY <1>1, <1>7
  <2>3. QED BY <1>1, <2>1, <2>2, InsertedRows
<1>10. <<>> \in Seq(Row) /\ DOMAIN <<>> = {}
  OBVIOUS
<1>11. UsageTypeOK'
  BY <1>1, <1>2, <1>6, <1>8, <1>9, <1>10 DEF UsageTypeOK
<1>12. UpTo(queued, last)
  BY <1>2, <1>7 DEF Ordered, UpTo
<1>13. Ordered'
  BY <1>1, <1>6, <1>10, <1>12 DEF Ordered, Ascends, Before, UpTo
<1>14. QED BY <1>1, <1>9, <1>11, <1>13 DEF UInv, BatchInHand, Flushing

LEMMA NextKeeps ==
    ASSUME UInv, [Next]_vars
    PROVE  UInv'
<1>1. CASE Record
  BY <1>1, RecordKeeps
<1>2. CASE Wake
  <2>1. CASE Drain("flush")
    BY <1>2, <2>1, DrainKeeps DEF Wake, Flushing
  <2>2. QED BY <1>2, <2>1, GotoKeeps DEF Wake, Flushing
<1>3. CASE BackoffEnds
  BY <1>3, GotoKeeps DEF BackoffEnds, Flushing
<1>4. CASE Purge
  BY <1>4, PurgeKeeps
<1>5. CASE FlushEnds
  BY <1>5, SucceedKeeps, RequeueKeeps DEF FlushEnds, Flushing
<1>6. CASE FinalDrain
  <2>1. CASE Drain("finalflush")
    BY <1>6, <2>1, DrainKeeps DEF FinalDrain, Flushing
  <2>2. QED BY <1>6, <2>1, GotoKeeps DEF FinalDrain, Flushing
<1>7. CASE FinalFlushEnds
  BY <1>7, SucceedKeeps, RequeueKeeps DEF FinalFlushEnds, Flushing
<1>8. CASE Cancel
  BY <1>8, GotoKeeps, RequeueKeeps DEF Cancel, Flushing
<1>9. CASE NextDay
  BY <1>9, NextDayKeeps
<1>10. CASE UNCHANGED vars
  BY <1>10 DEF vars, UInv, UsageTypeOK, BatchInHand, Ordered, TableOrdered, Precedes,
               SamplesKept, Call
<1>11. QED BY <1>1, <1>2, <1>3, <1>4, <1>5, <1>6, <1>7, <1>8, <1>9, <1>10
           DEF Next, FlusherStep

LEMMA Invariance == Spec => []UInv
<1>1. Init => UInv
  BY InitInv
<1>2. UInv /\ [Next]_vars => UInv'
  BY NextKeeps
<1>3. QED BY <1>1, <1>2, PTL DEF Spec
-----------------------------------------------------------------------------
(* The abstract log.                                                       *)
LogOf(rows) == [n \in DOMAIN rows |-> rows[n].id]

LEMMA LogFacts ==
    ASSUME NEW rows \in Seq(Stored)
    PROVE  /\ LogOf(rows) \in Seq(Nat) /\ Len(LogOf(rows)) = Len(rows)
           /\ DOMAIN LogOf(rows) = 1..Len(rows)
           /\ \A n \in 1..Len(rows) : LogOf(rows)[n] = rows[n].id
<1>1. /\ DOMAIN rows = 1..Len(rows) /\ Len(rows) \in Nat
      /\ \A n \in 1..Len(rows) : rows[n].id \in Nat
  <2>1. \A r \in Stored : r.id \in Nat
    BY IdsAreNumbers DEF Stored
  <2>2. /\ DOMAIN rows = 1..Len(rows) /\ Len(rows) \in Nat
        /\ \A n \in 1..Len(rows) : rows[n] \in Stored
    OBVIOUS
  <2>3. QED BY <2>1, <2>2
<1>2. /\ \A n \in 1..Len(rows) : LogOf(rows)[n] = rows[n].id /\ LogOf(rows)[n] \in Nat
      /\ LogOf(rows) = [n \in 1..Len(rows) |-> LogOf(rows)[n]]
  BY <1>1 DEF LogOf
<1>3. LogOf(rows) \in Seq(Nat) /\ Len(LogOf(rows)) = Len(rows)
  BY ONLY <1>1, <1>2
<1>4. QED BY <1>1, <1>2, <1>3

(* As many observations are in a batch as it has rows.                     *)
LEMMA BatchSize ==
    ASSUME UInv
    PROVE  Cardinality(IdsOf(inflight)) = Len(inflight)
<1> DEFINE f == [n \in 1..Len(inflight) |-> inflight[n].id]
<1>1. /\ DOMAIN inflight = 1..Len(inflight) /\ Len(inflight) \in Nat
      /\ \A n \in 1..Len(inflight) : inflight[n].id \in Nat
  <2>1. inflight \in Seq(Row)
    BY DEF UInv, UsageTypeOK
  <2>2. DOMAIN inflight = 1..Len(inflight)
    BY <2>1
  <2>3. QED BY <2>1, <2>2, TableIds DEF UInv
<1>2. \A m, n \in 1..Len(inflight) : m < n => inflight[m].id < inflight[n].id
  BY <1>1 DEF UInv, Ordered, Ascends
<1>3. IdsOf(inflight) = {inflight[n].id : n \in 1..Len(inflight)}
  BY <1>1 DEF IdsOf
<1>4. f \in Bijection(1..Len(inflight), IdsOf(inflight))
  <2>1. f \in [1..Len(inflight) -> IdsOf(inflight)]
    BY <1>3
  <2>2. ASSUME NEW m \in 1..Len(inflight), NEW n \in 1..Len(inflight), f[m] = f[n]
        PROVE  m = n
    <3>1. inflight[m].id = inflight[n].id
      BY <2>2
    <3>2. ~(m < n) /\ ~(n < m)
      BY <1>1, <1>2, <3>1
    <3>3. QED BY <1>1, <3>2
  <2>3. \A x \in IdsOf(inflight) : \E n \in 1..Len(inflight) : f[n] = x
    BY <1>3
  <2> HIDE DEF f
  <2>4. QED BY <2>1, <2>2, <2>3 DEF Bijection, Injection, Surjection, IsInjective
<1>5. ExistsBijection(1..Len(inflight), IdsOf(inflight))
  BY <1>4, Zenon DEF ExistsBijection
<1>6. QED BY <1>1, <1>5, FS_CountingElements

(* An INSERT writes the batch behind the log, in recording order.          *)
LEMMA InsertWrites ==
    ASSUME UInv, table' = Inserted(TRUE)
    PROVE  Log!Write
<1> DEFINE old == LogOf(table)
           new == LogOf(table')
           len == Len(table)
           more == Len(inflight)
           added == SubSeq(new, len + 1, len + more)
<1>1. UsageTypeOK
  BY DEF UInv
<1>2. /\ table \in Seq(Stored) /\ Additions \in Seq(Stored) /\ table' = table \o Additions
      /\ Len(Additions) = more /\ DOMAIN Additions = DOMAIN inflight
      /\ \A n \in DOMAIN inflight : Additions[n].id = inflight[n].id
      /\ DOMAIN inflight = 1..more /\ more \in Nat
      /\ DOMAIN table = 1..len /\ len \in Nat
  <2>1. inflight \in Seq(Row) /\ table \in Seq(Stored)
    BY <1>1 DEF UsageTypeOK
  <2>2. /\ DOMAIN inflight = 1..more /\ more \in Nat
        /\ DOMAIN table = 1..len /\ len \in Nat
    BY <2>1
  <2>3. QED BY <1>1, <2>1, <2>2, AdditionsAre
<1>3. /\ table' \in Seq(Stored) /\ Len(table') = len + more
      /\ \A n \in 1..len : table'[n] = table[n]
      /\ \A n \in 1..more : table'[len + n] = Additions[n]
  <2> DEFINE joined == table \o Additions
  <2>1. joined \in Seq(Stored) /\ Len(joined) = len + Len(Additions)
    BY <1>2, Joined
  <2>2. \A n \in DOMAIN table : joined[n] = table[n]
    BY <1>2, Joined
  <2>3. \A n \in DOMAIN Additions : joined[len + n] = Additions[n]
    BY <1>2, Joined
  <2> HIDE DEF joined
  <2>4. table' = joined
    BY <1>2 DEF joined
  <2>5. QED BY <1>2, <2>1, <2>2, <2>3, <2>4
<1>4. /\ old \in Seq(Nat) /\ Len(old) = len /\ new \in Seq(Nat) /\ Len(new) = len + more
      /\ \A n \in 1..len : old[n] = table[n].id
      /\ \A n \in 1..(len + more) : new[n] = table'[n].id
  BY <1>2, <1>3, LogFacts
<1>5. /\ \A n \in 1..len : new[n] = old[n]
      /\ \A n \in 1..more : new[len + n] = inflight[n].id
  <2>1. \A n \in 1..len : n \in 1..(len + more)
    BY <1>2
  <2>2. \A n \in 1..more : len + n \in 1..(len + more)
    BY <1>2
  <2>3. \A n \in 1..len : new[n] = old[n]
    <3>1. \A n \in 1..len : table'[n] = table[n]
      BY <1>2, <1>3
    <3>2. QED BY <1>4, <2>1, <3>1
  <2>4. \A n \in 1..more : new[len + n] = inflight[n].id
    <3>1. \A n \in 1..more : table'[len + n].id = inflight[n].id
      BY <1>2, <1>3
    <3>2. QED BY <1>4, <2>2, <3>1
  <2>5. QED BY <2>3, <2>4
<1> HIDE DEF old, new, len, more
<1>6. SubSeq(new, 1, len) = old
  <2> DEFINE s == SubSeq(new, 1, len)
  <2>1. /\ s \in Seq(Nat) /\ Len(s) = len /\ \A n \in 1..len : s[n] = new[n]
    <3>1. \A n \in 1..len : new[n] \in Nat
      BY <1>2, <1>4
    <3>2. /\ s \in Seq(Nat) /\ Len(s) = IF 1 <= len THEN len - 1 + 1 ELSE 0
          /\ \A n \in 1..(len - 1 + 1) : s[n] = new[1 + n - 1]
      BY <1>2, <3>1, SubSeqProperties
    <3>3. \A n \in 1..len : 1 + n - 1 = n
      BY <1>2
    <3>4. len - 1 + 1 = len /\ (~(1 <= len) => len = 0)
      BY <1>2
    <3>5. QED BY <3>2, <3>3, <3>4
  <2> HIDE DEF s
  <2>2. QED BY <1>4, <1>5, <2>1
<1>7. /\ added \in Seq(Nat) /\ Len(added) = more
      /\ \A n \in 1..more : added[n] = inflight[n].id
  <2>1. \A n \in (len + 1)..(len + more) : new[n] \in Nat
    BY <1>2, <1>4
  <2>2. /\ added \in Seq(Nat)
        /\ Len(added) = IF len + 1 <= len + more THEN (len + more) - (len + 1) + 1 ELSE 0
        /\ \A n \in 1..((len + more) - (len + 1) + 1) : added[n] = new[len + 1 + n - 1]
    BY <1>2, <2>1, SubSeqProperties
  <2>3. \A n \in 1..more : len + 1 + n - 1 = len + n
    BY <1>2
  <2>4. (len + more) - (len + 1) + 1 = more /\ (~(len + 1 <= len + more) => more = 0)
    BY <1>2
  <2>5. QED BY <1>5, <2>2, <2>3, <2>4
<1> HIDE DEF added
<1>8. DOMAIN added = 1..more
  BY <1>7
<1>9. Log!Ascending(added, IdsOf(inflight))
  <2>1. {added[k] : k \in DOMAIN added} = IdsOf(inflight)
    BY <1>2, <1>7, <1>8 DEF IdsOf
  <2>2. \A k, l \in DOMAIN added : k < l => added[k] < added[l]
    BY <1>2, <1>7, <1>8 DEF UInv, Ordered, Ascends
  <2>3. QED BY <2>1, <2>2 DEF Log!Ascending
<1>10. Cardinality(IdsOf(inflight)) = more
  BY BatchSize DEF more
<1>11. /\ Len(new) = Len(old) + Cardinality(IdsOf(inflight))
       /\ SubSeq(new, 1, Len(old)) = old
       /\ Log!Ascending(SubSeq(new, Len(old) + 1, Len(new)), IdsOf(inflight))
  BY <1>4, <1>6, <1>9, <1>10 DEF added
<1>12. /\ old = [n \in DOMAIN table |-> table[n].id]
       /\ new = [n \in DOMAIN table' |-> table'[n].id]
  BY DEF old, new, LogOf
<1>13. Log!Cardinality(IdsOf(inflight)) = Cardinality(IdsOf(inflight))
  BY Zenon DEF Cardinality, Log!Cardinality
<1>14. QED BY <1>11, <1>12, <1>13 DEF Log!Write

(* Rows are there exactly if their ids are.                                *)
LEMMA SomeRows ==
    ASSUME NEW rows \in Seq(Row)
    PROVE  IdsOf(rows) = {} <=> rows = <<>>
<1>1. DOMAIN rows = 1..Len(rows) /\ Len(rows) \in Nat
  OBVIOUS
<1>2. CASE rows = <<>>
  BY <1>2 DEF IdsOf
<1>3. CASE rows # <<>>
  <2>1. 1 \in DOMAIN rows
    BY <1>1, <1>3
  <2>2. QED BY <1>3, <2>1 DEF IdsOf
<1>4. QED BY <1>2, <1>3

LEMMA InitMaps == Init => Log!Init
BY DEF Init, Log!Init, IdsOf

LEMMA SameLog ==
    ASSUME table' = table
    PROVE  [n \in DOMAIN table |-> table[n].id]' = [n \in DOMAIN table |-> table[n].id]
OBVIOUS

LEMMA RecordMaps ==
    ASSUME UInv, Record
    PROVE  Log!Observe
<1> DEFINE room == MakeRoom(pending)
           new == [id |-> last + 1, attempts |-> 0]
           lost == IdsOf(pending) \ IdsOf(room)
<1>1. /\ last' = last + 1 /\ last < Len(Calls) /\ pending' = Append(room, new)
      /\ dropped' = dropped \cup lost
      /\ inflight' = inflight /\ flusher' = flusher /\ table' = table
      /\ flusher # "closed"
  BY DEF Record
<1>2. UsageTypeOK /\ Ordered
  BY DEF UInv
<1>3. /\ room \in Seq(Row) /\ IdsOf(room) \subseteq IdsOf(pending)
      /\ lost = {} \/ lost = Log!Oldest(IdsOf(pending))
  BY <1>2, RoomMade DEF UsageTypeOK, Ordered
<1>4. last \in Nat /\ last + 1 \in Ids
  BY <1>1, <1>2, TableIds, IdsAreNumbers
<1>5. IdsOf(pending') = IdsOf(room) \cup {last + 1}
  <2> HIDE DEF room
  <2>1. /\ DOMAIN pending' = 1..(Len(room) + 1) /\ DOMAIN room = 1..Len(room)
        /\ Len(room) \in Nat /\ \A i \in 1..Len(room) : pending'[i] = room[i]
        /\ pending'[Len(room) + 1].id = last + 1
    BY <1>1, <1>3
  <2>2. 1..(Len(room) + 1) = 1..Len(room) \cup {Len(room) + 1}
    BY <2>1
  <2>3. QED BY <2>1, <2>2 DEF IdsOf
<1> HIDE DEF room
<1>6. IdsOf(pending') = (IdsOf(pending) \ lost) \cup {last + 1}
  BY <1>3, <1>5
<1>7. /\ last + 1 \notin 1..last /\ 1..(last + 1) = 1..last \cup {last + 1}
      /\ \A j \in 1..last : j < last + 1
  BY <1>4
<1> HIDE DEF lost
<1>8. \E i \in Ids \ 1..last, gone \in {{}, Log!Oldest(IdsOf(pending))} :
        /\ \A j \in 1..last : j < i
        /\ 1..last' = 1..last \cup {i}
        /\ IdsOf(pending') = (IdsOf(pending) \ gone) \cup {i}
        /\ dropped' = dropped \cup gone
  BY <1>1, <1>3, <1>4, <1>6, <1>7
<1>9. /\ IdsOf(inflight') = IdsOf(inflight)
      /\ (flusher # "closed") /\ (flusher' # "closed")
  BY <1>1
<1>10. QED BY <1>1, <1>8, <1>9, SameLog DEF Log!Observe, IdsOf

LEMMA DrainMaps ==
    ASSUME UInv, NEW next \in Flushing, Drain(next), flusher \notin Flushing,
           flusher # "closed"
    PROVE  Log!Take
<1>1. /\ pending # <<>> /\ inflight' = pending /\ pending' = <<>> /\ flusher' = next
      /\ last' = last /\ table' = table /\ dropped' = dropped /\ next # "closed"
  BY DEF Drain, AfterDrain, Flushing
<1>2. pending \in Seq(Row) /\ inflight \in Seq(Row) /\ inflight = <<>>
  BY DEF UInv, UsageTypeOK, BatchInHand
<1>3. IdsOf(pending) # {} /\ IdsOf(inflight) = {} /\ IdsOf(<<>>) = {}
  BY <1>1, <1>2, SomeRows DEF IdsOf
<1>4. IdsOf(inflight)' = IdsOf(pending) /\ IdsOf(pending)' = {}
  BY <1>1, <1>3 DEF IdsOf
<1>5. QED BY <1>1, <1>3, <1>4, SameLog DEF Log!Take

LEMMA SucceedMaps ==
    ASSUME UInv, NEW next \in {"purge", "closed"}, Succeed(next), flusher \in Flushing
    PROVE  Log!Written
<1>1. /\ table' = Inserted(TRUE) /\ inflight' = <<>> /\ flusher' = next
      /\ last' = last /\ pending' = pending /\ dropped' = dropped
  BY DEF Succeed
<1>2. inflight \in Seq(Row) /\ inflight # <<>>
  BY DEF UInv, UsageTypeOK, BatchInHand
<1>3. IdsOf(inflight) # {} /\ IdsOf(inflight)' = {}
  BY <1>1, <1>2, SomeRows DEF IdsOf
<1>4. Log!Write
  BY <1>1, InsertWrites
<1>5. (flusher # "closed")' \in {flusher # "closed", FALSE}
  BY <1>1 DEF Flushing
<1>6. IdsOf(pending)' = IdsOf(pending)
  BY <1>1 DEF IdsOf
<1>7. QED BY <1>1, <1>3, <1>4, <1>5, <1>6 DEF Log!Written, Log!Closing

LEMMA RequeueMaps ==
    ASSUME UInv, NEW committed \in BOOLEAN, NEW next \in {"backoff", "final", "closed"},
           Requeue(committed, next), flusher \in Flushing
    PROVE  Log!Doubted
<1> DEFINE kept == Retained(inflight)
           lost == IdsOf(inflight) \ IdsOf(kept)
<1>1. /\ table' = Inserted(committed) /\ inflight' = <<>> /\ flusher' = next
      /\ pending' = kept \o pending /\ dropped' = dropped \cup lost
      /\ last' = last
  BY DEF Requeue, Requeued
<1>2. /\ inflight \in Seq(Row) /\ inflight # <<>> /\ pending \in Seq(Row)
      /\ UsageTypeOK
  BY DEF UInv, UsageTypeOK, BatchInHand
<1>3. kept \in Seq(Row) /\ IdsOf(kept) \subseteq IdsOf(inflight)
  BY <1>2, RetainedRows
<1> HIDE DEF kept
<1>4. IdsOf(pending') = IdsOf(kept) \cup IdsOf(pending)
  BY <1>1, <1>2, <1>3, JoinedRows
<1>5. IdsOf(pending') = IdsOf(pending) \cup (IdsOf(inflight) \ lost)
  BY <1>3, <1>4
<1>6. IdsOf(inflight) # {} /\ IdsOf(inflight)' = {}
  BY <1>1, <1>2, SomeRows DEF IdsOf
<1>7. Log!Write \/ table' = table
  BY <1>1, <1>2, InsertWrites, AdditionsAre
<1>8. (flusher # "closed")' \in {flusher # "closed", FALSE}
  BY <1>1 DEF Flushing
<1>9. \E gone \in SUBSET IdsOf(inflight) :
         /\ dropped' = dropped \cup gone
         /\ IdsOf(pending)' = IdsOf(pending) \cup (IdsOf(inflight) \ gone)
  <2>1. lost \in SUBSET IdsOf(inflight) /\ IdsOf(pending)' = IdsOf(pending')
    BY DEF IdsOf
  <2> HIDE DEF lost
  <2>2. QED BY <1>1, <1>5, <2>1
<1>10. Log!Write \/ UNCHANGED [n \in DOMAIN table |-> table[n].id]
  BY <1>7, SameLog
<1>11. QED BY <1>1, <1>6, <1>8, <1>9, <1>10 DEF Log!Doubted, Log!Closing

(* A step of the flusher that moves no observation.                        *)
LEMMA Stutters ==
    ASSUME UInv, (flusher' # "closed") = (flusher # "closed"),
           last' = last, pending' = pending, inflight' = inflight, dropped' = dropped,
           table' = table \/ Purge
    PROVE  UNCHANGED Log!log_vars
<1>1. IdsOf(pending)' = IdsOf(pending) /\ IdsOf(inflight)' = IdsOf(inflight)
  BY DEF IdsOf
<1>2. [n \in DOMAIN table |-> table[n].id]' = [n \in DOMAIN table |-> table[n].id]
  BY Purged, SameLog
<1>3. QED BY <1>1, <1>2 DEF Log!log_vars

LEMMA GotoMaps ==
    ASSUME UInv, NEW next \in {"sleep", "backoff", "purge", "final"}, Goto(next),
           flusher # "closed"
    PROVE  UNCHANGED Log!log_vars
BY Stutters DEF Goto

LEMMA NextMaps ==
    ASSUME UInv, [Next]_vars
    PROVE  [Log!Next]_Log!log_vars
<1>1. CASE Record
  BY <1>1, RecordMaps DEF Log!Next
<1>2. CASE Wake
  <2>1. CASE Drain("flush")
    BY <1>2, <2>1, DrainMaps DEF Wake, Flushing, Log!Next
  <2>2. QED BY <1>2, <2>1, GotoMaps DEF Wake
<1>3. CASE BackoffEnds
  BY <1>3, GotoMaps DEF BackoffEnds
<1>4. CASE Purge
  BY <1>4, Stutters DEF Purge
<1>5. CASE FlushEnds
  BY <1>5, SucceedMaps, RequeueMaps DEF FlushEnds, Flushing, Log!Next
<1>6. CASE FinalDrain
  <2>1. CASE Drain("finalflush")
    BY <1>6, <2>1, DrainMaps DEF FinalDrain, Flushing, Log!Next
  <2>2. CASE pending = <<>> /\ Goto("closed")
    <3>1. /\ flusher' = "closed" /\ last' = last /\ pending' = pending
          /\ inflight' = inflight /\ dropped' = dropped /\ table' = table
          /\ flusher = "final"
      BY <1>6, <2>2 DEF Goto, FinalDrain
    <3>2. inflight = <<>>
      BY <3>1 DEF UInv, BatchInHand, Flushing
    <3>3. IdsOf(inflight) = {} /\ IdsOf(inflight)' = IdsOf(inflight)
          /\ IdsOf(pending)' = IdsOf(pending)
      BY <3>1, <3>2 DEF IdsOf
    <3>4. Log!Close
      BY <3>1, <3>3, SameLog DEF Log!Close
    <3>5. QED BY <3>4 DEF Log!Next
  <2>3. QED BY <1>6, <2>1, <2>2 DEF FinalDrain
<1>7. CASE FinalFlushEnds
  BY <1>7, SucceedMaps, RequeueMaps DEF FinalFlushEnds, Flushing, Log!Next
<1>8. CASE Cancel
  BY <1>8, GotoMaps, RequeueMaps DEF Cancel, Flushing, Log!Next
<1>9. CASE NextDay
  BY <1>9, Stutters DEF NextDay
<1>10. CASE UNCHANGED vars
  BY <1>10, Stutters DEF vars
<1>11. QED BY <1>1, <1>2, <1>3, <1>4, <1>5, <1>6, <1>7, <1>8, <1>9, <1>10
           DEF Next, FlusherStep

(* The buffer, its flusher and the shutdown implement the abstract log:    *)
(* whatever the order of recordings, failed and doubtful flushes and the   *)
(* cancellation, an observation is written in order, waits, or is given up *)
(* with a log line, the oldest first (record_call, flush_usage_buffer).    *)
THEOREM LogImplemented == Spec => ImplementsLog
<1>1. Init => Log!Init
  BY InitMaps
<1>2. UInv /\ [Next]_vars => [Log!Next]_Log!log_vars
  BY NextMaps
<1>3. QED BY <1>1, <1>2, Invariance, PTL DEF Spec, ImplementsLog, Log!Spec
-----------------------------------------------------------------------------
(* The buffer, the batch and the table only ever hold rows of recorded     *)
(* calls, with fewer failed flushes than give a row up (usage.py).         *)
THEOREM UsageTypeCorrect == Spec => []UsageTypeOK
<1>1. UInv => UsageTypeOK
  BY DEF UInv
<1>2. QED BY <1>1, Invariance, PTL

(* A trace replays in call order, but for the rows whose flush was in      *)
(* doubt (get_trace).                                                      *)
THEOREM TracesAlwaysReplay == Spec => []TracesReplay
<1>1. ASSUME UInv PROVE TracesReplay
  <2> SUFFICES ASSUME NEW trace \in {Calls[i].trace : i \in Ids},
                      NEW m \in DOMAIN GetTrace(trace, Len(table)),
                      NEW n \in DOMAIN GetTrace(trace, Len(table)),
                      m < n, GetTrace(trace, Len(table))[m].id \notin unacked
               PROVE  GetTrace(trace, Len(table))[m].id < GetTrace(trace, Len(table))[n].id
    BY DEF TracesReplay
  <2> DEFINE of == {k \in DOMAIN table : Call(k).trace = trace}
             c == Chosen(table, of)
             most == IF Len(table) < Len(c) THEN Len(table) ELSE Len(c)
             replay == GetTrace(trace, Len(table))
  <2>1. table \in Seq(Stored) /\ Len(table) \in Nat /\ DOMAIN table = 1..Len(table)
    BY <1>1 DEF UInv, UsageTypeOK
  <2>2. c \in Seq(Stored) /\ Selects(c, table, of, Len(table))
    <3> HIDE DEF of
    <3>1. QED BY <2>1, ChosenSelects
  <2>3. replay = SubSeq(c, 1, most)
    BY DEF GetTrace, FirstN
  <2> HIDE DEF c
  <2>4. PICK pos \in [1..Len(c) -> 1..Len(table)] :
          /\ \A i \in 1..Len(c) : pos[i] \in of /\ c[i] = table[pos[i]]
          /\ \A i, j \in 1..Len(c) : i < j => pos[i] < pos[j]
    BY <2>2 DEF Selects
  <2>5. /\ Len(c) \in Nat /\ most \in Nat /\ most <= Len(c)
        /\ \A i \in 1..Len(c) : c[i] \in Stored
    BY <2>1, <2>2
  <2> HIDE DEF replay, most, of
  <2>6. Len(replay) = most /\ \A i \in 1..most : replay[i] = c[i]
    <3>1. \A i \in 1..most : c[i] \in Stored
      BY <2>5
    <3>2. /\ Len(SubSeq(c, 1, most)) = IF 1 <= most THEN most - 1 + 1 ELSE 0
          /\ \A i \in 1..(most - 1 + 1) : SubSeq(c, 1, most)[i] = c[1 + i - 1]
      BY <2>5, <3>1, SubSeqProperties
    <3>3. most - 1 + 1 = most /\ (~(1 <= most) => most = 0) /\ \A i \in 1..most : 1 + i - 1 = i
      BY <2>5
    <3>4. QED BY <2>3, <3>2, <3>3
  <2>7. DOMAIN replay = 1..most
    <3>1. \A i \in 1..most : c[i] \in Stored
      BY <2>5
    <3>2. replay \in Seq(Stored)
      BY <2>3, <2>5, <3>1, SubSeqProperties
    <3>3. QED BY <2>6, <3>2
  <2>8. m \in 1..most /\ n \in 1..most /\ m \in 1..Len(c) /\ n \in 1..Len(c)
    BY <2>5, <2>7 DEF replay
  <2>9. replay[m] = table[pos[m]] /\ replay[n] = table[pos[n]] /\ pos[m] < pos[n]
        /\ pos[m] \in DOMAIN table /\ pos[n] \in DOMAIN table
    BY <2>1, <2>4, <2>6, <2>8
  <2>10. table[pos[m]].id \notin unacked
    BY <2>9 DEF replay
  <2>11. table[pos[m]].id < table[pos[n]].id
    BY <1>1, <2>9, <2>10 DEF UInv, TableOrdered
  <2>12. QED BY <2>9, <2>11 DEF replay
<1>2. UInv => TracesReplay
  BY <1>1
<1>3. QED BY <1>2, Invariance, PTL

(* The text of a failed call is found among the samples as long as its     *)
(* retention lasts (_should_sample, _purge_expired_samples, get_samples).  *)
THEOREM ErrorsAlwaysSampled == Spec => []ErrorsSampled
<1>1. ASSUME UInv PROVE ErrorsSampled
  <2> SUFFICES ASSUME NEW n \in DOMAIN table, Call(n).status = "error",
                      today - table[n].day <= Retention
               PROVE  n \in GetSamples("error", Len(table))
    BY DEF ErrorsSampled
  <2> DEFINE found == {m \in DOMAIN table : table[m].sample /\ Call(m).status = "error"}
             newer == {m \in found : table[m].day > table[n].day}
  <2>1. table \in Seq(Stored) /\ Len(table) \in Nat /\ DOMAIN table = 1..Len(table)
    BY <1>1 DEF UInv, UsageTypeOK
  <2>2. n \in found
    BY <1>1 DEF UInv, SamplesKept
  <2>3. n \notin newer
    BY <1>1, TableIds DEF UInv, Stored
  <2>4. IsFiniteSet(1..Len(table)) /\ Cardinality(1..Len(table)) = Len(table)
    BY <2>1, NumbersFinite
  <2>5. IsFiniteSet(1..Len(table) \ {n}) /\ Cardinality(1..Len(table) \ {n}) = Len(table) - 1
    <3> DEFINE all == 1..Len(table)
    <3>1. n \in all
      BY <2>1
    <3> HIDE DEF all
    <3>2. IsFiniteSet(all) /\ Cardinality(all) = Len(table)
      BY <2>4 DEF all
    <3>3. QED BY <3>1, <3>2, FS_RemoveElement DEF all
  <2>6. newer \subseteq 1..Len(table) \ {n}
    BY <2>1, <2>3
  <2>7. IsFiniteSet(newer) /\ Cardinality(newer) <= Len(table) - 1
    BY <2>5, <2>6, FS_Subset
  <2>8. Cardinality(newer) \in Nat
    BY <2>7, FS_CardinalityType
  <2>9. Cardinality(newer) < Len(table)
    BY <2>1, <2>7, <2>8
  <2>10. QED BY <2>2, <2>9 DEF GetSamples
<1>2. UInv => ErrorsSampled
  BY <1>1
<1>3. QED BY <1>2, Invariance, PTL
-----------------------------------------------------------------------------
(* Prices, and the cost of one call, which is linear in its tokens.        *)
LEMMA PriceIs == \A model : Price(model).in \in Nat /\ Price(model).out \in Nat
<1> SUFFICES ASSUME NEW model PROVE Price(model).in \in Nat /\ Price(model).out \in Nat
  OBVIOUS
<1> DEFINE matching == {n \in DOMAIN PriceRules : PriceRules[n].fragment \in model}
           first == CHOOSE n \in matching : \A m \in matching : n <= m
<1>1. CASE matching = {}
  BY <1>1, UsageAssumption DEF Price
<1>2. CASE matching # {}
  <2>1. matching \subseteq DOMAIN PriceRules /\ matching \subseteq Nat
    BY UsageAssumption
  <2> HIDE DEF matching
  <2>2. PICK n \in matching : \A m \in matching : ~(m < n)
    BY <1>2, <2>1, LeastNumber
  <2>3. \A m \in matching : n <= m
    BY <2>1, <2>2
  <2>4. first \in matching
    BY <2>3
  <2> HIDE DEF first
  <2>5. PriceRules[first].in \in Nat /\ PriceRules[first].out \in Nat
    BY <2>1, <2>4, UsageAssumption
  <2>6. Price(model) = PriceRules[first]
    BY <1>2, Zenon DEF Price, first, matching
  <2>7. QED BY <2>5, <2>6
<1>3. QED BY <1>1, <1>2

Tokens(used) ==
    used.input \in Nat /\ used.output \in Nat /\ used.read \in Nat /\ used.creation \in Nat
FullRate(model) == 10 * Price(model).in
OutRate(model) == 10 * Price(model).out
ReadRate(provider, model) == Price(model).in * CacheReadFactor(provider, model)

LEMMA CostIsLinear ==
    ASSUME NEW provider, NEW model, NEW used, Tokens(used)
    PROVE  /\ FullRate(model) \in Nat /\ OutRate(model) \in Nat /\ ReadRate(provider, model) \in Nat
           /\ EstimateCost(provider, model, used)
                = FullRate(model) * used.input + OutRate(model) * used.output
                  + FullRate(model) * used.creation + ReadRate(provider, model) * used.read
<1> DEFINE in == Price(model).in
           out == Price(model).out
           factor == CacheReadFactor(provider, model)
<1>1. in \in Nat /\ out \in Nat /\ factor \in Nat
  BY PriceIs DEF CacheReadFactor
<1>2. EstimateCost(provider, model, used)
        = 10 * (used.input * in + used.output * out + used.creation * in) + used.read * in * factor
  BY DEF EstimateCost
<1>3. FullRate(model) = 10 * in /\ OutRate(model) = 10 * out /\ ReadRate(provider, model) = in * factor
  BY DEF FullRate, OutRate, ReadRate
<1> HIDE DEF in, out, factor
<1>4. \A i, o, c, r, a, b, f \in Nat :
        /\ 10 * (i * a + o * b + c * a) = (10 * a) * i + (10 * b) * o + (10 * a) * c
        /\ r * a * f = (a * f) * r
  OBVIOUS
<1>5. \A a, f \in Nat : 10 * a \in Nat /\ a * f \in Nat
  OBVIOUS
<1>6. /\ 10 * (used.input * in + used.output * out + used.creation * in)
           = (10 * in) * used.input + (10 * out) * used.output + (10 * in) * used.creation
      /\ used.read * in * factor = (in * factor) * used.read
  BY <1>1, <1>4 DEF Tokens
<1>7. QED BY <1>1, <1>2, <1>3, <1>5, <1>6

(* Calls of one provider and model cost together what they cost alone.     *)
LEMMA CostsAddUp ==
    ASSUME NEW provider, NEW model, NEW S, IsFiniteSet(S), S \subseteq DOMAIN table,
           NEW alone, \A n \in S : Tokens(Call(n)),
           \A n \in S : alone[n] = EstimateCost(provider, model, Call(n))
    PROVE  EstimateCost(provider, model, Used(S)) = Total(alone, S) /\ Naturals(alone, S)
<1> DEFINE full == FullRate(model)
           outr == OutRate(model)
           readr == ReadRate(provider, model)
           i == [n \in S |-> Call(n).input]
           o == [n \in S |-> Call(n).output]
           c == [n \in S |-> Call(n).creation]
           r == [n \in S |-> Call(n).read]
           fi == [n \in S |-> full * i[n]]
           oo == [n \in S |-> outr * o[n]]
           fc == [n \in S |-> full * c[n]]
           rr == [n \in S |-> readr * r[n]]
           io == [n \in S |-> fi[n] + oo[n]]
           ioc == [n \in S |-> io[n] + fc[n]]
<1>1. Naturals(i, S) /\ Naturals(o, S) /\ Naturals(c, S) /\ Naturals(r, S)
  BY DEF Naturals, Tokens
<1>2. Used(S) = [input |-> Total(i, S), output |-> Total(o, S), read |-> Total(r, S),
                 creation |-> Total(c, S)]
  BY DEF Used
<1>3. /\ Total(i, S) \in Nat /\ Total(o, S) \in Nat /\ Total(c, S) \in Nat /\ Total(r, S) \in Nat
  BY <1>1, TotalType
<1>4. Tokens(Used(S))
  <2> HIDE DEF i, o, c, r
  <2>1. QED BY <1>2, <1>3 DEF Tokens
<1>5. full \in Nat /\ outr \in Nat /\ readr \in Nat
  BY <1>4, CostIsLinear
<1>6. EstimateCost(provider, model, Used(S))
        = full * Total(i, S) + outr * Total(o, S) + full * Total(c, S) + readr * Total(r, S)
  <2>1. EstimateCost(provider, model, Used(S))
          = full * Used(S).input + outr * Used(S).output + full * Used(S).creation
            + readr * Used(S).read
    BY <1>4, CostIsLinear
  <2> HIDE DEF i, o, c, r, full, outr, readr
  <2>2. /\ Used(S).input = Total(i, S) /\ Used(S).output = Total(o, S)
        /\ Used(S).creation = Total(c, S) /\ Used(S).read = Total(r, S)
    BY <1>2
  <2>3. QED BY <2>1, <2>2
<1>7. \A n \in S : alone[n] = ioc[n] + rr[n]
  <2>1. ASSUME NEW n \in S PROVE alone[n] = ioc[n] + rr[n]
    <3>1. alone[n] = full * Call(n).input + outr * Call(n).output + full * Call(n).creation
                     + readr * Call(n).read
      BY CostIsLinear
    <3>2. i[n] = Call(n).input /\ o[n] = Call(n).output /\ c[n] = Call(n).creation
          /\ r[n] = Call(n).read
      OBVIOUS
    <3> HIDE DEF i, o, c, r, full, outr, readr
    <3>3. ioc[n] = full * i[n] + outr * o[n] + full * c[n] /\ rr[n] = readr * r[n]
      OBVIOUS
    <3>4. QED BY <3>1, <3>2, <3>3
  <2>2. QED BY <2>1
<1>8. \A k, m \in Nat : k * m \in Nat
  OBVIOUS
<1> HIDE DEF i, o, c, r, full, outr, readr
<1>9. Naturals(fi, S) /\ Naturals(oo, S) /\ Naturals(fc, S) /\ Naturals(rr, S)
  BY <1>1, <1>5, <1>8 DEF Naturals
<1>10. Naturals(io, S) /\ Naturals(ioc, S)
  BY <1>9 DEF Naturals
<1>11. /\ Total(fi, S) = full * Total(i, S) /\ Total(oo, S) = outr * Total(o, S)
       /\ Total(fc, S) = full * Total(c, S) /\ Total(rr, S) = readr * Total(r, S)
  <2>1. /\ \A n \in S : fi[n] = full * i[n]
        /\ \A n \in S : oo[n] = outr * o[n]
        /\ \A n \in S : fc[n] = full * c[n]
        /\ \A n \in S : rr[n] = readr * r[n]
    OBVIOUS
  <2> HIDE DEF fi, oo, fc, rr
  <2>2. QED BY <1>1, <1>5, <2>1, TotalTimes
<1>12. Total(io, S) = Total(fi, S) + Total(oo, S)
  <2>1. \A n \in S : io[n] = fi[n] + oo[n]
    OBVIOUS
  <2> HIDE DEF io, fi, oo
  <2>2. QED BY <1>9, <2>1, TotalPlus
<1>13. Total(ioc, S) = Total(io, S) + Total(fc, S)
  <2>1. \A n \in S : ioc[n] = io[n] + fc[n]
    OBVIOUS
  <2> HIDE DEF io, ioc, fc
  <2>2. QED BY <1>9, <1>10, <2>1, TotalPlus
<1> HIDE DEF ioc, rr, io, fi, oo, fc
<1>14. Total(alone, S) = Total(ioc, S) + Total(rr, S)
  BY <1>7, <1>9, <1>10, TotalPlus
<1>15. Naturals(alone, S)
  BY <1>7, <1>9, <1>10 DEF Naturals
<1>16. QED BY <1>6, <1>11, <1>12, <1>13, <1>14, <1>15

(* The rows of a window, the first of each group, and the group it heads.  *)
LEMMA WindowRows ==
    ASSUME UInv, NEW days
    PROVE  /\ IsFiniteSet(Recent(days)) /\ Recent(days) \subseteq DOMAIN table
           /\ Recent(days) \subseteq Nat /\ \A n \in Recent(days) : Tokens(Call(n))
<1>1. table \in Seq(Stored) /\ Len(table) \in Nat /\ DOMAIN table = 1..Len(table)
  BY DEF UInv, UsageTypeOK
<1>2. Recent(days) \subseteq 1..Len(table)
  BY <1>1 DEF Recent
<1>3. IsFiniteSet(1..Len(table))
  BY <1>1, NumbersFinite
<1>4. IsFiniteSet(Recent(days))
  <2> DEFINE all == 1..Len(table)
  <2>1. IsFiniteSet(all) /\ Recent(days) \subseteq all
    BY <1>2, <1>3
  <2> HIDE DEF all
  <2>2. QED BY <2>1, FS_Subset
<1>5. \A n \in DOMAIN table : table[n].id \in DOMAIN Calls
  <2>1. \A n \in DOMAIN table : table[n] \in Stored
    BY <1>1
  <2>2. QED BY <2>1 DEF Stored, Ids
<1>6. \A n \in DOMAIN table : Tokens(Call(n))
  <2>1. \A i \in DOMAIN Calls : Tokens(Calls[i])
    BY UsageAssumption DEF Tokens
  <2>2. QED BY <1>5, <2>1, Zenon DEF Call
<1>7. QED BY <1>1, <1>2, <1>4, <1>6

LEMMA GroupsHeaded ==
    ASSUME UInv, NEW days, NEW kind, NEW n \in Recent(days)
    PROVE  \E h \in Firsts(kind, days) : Group(kind, h) = Group(kind, n)
<1> DEFINE G == GroupWith(kind, days, n)
<1>1. G \subseteq Recent(days) /\ n \in G /\ Recent(days) \subseteq Nat
  BY WindowRows DEF GroupWith
<1>2. \A m \in G : Group(kind, m) = Group(kind, n) /\ GroupWith(kind, days, m) = G
  BY DEF GroupWith
<1> HIDE DEF G
<1>3. PICK h \in G : \A m \in G : ~(m < h)
  BY <1>1, LeastNumber
<1>4. \A m \in GroupWith(kind, days, h) : h <= m
  BY <1>1, <1>2, <1>3
<1>5. h \in Firsts(kind, days)
  BY <1>1, <1>3, <1>4 DEF Firsts
<1>6. QED BY <1>2, <1>3, <1>5

LEMMA HeadsDiffer ==
    ASSUME UInv, NEW days, NEW kind, NEW g \in Firsts(kind, days), NEW h \in Firsts(kind, days),
           Group(kind, g) = Group(kind, h)
    PROVE  g = h
<1>1. g \in Recent(days) /\ h \in Recent(days) /\ Recent(days) \subseteq Nat
  BY WindowRows DEF Firsts
<1>2. g \in GroupWith(kind, days, h) /\ h \in GroupWith(kind, days, g)
  BY <1>1 DEF GroupWith
<1>3. h <= g /\ g <= h
  BY <1>2 DEF Firsts
<1>4. QED BY <1>1, <1>3

(* The lines of a summary add up to the window's calls, and to what these  *)
(* cost one by one although they are priced in groups ("All summaries      *)
(* group by their key *and* (provider, model)", usage.py).                 *)
THEOREM SummariesAlwaysAddUp == Spec => []SummariesAddUp
<1>1. ASSUME UInv PROVE SummariesAddUp
  <2> SUFFICES
        ASSUME NEW kind \in {"day", "scenario", "model"}, NEW days \in 0..MaxDay
        PROVE  Totals(Summary(kind, days))
                 = [calls |-> Cardinality(Recent(days)),
                    cost |-> Total([n \in Recent(days) |->
                               EstimateCost(Call(n).provider, Call(n).model, Call(n))], Recent(days))]
    BY DEF SummariesAddUp
  <2> DEFINE rows == Recent(days)
             key == [n \in rows |-> Key(kind, n)]
             K == {Key(kind, n) : n \in rows}
             ones == [n \in rows |-> 1]
             alone == [n \in rows |-> EstimateCost(Call(n).provider, Call(n).model, Call(n))]
             firsts == Firsts(kind, days)
             priced == [n \in firsts |-> GroupCost(kind, days, n)]
             lines == Summary(kind, days)
             calls == [k \in K |-> lines[k].calls]
             costs == [k \in K |-> lines[k].cost]
             headOf == [n \in rows |-> CHOOSE h \in firsts : Group(kind, h) = Group(kind, n)]
  <2>1. /\ IsFiniteSet(rows) /\ rows \subseteq DOMAIN table
        /\ rows \subseteq Nat /\ \A n \in rows : Tokens(Call(n))
    BY <1>1, WindowRows
  <2>2. IsFiniteSet(K) /\ \A n \in rows : key[n] \in K
    <3>1. IsFiniteSet({key[n] : n \in rows})
      <4> HIDE DEF key
      <4>1. QED BY <2>1, ImageFinite
    <3>2. {key[n] : n \in rows} = K
      OBVIOUS
    <3>3. QED BY <3>1, <3>2
  <2>3. /\ DOMAIN lines = K
        /\ \A k \in K : /\ lines[k].calls = Cardinality(Line(kind, days, k))
                        /\ lines[k].cost = Total([n \in firsts \cap Line(kind, days, k) |->
                                                 GroupCost(kind, days, n)],
                                                firsts \cap Line(kind, days, k))
    BY DEF Summary
  <2>4. firsts \subseteq rows /\ IsFiniteSet(firsts)
    <3>1. firsts \subseteq rows
      BY DEF Firsts
    <3> HIDE DEF firsts, rows
    <3>2. QED BY <2>1, <3>1, FS_Subset
  <2>5. Totals(lines) = [calls |-> Total(calls, K), cost |-> Total(costs, K)]
    <3> HIDE DEF lines, K
    <3>1. QED BY <2>3 DEF Totals
  <2>6. Total(calls, K) = Cardinality(rows)
    <3>1. \A k \in K : calls[k] = Total(ones, GroupOf(key, rows, k))
      <4> SUFFICES ASSUME NEW k \in K PROVE calls[k] = Total(ones, GroupOf(key, rows, k))
        OBVIOUS
      <4>1. GroupOf(key, rows, k) = Line(kind, days, k) /\ Line(kind, days, k) \subseteq rows
        BY DEF GroupOf, Line
      <4>2. IsFiniteSet(Line(kind, days, k))
        BY <2>1, <4>1, FS_Subset
      <4>3. \A n \in Line(kind, days, k) : ones[n] = 1
        BY <4>1
      <4>4. calls[k] = Cardinality(Line(kind, days, k))
        BY <2>3
      <4> HIDE DEF calls, ones, key, rows, lines, K
      <4>5. Total(ones, Line(kind, days, k)) = Cardinality(Line(kind, days, k))
        BY <4>2, <4>3, TotalOnes
      <4>6. QED BY <4>1, <4>4, <4>5
    <3>2. \A n \in rows : ones[n] = 1
      OBVIOUS
    <3> HIDE DEF calls, ones, key, rows, K
    <3>3. Naturals(ones, rows)
      BY <3>2 DEF Naturals
    <3>4. Total(ones, rows) = Total(calls, K)
      BY <2>1, <2>2, <3>1, <3>3, TotalGroups
    <3>5. QED BY <2>1, <3>2, <3>4, TotalOnes
  <2>7. \A n \in rows : headOf[n] \in firsts /\ Group(kind, headOf[n]) = Group(kind, n)
    <3> SUFFICES ASSUME NEW n \in rows
                 PROVE  headOf[n] \in firsts /\ Group(kind, headOf[n]) = Group(kind, n)
      OBVIOUS
    <3>1. \E h \in firsts : Group(kind, h) = Group(kind, n)
      BY <1>1, GroupsHeaded
    <3>2. headOf[n] = CHOOSE h \in firsts : Group(kind, h) = Group(kind, n)
      OBVIOUS
    <3> HIDE DEF headOf, firsts, rows
    <3>3. QED BY <3>1, <3>2, Zenon
  <2>8. /\ \A h \in firsts : priced[h] = Total(alone, GroupOf(headOf, rows, h))
        /\ Naturals(alone, rows)
    <3>1. ASSUME NEW h \in firsts PROVE priced[h] = Total(alone, GroupOf(headOf, rows, h))
      <4> DEFINE G == GroupWith(kind, days, h)
                 p == Call(h).provider
                 m == Call(h).model
      <4>1. GroupOf(headOf, rows, h) = G
        <5>1. \A n \in rows : headOf[n] = h <=> Group(kind, n) = Group(kind, h)
          <6> HIDE DEF headOf, firsts, rows
          <6>1. QED BY <1>1, <2>4, <2>7, HeadsDiffer DEF firsts
        <5> HIDE DEF headOf
        <5>2. QED BY <5>1 DEF GroupOf, GroupWith
      <4>2. G \subseteq rows /\ G \subseteq DOMAIN table /\ IsFiniteSet(G)
        <5>1. G \subseteq rows
          BY DEF GroupWith
        <5> HIDE DEF G, rows
        <5>2. QED BY <2>1, <5>1, FS_Subset
      <4>3. \A n \in G : Tokens(Call(n)) /\ Call(n).provider = p /\ Call(n).model = m
        BY <2>1, <4>2 DEF GroupWith, Group
      <4>4. \A n \in G : alone[n] = EstimateCost(p, m, Call(n))
        BY <4>2, <4>3
      <4>5. priced[h] = EstimateCost(p, m, Used(G))
        BY DEF GroupCost
      <4> HIDE DEF G, p, m, alone, priced, firsts, rows, headOf
      <4>6. EstimateCost(p, m, Used(G)) = Total(alone, G)
        BY <4>2, <4>3, <4>4, CostsAddUp
      <4>7. QED BY <4>1, <4>5, <4>6
    <3>2. ASSUME NEW n \in rows PROVE alone[n] \in Nat
      <4> DEFINE p == Call(n).provider
                 m == Call(n).model
      <4>1. Tokens(Call(n)) /\ alone[n] = EstimateCost(p, m, Call(n))
        BY <2>1
      <4>2. /\ EstimateCost(p, m, Call(n))
                = FullRate(m) * Call(n).input + OutRate(m) * Call(n).output
                  + FullRate(m) * Call(n).creation + ReadRate(p, m) * Call(n).read
            /\ FullRate(m) \in Nat /\ OutRate(m) \in Nat /\ ReadRate(p, m) \in Nat
        BY <4>1, CostIsLinear
      <4>3. \A a, b, c, d, e, f, g, h \in Nat : a * b + c * d + e * f + g * h \in Nat
        OBVIOUS
      <4> HIDE DEF alone, p, m
      <4>4. QED BY <4>1, <4>2, <4>3 DEF Tokens
    <3> HIDE DEF alone, priced, firsts, rows, headOf
    <3>3. QED BY <3>1, <3>2 DEF Naturals
  <2>9. Total(alone, rows) = Total(priced, firsts)
    <3> HIDE DEF alone, priced, firsts, rows, headOf
    <3>1. QED BY <2>1, <2>4, <2>7, <2>8, TotalGroups
  <2>10. Naturals(priced, firsts)
    <3>1. ASSUME NEW h \in firsts PROVE priced[h] \in Nat
      <4> HIDE DEF alone, priced, firsts, rows, headOf
      <4>1. GroupOf(headOf, rows, h) \subseteq rows
        BY DEF GroupOf
      <4>2. IsFiniteSet(GroupOf(headOf, rows, h)) /\ Naturals(alone, GroupOf(headOf, rows, h))
        BY <2>1, <2>8, <4>1, FS_Subset DEF Naturals
      <4>3. QED BY <2>8, <4>2, TotalType
    <3> HIDE DEF priced, firsts
    <3>2. QED BY <3>1 DEF Naturals
  <2>11. Total(priced, firsts) = Total(costs, K)
    <3> DEFINE kept == [n \in firsts |-> key[n]]
    <3>1. ASSUME NEW k \in K PROVE costs[k] = Total(priced, GroupOf(kept, firsts, k))
      <4> DEFINE H == firsts \cap Line(kind, days, k)
                 own == [n \in H |-> GroupCost(kind, days, n)]
      <4>1. GroupOf(kept, firsts, k) = H
        BY <2>4 DEF GroupOf, Line
      <4>2. costs[k] = Total(own, H)
        BY <2>3
      <4>3. \A n \in H : own[n] = priced[n]
        OBVIOUS
      <4>4. H \subseteq firsts
        OBVIOUS
      <4> HIDE DEF H, own, priced, firsts, kept, costs, K, key
      <4>5. IsFiniteSet(H) /\ Naturals(priced, H)
        BY <2>4, <2>10, <4>4, FS_Subset DEF Naturals
      <4>6. Total(priced, H) = Total(own, H)
        BY <4>3, <4>5, TotalSame
      <4>7. QED BY <4>1, <4>2, <4>6
    <3>2. \A n \in firsts : kept[n] \in K
      <4> HIDE DEF K, key, firsts, rows
      <4>1. QED BY <2>2, <2>4
    <3> HIDE DEF kept, priced, firsts, costs, K
    <3>3. QED BY <2>2, <2>4, <2>10, <3>1, <3>2, TotalGroups
  <2> HIDE DEF rows, key, K, ones, alone, firsts, priced, lines, calls, costs, headOf
  <2>12. Totals(lines) = [calls |-> Cardinality(rows), cost |-> Total(alone, rows)]
    BY <2>5, <2>6, <2>9, <2>11
  <2>13. QED BY <2>12 DEF lines, rows, alone
<1>2. UInv => SummariesAddUp
  BY <1>1
<1>3. QED BY <1>2, Invariance, PTL

(* What the read API returns is what was recorded: the summaries, the      *)
(* traces and the samples of failed calls.                                 *)
THEOREM ReadsAlwaysFaithful == Spec => []ReadsFaithful
<1>1. SummariesAddUp /\ TracesReplay /\ ErrorsSampled <=> ReadsFaithful
  BY DEF ReadsFaithful
<1>2. QED BY <1>1, SummariesAlwaysAddUp, TracesAlwaysReplay, ErrorsAlwaysSampled, PTL

-----------------------------------------------------------------------------
(* Division of naturals.                                                   *)
LEMMA Quotient ==
    ASSUME NEW a \in Nat, NEW b \in Nat \ {0}
    PROVE  a \div b \in Nat
OBVIOUS

LEMMA ShareIs ==
    ASSUME NEW part \in Nat, NEW whole \in Nat
    PROVE  Share(part, whole) \in Nat
<1>1. Scale * part \in Nat
  BY EvalMetricsAssumption
<1>2. CASE whole = 0
  BY <1>2 DEF Share
<1>3. CASE whole # 0
  <2>1. (Scale * part) \div whole \in Nat
    BY <1>1, <1>3, Quotient
  <2>2. QED BY <1>3, <2>1 DEF Share
<1>4. QED BY <1>2, <1>3

LEMMA MarkIs == \A c : Mark(c) \in Nat
BY EvalMetricsAssumption DEF Mark

NaturalRow(row) == \A m \in DOMAIN row : row[m] \in Nat

LEMMA ToolSelectionNatural ==
    ASSUME NEW called, NEW item, IsFiniteSet(item.expected)
    PROVE  NaturalRow(ToolSelectionMetrics(called, item))
<1>1. IsFiniteSet(item.expected \cap called)
  BY FS_Subset
<1>2. /\ Cardinality(item.expected \cap called) \in Nat
      /\ Cardinality(item.expected) \in Nat
  BY <1>1, FS_CardinalityType
<1>3. Share(Cardinality(item.expected \cap called), Cardinality(item.expected)) \in Nat
  BY <1>2, ShareIs
<1>4. Scale \in Nat
  BY EvalMetricsAssumption
<1>5. QED BY <1>3, <1>4, MarkIs DEF ToolSelectionMetrics, NaturalRow

(* The positions that have been taken.                                     *)
Takes(f, predicted, expected, matching, top) ==
    f = [n \in 0..top |->
            IF n = 0 THEN {}
            ELSE LET fits == {i \in DOMAIN expected \ f[n - 1] : <<predicted[n], expected[i]>> \in matching}
                 IN f[n - 1] \cup {i \in fits : \A j \in fits : i =< j}]

LEMMA MatchesNatural ==
    ASSUME NEW predicted, NEW expected, NEW matching, IsList(predicted), IsList(expected)
    PROVE  LET found == MatchPairs(predicted, expected, matching) IN
           /\ found.tp \in Nat
           /\ found.fp = Len(predicted) - found.tp /\ found.fn = Len(expected) - found.tp
<1> DEFINE More(n, taken) ==
             LET fits == {i \in DOMAIN expected \ taken : <<predicted[n], expected[i]>> \in matching}
             IN taken \cup {i \in fits : \A j \in fits : i =< j}
           S == {n \in Nat : \E f : Takes(f, predicted, expected, matching, n)}
           F == CHOOSE f : Takes(f, predicted, expected, matching, Len(predicted))
<1>1. 0 \in S
  <2>1. Takes([n \in 0..0 |-> {}], predicted, expected, matching, 0)
    BY DEF Takes
  <2>2. QED BY <2>1
<1>2. ASSUME NEW n \in Nat, n \in S PROVE n + 1 \in S
  <2>1. PICK f : Takes(f, predicted, expected, matching, n)
    BY <1>2
  <2> DEFINE more == More(n + 1, f[n])
  <2>2. PICK g : g = [m \in 0..(n + 1) |-> IF m <= n THEN f[m] ELSE more]
    OBVIOUS
  <2>3. \A m \in 0..n : f[m] = IF m = 0 THEN {} ELSE More(m, f[m - 1])
    BY <2>1 DEF Takes
  <2> HIDE DEF More
  <2>4. ASSUME NEW m \in 0..(n + 1)
        PROVE  g[m] = IF m = 0 THEN {} ELSE More(m, g[m - 1])
    <3>1. CASE m <= n
      <4>1. m \in 0..n
        BY <3>1
      <4>2. g[m] = f[m] /\ (m # 0 => g[m - 1] = f[m - 1])
        BY <2>2, <3>1
      <4>3. QED BY <2>3, <4>1, <4>2
    <3>2. CASE m = n + 1
      BY <2>2, <3>2
    <3>3. QED BY <3>1, <3>2
  <2>5. g = [m \in 0..(n + 1) |-> IF m = 0 THEN {} ELSE More(m, g[m - 1])]
    BY <2>2, <2>4
  <2>6. Takes(g, predicted, expected, matching, n + 1)
    BY <2>5 DEF Takes, More
  <2>7. QED BY <2>6
<1> HIDE DEF S
<1>3. Len(predicted) \in S /\ Len(predicted) \in Nat
  BY <1>1, <1>2, NatInSet DEF IsList
<1>4. Takes(F, predicted, expected, matching, Len(predicted))
  BY <1>3 DEF S
<1>5. MatchPairs(predicted, expected, matching)
        = [tp |-> Cardinality(F[Len(predicted)]),
           fp |-> Len(predicted) - Cardinality(F[Len(predicted)]),
           fn |-> Len(expected) - Cardinality(F[Len(predicted)])]
  BY Zenon DEF MatchPairs, Takes
<1> HIDE DEF F
<1>6. \A n \in 0..Len(predicted) : F[n] = IF n = 0 THEN {} ELSE More(n, F[n - 1])
  BY <1>4 DEF Takes
<1> DEFINE N == {n \in Nat : n <= Len(predicted) => F[n] \subseteq DOMAIN expected}
<1> HIDE DEF N
<1>7. 0 \in N
  <2>1. 0 \in 0..Len(predicted)
    BY <1>3
  <2>2. F[0] = {}
    BY <1>6, <2>1
  <2>3. QED BY <2>2 DEF N
<1>8. ASSUME NEW n \in Nat, n \in N PROVE n + 1 \in N
  <2> SUFFICES ASSUME n + 1 <= Len(predicted) PROVE F[n + 1] \subseteq DOMAIN expected
    BY DEF N
  <2>1. n + 1 \in 0..Len(predicted) /\ n + 1 # 0 /\ (n + 1) - 1 = n /\ n <= Len(predicted)
    BY <1>3
  <2>2. F[n + 1] = More(n + 1, F[n]) /\ F[n] \subseteq DOMAIN expected
    BY <1>6, <1>8, <2>1 DEF N
  <2>3. QED BY <2>2
<1>9. Len(predicted) \in N
  BY <1>3, <1>7, <1>8, NatInSet
<1>10. F[Len(predicted)] \subseteq 1..Len(expected) /\ Len(expected) \in Nat
  BY <1>3, <1>9 DEF N, IsList
<1>11. Cardinality(F[Len(predicted)]) \in Nat
  <2>1. IsFiniteSet(1..Len(expected))
    BY <1>10, NumbersFinite
  <2>2. IsFiniteSet(F[Len(predicted)])
    BY <1>10, <2>1, FS_Subset
  <2>3. QED BY <2>2, FS_CardinalityType
<1>12. QED BY <1>5, <1>11

LEMMA F1Natural ==
    ASSUME NEW tp \in Nat, NEW n \in Nat, NEW m \in Nat
    PROVE  F1(tp, n - tp, m - tp) \in Nat
<1>1. 2 * tp + (n - tp) + (m - tp) = n + m /\ 2 * tp \in Nat /\ n + m \in Nat
  OBVIOUS
<1>2. F1(tp, n - tp, m - tp) = Share(2 * tp, n + m)
  BY <1>1, Zenon DEF F1
<1>3. QED BY <1>1, <1>2, ShareIs

LEMMA ExtractionNatural ==
    ASSUME NEW out, NEW item, IsList(out.entities), IsList(out.relations),
           IsList(item.entities), IsList(item.relations)
    PROVE  /\ EntityMetrics(out.entities, item.entities).entity_f1 \in Nat
           /\ RelationMetrics(out.relations, item.relations).relation_f1 \in Nat
<1>1. ASSUME NEW p, NEW e, IsList(p), IsList(e), NEW pairs
      PROVE  LET found == MatchPairs(p, e, pairs) IN F1(found.tp, found.fp, found.fn) \in Nat
  <2> DEFINE found == MatchPairs(p, e, pairs)
  <2>1. found.tp \in Nat /\ found.fp = Len(p) - found.tp /\ found.fn = Len(e) - found.tp
    BY <1>1, MatchesNatural
  <2> HIDE DEF found
  <2>2. F1(found.tp, Len(p) - found.tp, Len(e) - found.tp) \in Nat
    BY <1>1, <2>1, F1Natural DEF IsList
  <2>3. F1(found.tp, found.fp, found.fn) \in Nat
    BY <2>1, <2>2, Zenon
  <2>4. QED BY <2>3 DEF found
<1>2. QED BY <1>1 DEF EntityMetrics, RelationMetrics

LEMMA CoverageNatural ==
    ASSUME NEW text, NEW facts, IsFiniteSet(facts)
    PROVE  Coverage(text, facts) \in Nat
<1>1. IsFiniteSet(facts \cap text)
  BY FS_Subset
<1>2. Cardinality(facts \cap text) \in Nat /\ Cardinality(facts) \in Nat
  BY <1>1, FS_CardinalityType
<1>3. Share(Cardinality(facts \cap text), Cardinality(facts)) \in Nat
  BY <1>2, ShareIs
<1>4. QED BY <1>3, EvalMetricsAssumption DEF Coverage

LEMMA AnswerNatural ==
    ASSUME NEW item, NEW o, IsFiniteSet(item.facts)
    PROVE  NaturalRow(AnswerRow(item, o))
<1> DEFINE scores == CASE o.how = "judged" -> AnswerJudgeMetrics(o.verdict, item)
                       [] o.how = "judge failed" -> ZeroJudgeKeys
                       [] OTHER -> AnswerDeterministicMetrics(o.out, item)
<1>1. ASSUME NEW text, NEW c
      PROVE  LET r == [fact_coverage |-> Coverage(text, item.facts), groundedness |-> Mark(c)]
             IN r.fact_coverage \in Nat /\ r.groundedness \in Nat
  BY CoverageNatural, MarkIs
<1>2. scores.fact_coverage \in Nat /\ scores.groundedness \in Nat
  <2>1. CASE o.how = "judged"
    BY <1>1, <2>1 DEF AnswerJudgeMetrics
  <2>2. CASE o.how = "judge failed"
    <3>1. ZeroJudgeKeys.fact_coverage \in Nat /\ ZeroJudgeKeys.groundedness \in Nat
      BY DEF ZeroJudgeKeys
    <3>2. scores = ZeroJudgeKeys
      BY <2>2
    <3>3. QED BY <3>1, <3>2, Zenon
  <2>3. CASE o.how \notin {"judged", "judge failed"}
    BY <1>1, <2>3 DEF AnswerDeterministicMetrics
  <2>4. QED BY <2>1, <2>2, <2>3
<1>3. AnswerRow(item, o) = [fact_coverage |-> scores.fact_coverage, groundedness |-> scores.groundedness,
                            citation_rate |-> CitationPresence(o.out, item)]
  BY DEF AnswerRow
<1> HIDE DEF scores
<1>4. CitationPresence(o.out, item) \in Nat
  BY MarkIs DEF CitationPresence
<1>5. QED BY <1>2, <1>3, <1>4 DEF NaturalRow

LEMMA RowNatural ==
    ASSUME NEW suite, suite # "write_conflict", NEW item, NEW o, NEW outputs, Labelled(suite, item, outputs),
           suite \in {"extraction"} => o.out \in outputs
    PROVE  NaturalRow(ItemRow(suite, item, o))
<1>1. CASE suite = "tool_selection"
  BY <1>1, ToolSelectionNatural DEF ItemRow, Labelled
<1>2. CASE suite = "extraction"
  <2>1. PICK ent : ent = EntityMetrics(o.out.entities, item.entities).entity_f1
    OBVIOUS
  <2>2. PICK rel : rel = RelationMetrics(o.out.relations, item.relations).relation_f1
    OBVIOUS
  <2>3. ent \in Nat /\ rel \in Nat
    BY <1>2, <2>1, <2>2, ExtractionNatural DEF Labelled
  <2>4. ItemRow(suite, item, o) = [entity_f1 |-> ent, relation_f1 |-> rel]
    BY <1>2, <2>1, <2>2 DEF ItemRow
  <2>5. QED BY <2>3, <2>4 DEF NaturalRow
<1>3. CASE suite = "write_merge"
  BY <1>3, CoverageNatural DEF ItemRow, WriteMergeRow, Labelled, NaturalRow
<1>4. CASE suite \notin {"tool_selection", "extraction", "write_merge"}
  BY <1>4, AnswerNatural DEF ItemRow, Labelled
<1>5. QED BY <1>1, <1>2, <1>3, <1>4

-----------------------------------------------------------------------------
(* What a run of the evaluation can report.                                *)
Suites == DOMAIN Items \cup {"answer"}
MetricNames == {"conflict_f1"} \cup UNION {Keys(suite) : suite \in Suites}
Scores == UNION {[K -> Nat] : K \in SUBSET MetricNames}
Overalls == UNION {[S -> Scores] : S \in SUBSET Suites}
ReportRow == [channel : Channels \cup {"unknown"}, overall : Overalls, broken : BOOLEAN]

LEMMA ScoresAre ==
    ASSUME NEW row
    PROVE  row \in Scores <=> row \in [DOMAIN row -> Nat] /\ DOMAIN row \subseteq MetricNames
BY DEF Scores

LEMMA MeanNatural ==
    ASSUME NEW n \in Nat \ {0}, NEW rows, rows = [i \in 1..n |-> rows[i]],
           \A i \in 1..n : NaturalRow(rows[i]), NEW m
    PROVE  Mean(rows, m) \in Nat
<1>1. PICK f : f = [i \in DOMAIN rows |-> IF m \in DOMAIN rows[i] THEN rows[i][m] ELSE 0]
  OBVIOUS
<1>2. DOMAIN rows = 1..n /\ Len(rows) = n
  OBVIOUS
<1>3. Naturals(f, 1..n)
  BY <1>1, <1>2 DEF Naturals, NaturalRow
<1>4. Total(f, 1..n) \in Nat
  BY <1>3, NumbersFinite, TotalType
<1>5. Total(f, 1..n) \div n \in Nat
  BY <1>4, Quotient
<1>6. Mean(rows, m) = Total(f, 1..n) \div n
  BY <1>1, <1>2, Zenon DEF Mean
<1>7. QED BY <1>5, <1>6

LEMMA BinaryNatural ==
    ASSUME NEW n \in Nat, NEW cells, DOMAIN cells = 1..n
    PROVE  BinaryF1(cells) \in Nat
<1> DEFINE Count(c) == Cardinality({i \in DOMAIN cells : cells[i] = c})
<1>1. ASSUME NEW c PROVE Count(c) \in Nat
  <2>1. IsFiniteSet(1..n) /\ {i \in 1..n : cells[i] = c} \subseteq 1..n
    BY NumbersFinite
  <2>2. IsFiniteSet({i \in 1..n : cells[i] = c})
    BY <2>1, FS_Subset
  <2>3. QED BY <2>2, FS_CardinalityType
<1>2. BinaryF1(cells) = Share(2 * Count("tp"), 2 * Count("tp") + Count("fp") + Count("fn"))
  BY DEF BinaryF1, F1
<1> HIDE DEF Count
<1>3. 2 * Count("tp") \in Nat /\ 2 * Count("tp") + Count("fp") + Count("fn") \in Nat
  BY <1>1
<1>4. QED BY <1>2, <1>3, ShareIs

LEMMA OverallScores ==
    ASSUME NEW suite \in DOMAIN Items, NEW judge, NEW outcome \in Outcome(suite, judge)
    PROVE  Overall(suite, outcome) \in Scores
<1>1. PICK n \in Nat \ {0} : /\ DOMAIN Items[suite] = 1..n /\ DOMAIN outcome = 1..n
                             /\ \A i \in 1..n : outcome[i] \in Outcomes(suite, i, judge)
  <2>1. IsList(Items[suite]) /\ Items[suite] # <<>>
    BY EvalGateAssumption
  <2>2. DOMAIN outcome = DOMAIN Items[suite]
        /\ \A i \in DOMAIN outcome : outcome[i] \in Outcomes(suite, i, judge)
    BY DEF Outcome
  <2>3. Len(Items[suite]) \in Nat \ {0}
    BY <2>1 DEF IsList
  <2>4. QED BY <2>1, <2>2, <2>3 DEF IsList
<1>2. CASE suite = "write_conflict"
  <2>1. PICK cells : cells = [i \in DOMAIN outcome |->
            IF outcome[i].how = "error" THEN "-" ELSE Cell(outcome[i].out, Items[suite][i])]
    OBVIOUS
  <2>2. BinaryF1(cells) \in Nat
    BY <1>1, <2>1, BinaryNatural
  <2>3. Overall(suite, outcome) = [m \in {"conflict_f1"} |-> BinaryF1(cells)]
    BY <1>2, <2>1 DEF Overall, RunBinary
  <2>4. "conflict_f1" \in MetricNames
    BY DEF MetricNames
  <2>5. PICK row : row = [m \in {"conflict_f1"} |-> BinaryF1(cells)]
    OBVIOUS
  <2>6. row \in [DOMAIN row -> Nat] /\ DOMAIN row = {"conflict_f1"}
    BY <2>2, <2>5
  <2>7. QED BY <2>3, <2>4, <2>5, <2>6, ScoresAre
<1>3. CASE suite # "write_conflict"
  <2>1. PICK rows : rows = [i \in DOMAIN outcome |->
            IF outcome[i].how = "error" THEN <<>> ELSE ItemRow(suite, Items[suite][i], outcome[i])]
    OBVIOUS
  <2>2. ASSUME NEW i \in 1..n PROVE NaturalRow(rows[i])
    <3>1. CASE outcome[i].how = "error"
      BY <1>1, <2>1, <3>1 DEF NaturalRow
    <3>2. CASE outcome[i].how # "error"
      <4>1. outcome[i] \in Outcomes(suite, i, judge) /\ i \in DOMAIN Items[suite]
        BY <1>1
      <4>2. outcome[i].out \in Outputs[suite][i]
        <5> DEFINE out == Outputs[suite][i]
        <5>1. \/ outcome[i] \in {[how |-> "error"]}
              \/ outcome[i] \in [how : {"judge failed"}, out : out]
              \/ outcome[i] \in [how : {"judged"}, out : out, verdict : Verdicts]
              \/ outcome[i] \in [how : {"unjudged"}, out : out]
          BY <4>1, Zenon DEF Outcomes
        <5>2. outcome[i] \in {[how |-> "error"]} => outcome[i].how = "error"
          OBVIOUS
        <5>3. QED BY <3>2, <5>1, <5>2
      <4>3. Labelled(suite, Items[suite][i], Outputs[suite][i])
        BY <4>1, EvalGateAssumption
      <4>4. NaturalRow(ItemRow(suite, Items[suite][i], outcome[i]))
        BY <1>3, <4>2, <4>3, RowNatural
      <4>5. rows[i] = ItemRow(suite, Items[suite][i], outcome[i])
        BY <1>1, <2>1, <3>2
      <4>6. QED BY <4>4, <4>5
    <3>3. QED BY <3>1, <3>2
  <2>3. rows = [i \in 1..n |-> rows[i]]
    BY <1>1, <2>1
  <2>4. \A m : Mean(rows, m) \in Nat
    BY <2>2, <2>3, MeanNatural
  <2>5. Overall(suite, outcome) = [m \in Keys(suite) |-> Mean(rows, m)]
    BY <1>3, <2>1 DEF Overall
  <2>6. Keys(suite) \subseteq MetricNames
    BY DEF MetricNames, Suites
  <2>7. QED BY <2>4, <2>5, <2>6, ScoresAre
<1>4. QED BY <1>2, <1>3

LEMMA ResultsTyped ==
    ASSUME NEW suite \in DOMAIN Items, NEW judge \in {"llm", "deterministic"},
           NEW result \in Results[suite][judge]
    PROVE  result.overall \in Scores /\ result.broken \in BOOLEAN
<1>1. PICK outcome \in Outcome(suite, judge) : result = Result(suite, outcome)
  BY DEF Results
<1>2. result.overall = Overall(suite, outcome)
      /\ result.broken = (Failed(outcome, "error") > 0 \/ JudgeChannelDegraded(outcome))
  BY <1>1 DEF Result
<1>3. QED BY <1>2, OverallScores

LEMMA WritesReport ==
    ASSUME NEW suites \in SuiteSets, NEW judge \in {"llm", "deterministic"}, channel \in Channels,
           Writes(suites, judge)
    PROVE  \E report \in ReportRow : disk' = Append(disk, report)
<1>1. PICK r \in [suites -> UNION {Results[s][judge] : s \in suites}] :
        /\ \A s \in suites : r[s] \in Results[s][judge]
        /\ disk' = Append(disk, Report(r))
  BY DEF Writes
<1>2. suites \subseteq DOMAIN Items
  BY EvalGateAssumption
<1>3. \A s \in suites : r[s].overall \in Scores
  BY <1>1, <1>2, ResultsTyped
<1>4. PICK overall : overall = [suite \in DOMAIN r |-> r[suite].overall]
  OBVIOUS
<1>5. overall \in [suites -> Scores]
  BY <1>3, <1>4
<1>6. overall \in Overalls
  BY <1>2, <1>5 DEF Overalls, Suites
<1>7. Report(r) = [channel |-> channel, overall |-> overall, broken |-> \E suite \in DOMAIN r : r[suite].broken]
  BY <1>4 DEF Report
<1>8. Report(r) \in ReportRow
  BY <1>6, <1>7 DEF ReportRow
<1>9. QED BY <1>1, <1>8

-----------------------------------------------------------------------------
(* The aggregate as a function of the reports d on the disk.               *)
ValueOn(d, i, m) ==
    LET s == CHOOSE s \in DOMAIN d[i].overall : m \in DOMAIN d[i].overall[s]
    IN d[i].overall[s][m]
HavingOn(d, reports, m) == {i \in reports : m \in Metrics(d[i])}
SampleOn(d, reports, m) ==
    LET values == [i \in HavingOn(d, reports, m) |-> ValueOn(d, i, m)]
    IN [n |-> Cardinality(DOMAIN values),
        S |-> Total(values, DOMAIN values),
        Q |-> Total([i \in DOMAIN values |-> values[i] * values[i]], DOMAIN values)]
MismatchOn(d, calibrated, reports) ==
    calibrated # "unknown" /\ \E i \in reports : d[i].channel \notin {"unknown", calibrated}
FailuresOn(d, least, reports) ==
    {m \in DOMAIN least :
        LET x == SampleOn(d, reports, m) IN x.n > 0 /\ LowerBelow(x, least[m] - Tolerance)}
DerivedOn(d, reports) ==
    [m \in UNION {Metrics(d[i]) : i \in reports} |-> Floor(SampleOn(d, reports, m))]

LEMMA OnDisk ==
    ASSUME NEW reports
    PROVE  /\ \A m : Having(reports, m) = HavingOn(disk, reports, m)
           /\ \A i, m : Value(i, m) = ValueOn(disk, i, m)
           /\ \A m : Sample(reports, m) = SampleOn(disk, reports, m)
           /\ \A c : Mismatch(c, reports) <=> MismatchOn(disk, c, reports)
           /\ Failures(reports) = FailuresOn(disk, floors.least, reports)
           /\ Derived(reports) = DerivedOn(disk, reports)
<1>1. \A m : Having(reports, m) = HavingOn(disk, reports, m)
  BY DEF Having, HavingOn
<1>2. \A i, m : Value(i, m) = ValueOn(disk, i, m)
  BY Zenon DEF Value, ValueOn
<1>3. ASSUME NEW m PROVE Sample(reports, m) = SampleOn(disk, reports, m)
  <2>1. [i \in Having(reports, m) |-> Value(i, m)] = [i \in HavingOn(disk, reports, m) |-> ValueOn(disk, i, m)]
    BY <1>1, <1>2
  <2>2. QED BY <2>1, Zenon DEF Sample, SampleOn
<1>4. \A c : Mismatch(c, reports) <=> MismatchOn(disk, c, reports)
  BY DEF Mismatch, MismatchOn
<1>5. Failures(reports) = FailuresOn(disk, floors.least, reports)
  BY <1>3 DEF Failures, FailuresOn
<1>6. Derived(reports) = DerivedOn(disk, reports)
  BY <1>3, Zenon DEF Derived, DerivedOn
<1>7. QED BY <1>1, <1>2, <1>3, <1>4, <1>5, <1>6

(* It depends on the reports it is taken of alone.                         *)
LEMMA SameReports ==
    ASSUME NEW d, NEW e, NEW reports, \A i \in reports : e[i] = d[i]
    PROVE  /\ \A m : SampleOn(e, reports, m) = SampleOn(d, reports, m)
           /\ \A c : MismatchOn(e, c, reports) <=> MismatchOn(d, c, reports)
           /\ \A least : FailuresOn(e, least, reports) = FailuresOn(d, least, reports)
           /\ DerivedOn(e, reports) = DerivedOn(d, reports)
<1>1. \A m : HavingOn(e, reports, m) = HavingOn(d, reports, m)
  BY DEF HavingOn
<1>2. \A m : \A i \in reports : ValueOn(e, i, m) = ValueOn(d, i, m)
  BY Zenon DEF ValueOn
<1>3. ASSUME NEW m PROVE SampleOn(e, reports, m) = SampleOn(d, reports, m)
  <2>1. [i \in HavingOn(e, reports, m) |-> ValueOn(e, i, m)] = [i \in HavingOn(d, reports, m) |-> ValueOn(d, i, m)]
    BY <1>1, <1>2 DEF HavingOn
  <2>2. QED BY <2>1, Zenon DEF SampleOn
<1>4. \A c : MismatchOn(e, c, reports) <=> MismatchOn(d, c, reports)
  BY DEF MismatchOn
<1>5. \A least : FailuresOn(e, least, reports) = FailuresOn(d, least, reports)
  BY <1>3 DEF FailuresOn
<1>6. DerivedOn(e, reports) = DerivedOn(d, reports)
  <2>1. UNION {Metrics(e[i]) : i \in reports} = UNION {Metrics(d[i]) : i \in reports}
    BY Zenon
  <2>2. QED BY <1>3, <2>1, Zenon DEF DerivedOn
<1>7. QED BY <1>3, <1>4, <1>5, <1>6

LEMMA SampleNatural ==
    ASSUME NEW d \in Seq(ReportRow), NEW reports \in SUBSET DOMAIN d, NEW m
    PROVE  LET x == SampleOn(d, reports, m) IN
           /\ x.n \in Nat /\ x.S \in Nat /\ x.Q \in Nat
           /\ IsFiniteSet(HavingOn(d, reports, m)) /\ x.n = Cardinality(HavingOn(d, reports, m))
           /\ \A i \in HavingOn(d, reports, m) : ValueOn(d, i, m) \in Nat
           /\ x.S = Total([i \in HavingOn(d, reports, m) |-> ValueOn(d, i, m)], HavingOn(d, reports, m))
<1>1. PICK H : H = HavingOn(d, reports, m)
  OBVIOUS
<1>2. IsFiniteSet(H) /\ Cardinality(H) \in Nat
  <2>1. H \subseteq 1..Len(d) /\ Len(d) \in Nat
    BY <1>1 DEF HavingOn
  <2>2. IsFiniteSet(H)
    BY <2>1, NumbersFinite, FS_Subset
  <2>3. QED BY <2>2, FS_CardinalityType
<1>3. ASSUME NEW i \in H PROVE ValueOn(d, i, m) \in Nat
  <2>1. PICK overall : overall = d[i].overall
    OBVIOUS
  <2>2. overall \in Overalls /\ m \in Metrics(d[i])
    <3>1. d[i] \in ReportRow
      BY <1>1 DEF HavingOn
    <3>2. QED BY <1>1, <2>1, <3>1 DEF ReportRow, HavingOn
  <2>3. \E s \in DOMAIN overall : m \in DOMAIN overall[s]
    BY <2>1, <2>2 DEF Metrics
  <2>4. PICK s : s = CHOOSE t \in DOMAIN overall : m \in DOMAIN overall[t]
    OBVIOUS
  <2>5. s \in DOMAIN overall /\ m \in DOMAIN overall[s]
    BY <2>3, <2>4, Zenon
  <2>6. overall[s] \in Scores
    BY <2>2, <2>5 DEF Overalls
  <2>7. overall[s][m] \in Nat
    BY <2>5, <2>6, ScoresAre
  <2>8. ValueOn(d, i, m) = overall[s][m]
    BY <2>1, <2>4, Zenon DEF ValueOn
  <2>9. QED BY <2>7, <2>8
<1>4. PICK values : values = [i \in H |-> ValueOn(d, i, m)]
  OBVIOUS
<1>5. PICK squares : squares = [i \in H |-> values[i] * values[i]]
  OBVIOUS
<1>6. Naturals(values, H) /\ Naturals(squares, H)
  <2>1. \A i \in H : values[i] \in Nat
    BY <1>3, <1>4
  <2>2. \A k \in Nat : k * k \in Nat
    OBVIOUS
  <2>3. QED BY <1>5, <2>1, <2>2 DEF Naturals
<1>7. Total(values, H) \in Nat /\ Total(squares, H) \in Nat
  BY <1>2, <1>6, TotalType
<1>8. SampleOn(d, reports, m) = [n |-> Cardinality(H), S |-> Total(values, H), Q |-> Total(squares, H)]
  <2>1. DOMAIN values = H
    BY <1>4
  <2>2. QED BY <1>1, <1>4, <1>5, <2>1, Zenon DEF SampleOn
<1>9. QED BY <1>1, <1>2, <1>3, <1>4, <1>7, <1>8

-----------------------------------------------------------------------------
(* The lower end of the interval: below one floor, below each higher one;  *)
(* and below a floor that no value reaches.                                *)
LEMMA TNatural == \A n \in Int : TValue(n) \in Nat
BY DEF TValue

LEMMA LowerBelowGrows ==
    ASSUME NEW x, x.n \in Nat, x.S \in Nat, x.Q \in Nat,
           NEW f \in Int, NEW g \in Int, f <= g, LowerBelow(x, f)
    PROVE  LowerBelow(x, g)
<1> DEFINE gap(h) == x.S - x.n * h
           spread == TValue(x.n) * TValue(x.n) * (x.n * x.Q - x.S * x.S)
           c == 10000 * (x.n - 1)
<1>1. gap(f) \in Int /\ gap(g) \in Int /\ gap(g) <= gap(f)
  <2>1. x.n * f \in Int /\ x.n * g \in Int /\ x.n * f <= x.n * g
    OBVIOUS
  <2>2. QED BY <2>1
<1>2. spread \in Int /\ c \in Int
  <2>1. TValue(x.n) \in Int
    BY TNatural
  <2>2. \A a, b \in Int : a * b \in Int /\ a - b \in Int
    OBVIOUS
  <2>3. x.n * x.Q - x.S * x.S \in Int
    BY <2>2
  <2>4. TValue(x.n) * TValue(x.n) \in Int
    BY <2>1, <2>2
  <2>5. spread \in Int
    BY <2>2, <2>3, <2>4
  <2>6. QED BY <2>5
<1>3. LowerBelow(x, f) <=> gap(f) < 0 \/ (x.n >= 2 /\ spread > c * gap(f) * gap(f))
  BY DEF LowerBelow
<1>4. LowerBelow(x, g) <=> gap(g) < 0 \/ (x.n >= 2 /\ spread > c * gap(g) * gap(g))
  BY DEF LowerBelow
<1>5. x.n >= 2 => c >= 0
  OBVIOUS
<1> HIDE DEF gap, spread, c
<1>6. CASE gap(g) < 0
  BY <1>4, <1>6
<1>7. CASE ~(gap(g) < 0)
  <2>1. ~(gap(f) < 0)
    BY <1>1, <1>7
  <2>2. x.n >= 2 /\ spread > c * gap(f) * gap(f)
    BY <1>3, <2>1
  <2>3. \A a, b, k \in Nat : a <= b => k * a * a <= k * b * b /\ k * a * a \in Int /\ k * b * b \in Int
    <3>1. ASSUME NEW a \in Nat, NEW b \in Nat, NEW k \in Nat, a <= b
          PROVE  k * a * a <= k * b * b /\ k * a * a \in Int /\ k * b * b \in Int
      <4>1. k * a <= k * b /\ k * a \in Nat /\ k * b \in Nat
        BY <3>1
      <4>2. \A p, q \in Nat : p <= q => p * a <= q * b
        <5>1. ASSUME NEW p \in Nat, NEW q \in Nat, p <= q PROVE p * a <= q * b
          <6>1. p * a <= q * a /\ q * a <= q * b /\ p * a \in Int /\ q * a \in Int /\ q * b \in Int
            BY <3>1, <5>1
          <6>2. QED BY <6>1
        <5>2. QED BY <5>1
      <4>3. QED BY <4>1, <4>2
    <3>2. QED BY <3>1
  <2>4. gap(f) \in Nat /\ gap(g) \in Nat /\ c \in Nat
    BY <1>1, <1>2, <1>5, <1>7, <2>1, <2>2
  <2>5. /\ c * gap(g) * gap(g) <= c * gap(f) * gap(f)
        /\ c * gap(g) * gap(g) \in Int /\ c * gap(f) * gap(f) \in Int
    BY <1>1, <2>3, <2>4
  <2>6. spread > c * gap(g) * gap(g)
    BY <1>2, <2>2, <2>5
  <2>7. QED BY <1>4, <2>2, <2>6
<1>8. QED BY <1>6, <1>7

LEMMA NoneReaches ==
    ASSUME NEW d \in Seq(ReportRow), NEW reports \in SUBSET DOMAIN d, NEW m, NEW f \in Int,
           HavingOn(d, reports, m) # {},
           \A i \in HavingOn(d, reports, m) : ~(ValueOn(d, i, m) >= f)
    PROVE  SampleOn(d, reports, m).n > 0 /\ LowerBelow(SampleOn(d, reports, m), f)
<1>1. PICK H : H = HavingOn(d, reports, m)
  OBVIOUS
<1>2. PICK x : x = SampleOn(d, reports, m)
  OBVIOUS
<1>3. PICK values : values = [i \in H |-> ValueOn(d, i, m)]
  OBVIOUS
<1>4. /\ x.n \in Nat /\ x.S \in Nat /\ IsFiniteSet(H) /\ x.n = Cardinality(H)
      /\ x.S = Total(values, H) /\ \A i \in H : values[i] \in Nat
  BY <1>1, <1>2, <1>3, SampleNatural
<1>5. x.n # 0
  BY <1>1, <1>4, FS_EmptySet
<1>6. \A i \in H : values[i] <= f - 1
  BY <1>1, <1>3, <1>4
<1>7. f - 1 \in Nat
  <2>1. PICK i \in H : TRUE
    BY <1>1
  <2>2. values[i] \in Nat /\ values[i] <= f - 1
    BY <1>4, <1>6
  <2>3. QED BY <2>2
<1>8. x.S <= x.n * (f - 1)
  <2>1. Naturals(values, H)
    BY <1>4 DEF Naturals
  <2>2. Total(values, H) <= Cardinality(H) * (f - 1)
    BY <1>4, <1>6, <1>7, <2>1, TotalBelow
  <2>3. QED BY <1>4, <2>2
<1>9. x.S - x.n * f < 0
  <2>1. \A n \in Nat : n * (f - 1) = n * f - n /\ n * f \in Int
    OBVIOUS
  <2>2. x.n * (f - 1) = x.n * f - x.n /\ x.n * f \in Int
    BY <1>4, <2>1
  <2>3. QED BY <1>4, <1>5, <1>8, <2>2
<1>10. LowerBelow(x, f)
  BY <1>9 DEF LowerBelow
<1>11. QED BY <1>2, <1>4, <1>5, <1>10

-----------------------------------------------------------------------------
(* A floor is zero, or leaves the headroom.                                *)
LEMMA MaxIs ==
    ASSUME NEW n \in Nat, NEW S, S \subseteq 0..n, S # {}
    PROVE  Max(S) \in S
<1> DEFINE R == {n - x : x \in S}
<1>1. R \subseteq Nat /\ R # {}
  <2>1. PICK x \in S : TRUE
    OBVIOUS
  <2>2. n - x \in R
    OBVIOUS
  <2>3. \A y \in S : n - y \in Nat
    OBVIOUS
  <2>4. QED BY <2>2, <2>3
<1> HIDE DEF R
<1>2. PICK r \in R : \A q \in R : ~(q < r)
  BY <1>1, LeastNumber
<1> USE DEF R
<1>3. PICK x \in S : r = n - x
  OBVIOUS
<1>4. \A y \in S : x >= y
  <2>1. ASSUME NEW y \in S PROVE x >= y
    <3>1. n - y \in R /\ x \in 0..n /\ y \in 0..n
      OBVIOUS
    <3>2. ~(n - y < r)
      BY <1>2, <3>1
    <3>3. QED BY <1>3, <3>1, <3>2
  <2>2. QED BY <2>1
<1>5. QED BY <1>4, Zenon DEF Max

LEMMA FloorIs ==
    ASSUME NEW x
    PROVE  Floor(x) \in Nat /\ (Floor(x) # 0 => ~LowerBelow(x, Floor(x) + Headroom))
<1>1. PICK on : on = {g \in 0..Scale : g % Grid = 0 /\ ~LowerBelow(x, g + Headroom)}
  OBVIOUS
<1>2. on \cup {0} \subseteq 0..Scale /\ on \cup {0} # {} /\ Scale \in Nat
  BY <1>1, EvalMetricsAssumption
<1>3. Max(on \cup {0}) \in on \cup {0}
  BY <1>2, MaxIs
<1>4. Floor(x) = Max(on \cup {0})
  BY <1>1, Zenon DEF Floor
<1>5. Floor(x) \in on \cup {0}
  BY <1>3, <1>4
<1>6. Floor(x) \in Nat
  BY <1>2, <1>5
<1>7. QED BY <1>1, <1>5, <1>6

LEMMA DerivedScores ==
    ASSUME NEW d \in Seq(ReportRow), NEW reports \in SUBSET DOMAIN d
    PROVE  DerivedOn(d, reports) \in Scores
<1>1. PICK K : K = UNION {Metrics(d[i]) : i \in reports}
  OBVIOUS
<1>2. ASSUME NEW i \in reports PROVE Metrics(d[i]) \subseteq MetricNames
  <2>1. d[i] \in ReportRow
    OBVIOUS
  <2>2. PICK overall \in Overalls : overall = d[i].overall
    BY <2>1 DEF ReportRow
  <2>3. \A s \in DOMAIN overall : overall[s] \in Scores
    BY DEF Overalls
  <2>4. \A s \in DOMAIN overall : DOMAIN overall[s] \subseteq MetricNames
    BY <2>3, ScoresAre
  <2>5. QED BY <2>2, <2>4 DEF Metrics
<1>3. K \subseteq MetricNames
  BY <1>1, <1>2
<1>4. PICK least : least = [m \in K |-> Floor(SampleOn(d, reports, m))]
  OBVIOUS
<1>5. least \in [DOMAIN least -> Nat] /\ DOMAIN least = K
  BY <1>4, FloorIs
<1>6. least \in Scores
  BY <1>3, <1>5, ScoresAre
<1>7. QED BY <1>1, <1>4, <1>6, Zenon DEF DerivedOn

-----------------------------------------------------------------------------
(* The invariant of the gate, of the reports d, the floors f and the job j *)
(* ("gate" and "recalibrate": it is making runs): no run that is kept to   *)
(* be compared has failed; an exit code still says what the gate would say *)
(* of these reports; and floors are still what derive_floors makes of the  *)
(* reports that they came from, all of the floors' channel.                *)
Kinds == {"llm", "deterministic"}
Running == {"gate", "recalibrate"}
JobRow(d) ==
    [pc : {"idle", "done"} \cup Running, runs : SUBSET DOMAIN d, suites : SuiteSets \cup {{}},
     judge : Kinds \cup {"-"}, rc : {0, 1, 2}]
FloorsRow(d) == [channel : Channels \cup {"unknown"}, least : Scores, from : SUBSET DOMAIN d]

GateTyped(d, f, j) ==
    /\ d \in Seq(ReportRow) /\ f \in FloorsRow(d) /\ j \in JobRow(d)
    /\ j.pc \in Running => j.suites \in SuiteSets /\ j.judge \in Kinds
RunsSound(d, j) ==
    \/ j.pc \in Running
    \/ j.pc = "done" /\ j.rc = 0 /\ j.suites # {}
    => \A i \in j.runs : ~d[i].broken
VerdictSound(d, f, j) ==
    j.pc = "done" =>
        /\ j.rc = 0 => ~MismatchOn(d, f.channel, j.runs) /\ FailuresOn(d, f.least, j.runs) = {}
        /\ j.rc = 2 => j.runs # {}
FloorsSound(d, f) ==
    f.from # {} => ~MismatchOn(d, f.channel, f.from) /\ f.least = DerivedOn(d, f.from)
GateSound(d, f, j) ==
    GateTyped(d, f, j) /\ RunsSound(d, j) /\ VerdictSound(d, f, j) /\ FloorsSound(d, f)

GateInv == channel \in Channels /\ GateSound(disk, floors, job)

(* A new report changes nothing that has been said of the others.          *)
LEMMA ReportAdds ==
    ASSUME NEW d, NEW f, NEW j, GateSound(d, f, j), NEW report \in ReportRow
    PROVE  GateSound(Append(d, report), f, j)
<1>1. PICK e : e = Append(d, report)
  OBVIOUS
<1>2. /\ d \in Seq(ReportRow) /\ f \in FloorsRow(d) /\ j \in JobRow(d)
      /\ j.pc \in Running => j.suites \in SuiteSets /\ j.judge \in Kinds
  BY DEF GateSound, GateTyped
<1>3. e \in Seq(ReportRow) /\ DOMAIN d \subseteq DOMAIN e /\ \A i \in DOMAIN d : e[i] = d[i]
  <2>1. /\ e \in Seq(ReportRow) /\ Len(e) = Len(d) + 1
        /\ \A i \in 1..Len(d) : e[i] = d[i]
    BY <1>1, <1>2, AppendProperties
  <2>2. DOMAIN d = 1..Len(d) /\ DOMAIN e = 1..Len(e) /\ Len(d) \in Nat
    BY <1>2, <2>1
  <2>3. QED BY <2>1, <2>2
<1>4. f.from \subseteq DOMAIN d /\ j.runs \subseteq DOMAIN d
  BY <1>2 DEF FloorsRow, JobRow
<1>5. f \in FloorsRow(e) /\ j \in JobRow(e)
  BY <1>2, <1>3 DEF FloorsRow, JobRow
<1>6. GateTyped(e, f, j)
  BY <1>2, <1>3, <1>5 DEF GateTyped
<1>7. RunsSound(e, j)
  BY <1>3, <1>4 DEF GateSound, RunsSound
<1>8. VerdictSound(e, f, j)
  <2>1. \A i \in j.runs : e[i] = d[i]
    BY <1>3, <1>4
  <2>2. /\ MismatchOn(e, f.channel, j.runs) <=> MismatchOn(d, f.channel, j.runs)
        /\ FailuresOn(e, f.least, j.runs) = FailuresOn(d, f.least, j.runs)
    BY <2>1, SameReports
  <2>3. QED BY <2>2 DEF GateSound, VerdictSound
<1>9. FloorsSound(e, f)
  <2>1. \A i \in f.from : e[i] = d[i]
    BY <1>3, <1>4
  <2>2. /\ MismatchOn(e, f.channel, f.from) <=> MismatchOn(d, f.channel, f.from)
        /\ DerivedOn(e, f.from) = DerivedOn(d, f.from)
    BY <2>1, SameReports
  <2>3. QED BY <2>2 DEF GateSound, FloorsSound
<1>10. GateSound(e, f, j)
  BY <1>6, <1>7, <1>8, <1>9 DEF GateSound
<1>11. QED BY <1>1, <1>10

(* A job that has no verdict says nothing of the floors.                   *)
LEMMA JobStarts ==
    ASSUME NEW d, NEW f, NEW j, GateSound(d, f, j), NEW k \in JobRow(d),
           k.pc \in Running => k.suites \in SuiteSets /\ k.judge \in Kinds,
           k.pc # "done" \/ k.rc = 1, RunsSound(d, k)
    PROVE  GateSound(d, f, k)
<1>1. GateTyped(d, f, k)
  BY DEF GateSound, GateTyped
<1>2. VerdictSound(d, f, k)
  BY DEF VerdictSound
<1>3. QED BY <1>1, <1>2 DEF GateSound

LEMMA IdleSound == \A d, f, j : GateSound(d, f, j) => GateSound(d, f, Idle)
<1>1. ASSUME NEW d, NEW f, NEW j, GateSound(d, f, j) PROVE GateSound(d, f, Idle)
  <2>1. Idle \in JobRow(d) /\ Idle.pc = "idle" /\ Idle.pc \notin Running
    BY DEF Idle, JobRow, Running, Kinds
  <2>2. RunsSound(d, Idle)
    BY <2>1 DEF RunsSound
  <2>3. QED BY <1>1, <2>1, <2>2, JobStarts
<1>2. QED BY <1>1

LEMMA NewFloors ==
    ASSUME NEW d, NEW f, NEW j, GateSound(d, f, j), NEW reports \in SUBSET DOMAIN d, NEW c \in Channels,
           ~MismatchOn(d, c, reports),
           NEW g, g = [channel |-> c, least |-> DerivedOn(d, reports), from |-> reports]
    PROVE  GateSound(d, g, Idle)
<1>1. GateSound(d, f, Idle) /\ d \in Seq(ReportRow)
  BY IdleSound DEF GateSound, GateTyped
<1>2. g \in FloorsRow(d)
  BY <1>1, DerivedScores DEF FloorsRow
<1>3. GateTyped(d, g, Idle)
  BY <1>1, <1>2 DEF GateSound, GateTyped
<1>4. FloorsSound(d, g)
  BY DEF FloorsSound
<1>5. VerdictSound(d, g, Idle)
  BY DEF VerdictSound, Idle
<1>6. RunsSound(d, Idle)
  BY <1>1 DEF GateSound
<1>7. QED BY <1>3, <1>4, <1>5, <1>6 DEF GateSound

-----------------------------------------------------------------------------
(* Steps.                                                                  *)
LEMMA InitSound == GateInit => GateInv
<1> SUFFICES ASSUME GateInit PROVE GateInv
  OBVIOUS
<1>1. /\ channel \in Channels /\ disk = <<Baseline>> /\ job = Idle
      /\ floors = [channel |-> "unknown", least |-> <<>>, from |-> {}]
  BY DEF GateInit
<1>2. Baseline \in ReportRow
  <2>1. PICK scores : scores = [m \in Keys("answer") |-> Scale]
    OBVIOUS
  <2>2. Keys("answer") \subseteq MetricNames
    BY DEF MetricNames, Suites
  <2>3. scores \in [DOMAIN scores -> Nat] /\ DOMAIN scores = Keys("answer")
    BY <2>1, EvalMetricsAssumption
  <2>4. scores \in Scores
    BY <2>2, <2>3, ScoresAre
  <2>5. PICK overall : overall = [s \in {"answer"} |-> scores]
    OBVIOUS
  <2>6. overall \in Overalls
    <3>1. {"answer"} \in SUBSET Suites
      BY DEF Suites
    <3>2. overall \in [{"answer"} -> Scores]
      BY <2>4, <2>5
    <3>3. QED BY <3>1, <3>2 DEF Overalls
  <2>7. Baseline = [channel |-> "unknown", overall |-> overall, broken |-> FALSE]
    BY <2>1, <2>5 DEF Baseline
  <2>8. QED BY <2>6, <2>7 DEF ReportRow
<1>3. disk \in Seq(ReportRow)
  BY <1>1, <1>2
<1>4. floors \in FloorsRow(disk)
  <2>1. <<>> \in [DOMAIN <<>> -> Nat] /\ DOMAIN <<>> = {}
    OBVIOUS
  <2>2. <<>> \in Scores
    BY <2>1, ScoresAre
  <2>3. QED BY <1>1, <2>2 DEF FloorsRow
<1>5. GateTyped(disk, floors, job)
  BY <1>1, <1>3, <1>4 DEF GateTyped, Idle, JobRow, Running, Kinds
<1>6. RunsSound(disk, job) /\ VerdictSound(disk, floors, job) /\ FloorsSound(disk, floors)
  BY <1>1 DEF RunsSound, VerdictSound, FloorsSound, Idle, Running
<1>7. QED BY <1>1, <1>5, <1>6 DEF GateInv, GateSound

LEMMA StartsSound ==
    ASSUME GateInv, NEW pc \in Running, NEW judges \in SUBSET Kinds, StartRuns(pc, judges)
    PROVE  GateInv'
<1>1. PICK suites \in SuiteSets, judge \in judges : job' = [Idle EXCEPT !.pc = pc, !.suites = suites, !.judge = judge]
  BY DEF StartRuns
<1>2. PICK k : k = [pc |-> pc, runs |-> {}, suites |-> suites, judge |-> judge, rc |-> 0]
  OBVIOUS
<1>3. job' = k /\ UNCHANGED <<channel, disk, floors>>
  BY <1>1, <1>2 DEF StartRuns, Idle
<1>4. k \in JobRow(disk) /\ k.suites \in SuiteSets /\ k.judge \in Kinds /\ k.pc # "done"
  BY <1>2 DEF JobRow, Running, Kinds
<1>5. RunsSound(disk, k)
  BY <1>2 DEF RunsSound
<1>6. GateSound(disk, floors, k)
  BY <1>4, <1>5, JobStarts DEF GateInv
<1>7. QED BY <1>3, <1>6 DEF GateInv

LEMMA EvaluateSound ==
    ASSUME GateInv, Evaluate
    PROVE  GateInv'
<1>1. PICK suites \in SuiteSets, judge \in Kinds : Writes(suites, judge)
  BY DEF Evaluate, Kinds
<1>2. PICK report \in ReportRow : disk' = Append(disk, report)
  BY <1>1, WritesReport DEF GateInv, Kinds
<1>3. UNCHANGED <<channel, floors, job>>
  BY DEF Evaluate
<1>4. GateSound(Append(disk, report), floors, job)
  BY ReportAdds DEF GateInv
<1>5. QED BY <1>2, <1>3, <1>4 DEF GateInv

LEMMA OneRunSound ==
    ASSUME GateInv, OneRun
    PROVE  GateInv'
<1>1. /\ GateSound(disk, floors, job) /\ channel \in Channels /\ job.pc \in Running
      /\ UNCHANGED <<channel, floors>>
  BY DEF GateInv, OneRun, Running
<1>2. job \in JobRow(disk) /\ job.suites \in SuiteSets /\ job.judge \in Kinds /\ disk \in Seq(ReportRow)
  BY <1>1 DEF GateSound, GateTyped
<1>3. PICK report \in ReportRow : disk' = Append(disk, report)
  BY <1>1, <1>2, WritesReport DEF OneRun, Kinds
<1>4. PICK e : e = Append(disk, report)
  OBVIOUS
<1>5. GateSound(e, floors, job)
  BY <1>1, <1>4, ReportAdds
<1>6. /\ e \in Seq(ReportRow) /\ Len(e) \in DOMAIN e /\ Last(e) = e[Len(e)]
      /\ job \in JobRow(e) /\ job.runs \subseteq DOMAIN e
  <2>1. e \in Seq(ReportRow) /\ Len(e) = Len(disk) + 1 /\ Len(disk) \in Nat
    BY <1>2, <1>4, AppendProperties
  <2>2. job \in JobRow(e)
    BY <1>5 DEF GateSound, GateTyped
  <2>3. QED BY <2>1, <2>2 DEF Last, JobRow
<1>7. CASE e[Len(e)].broken
  <2>1. PICK k : k = [job EXCEPT !.pc = "done", !.judge = "-", !.rc = 1]
    OBVIOUS
  <2>2. job' = [job EXCEPT !.pc = "done", !.judge = "-", !.rc = 1, !.runs = job.runs]
    BY <1>3, <1>4, <1>6, <1>7 DEF OneRun, Exit
  <2>3. job' = k
    BY <1>6, <2>1, <2>2 DEF JobRow
  <2>4. k \in JobRow(e) /\ k.pc = "done" /\ k.rc = 1
    BY <1>6, <2>1 DEF JobRow, Kinds
  <2>5. RunsSound(e, k) /\ k.pc \notin Running
    BY <2>4 DEF RunsSound, Running
  <2>6. GateSound(e, floors, k)
    BY <1>5, <2>4, <2>5, JobStarts
  <2>7. QED BY <1>1, <1>3, <1>4, <2>3, <2>6 DEF GateInv
<1>8. CASE ~e[Len(e)].broken
  <2>1. PICK k : k = [job EXCEPT !.runs = job.runs \cup {Len(e)}]
    OBVIOUS
  <2>2. job' = k
    BY <1>3, <1>4, <1>6, <1>8, <2>1 DEF OneRun
  <2>3. k \in JobRow(e) /\ k.pc \in Running /\ k.suites \in SuiteSets /\ k.judge \in Kinds /\ k.pc # "done"
    BY <1>1, <1>2, <1>6, <2>1 DEF JobRow, Running
  <2>4. \A i \in job.runs : ~e[i].broken
    BY <1>1, <1>5 DEF GateSound, RunsSound
  <2>5. RunsSound(e, k)
    BY <1>6, <1>8, <2>1, <2>4 DEF RunsSound, JobRow
  <2>6. GateSound(e, floors, k)
    BY <1>5, <2>3, <2>5, JobStarts
  <2>7. QED BY <1>1, <1>3, <1>4, <2>2, <2>6 DEF GateInv
<1>9. QED BY <1>7, <1>8

LEMMA ExitIs ==
    ASSUME NEW d, job \in JobRow(d), NEW rc, NEW reports
    PROVE  Exit(rc, reports)
             = [pc |-> "done", runs |-> reports, suites |-> job.suites, judge |-> "-", rc |-> rc]
<1>1. PICK a, b, c, e, z : job = [pc |-> a, runs |-> b, suites |-> c, judge |-> e, rc |-> z]
  BY DEF JobRow
<1>2. PICK j1 : j1 = [job EXCEPT !.pc = "done"]
  OBVIOUS
<1>3. PICK j2 : j2 = [j1 EXCEPT !.judge = "-"]
  OBVIOUS
<1>4. PICK j3 : j3 = [j2 EXCEPT !.rc = rc]
  OBVIOUS
<1>5. j1 = [pc |-> "done", runs |-> b, suites |-> c, judge |-> e, rc |-> z]
  BY <1>1, <1>2
<1>6. j2 = [pc |-> "done", runs |-> b, suites |-> c, judge |-> "-", rc |-> z]
  BY <1>3, <1>5
<1>7. j3 = [pc |-> "done", runs |-> b, suites |-> c, judge |-> "-", rc |-> rc]
  BY <1>4, <1>6
<1>8. [j3 EXCEPT !.runs = reports] = [pc |-> "done", runs |-> reports, suites |-> c, judge |-> "-", rc |-> rc]
  BY <1>7
<1>9. Exit(rc, reports) = [j3 EXCEPT !.runs = reports]
  BY <1>2, <1>3, <1>4 DEF Exit
<1>10. job.suites = c
  BY <1>1
<1>11. QED BY <1>8, <1>9, <1>10

(* The exit of the gate on some reports, of its own runs or of any.        *)
LEMMA VerdictGiven ==
    ASSUME GateInv, NEW reports \in SUBSET DOMAIN disk, reports # {}, NEW suites \in SuiteSets \cup {{}},
           suites # {} => \A i \in reports : ~disk[i].broken,
           NEW k, k = [pc |-> "done", runs |-> reports, suites |-> suites, judge |-> "-",
                       rc |-> ExitCode(reports)]
    PROVE  GateSound(disk, floors, k)
<1>1. ExitCode(reports) \in {0, 2}
      /\ (ExitCode(reports) = 0 => ~Mismatch(floors.channel, reports) /\ Failures(reports) = {})
  BY DEF ExitCode
<1>2. ExitCode(reports) = 0 =>
        ~MismatchOn(disk, floors.channel, reports) /\ FailuresOn(disk, floors.least, reports) = {}
  BY <1>1, OnDisk
<1>3. k \in JobRow(disk) /\ k.pc \notin Running
  BY <1>1 DEF JobRow, Running
<1>4. GateTyped(disk, floors, k)
  BY <1>3 DEF GateInv, GateSound, GateTyped
<1>5. RunsSound(disk, k)
  BY <1>3 DEF RunsSound
<1>6. VerdictSound(disk, floors, k)
  BY <1>2 DEF VerdictSound
<1>7. QED BY <1>4, <1>5, <1>6 DEF GateInv, GateSound

LEMMA GateRunsSound ==
    ASSUME GateInv, GateRuns
    PROVE  GateInv'
<1>1. job \in JobRow(disk) /\ job.pc \in Running /\ job.suites \in SuiteSets /\ \A i \in job.runs : ~disk[i].broken
  BY DEF GateInv, GateSound, GateTyped, RunsSound, GateRuns, Running
<1>2. job.runs \in SUBSET DOMAIN disk /\ job.runs # {}
  <2>1. job.runs # {}
    BY FS_EmptySet, EvalGateAssumption DEF GateRuns
  <2>2. QED BY <1>1, <2>1 DEF JobRow
<1>3. PICK k : k = [pc |-> "done", runs |-> job.runs, suites |-> job.suites, judge |-> "-", rc |-> ExitCode(job.runs)]
  OBVIOUS
<1>4. job' = k
  BY <1>1, <1>3, ExitIs DEF GateRuns
<1>5. GateSound(disk, floors, k)
  BY <1>1, <1>2, <1>3, VerdictGiven
<1>6. QED BY <1>4, <1>5 DEF GateInv, GateRuns

LEMMA GateReportsSound ==
    ASSUME GateInv, GateReports
    PROVE  GateInv'
<1>1. job \in JobRow(disk)
  BY DEF GateInv, GateSound, GateTyped
<1>2. PICK reports \in (SUBSET DOMAIN disk) \ {{}} : job' = [Exit(ExitCode(reports), reports) EXCEPT !.suites = {}]
  BY DEF GateReports
<1>3. PICK k : k = [pc |-> "done", runs |-> reports, suites |-> {}, judge |-> "-", rc |-> ExitCode(reports)]
  OBVIOUS
<1>4. job' = k
  <2>1. PICK c : c = job.suites
    OBVIOUS
  <2>2. PICK rc : rc = ExitCode(reports)
    OBVIOUS
  <2>3. PICK exit : exit = Exit(rc, reports)
    OBVIOUS
  <2>4. exit = [pc |-> "done", runs |-> reports, suites |-> c, judge |-> "-", rc |-> rc]
    BY <1>1, <2>1, <2>3, ExitIs
  <2>5. [exit EXCEPT !.suites = {}] = [pc |-> "done", runs |-> reports, suites |-> {}, judge |-> "-", rc |-> rc]
    BY <2>4
  <2>6. job' = [exit EXCEPT !.suites = {}]
    BY <1>2, <2>2, <2>3
  <2>7. QED BY <1>3, <2>2, <2>5, <2>6
<1>5. GateSound(disk, floors, k)
  <2>1. reports \in SUBSET DOMAIN disk /\ reports # {} /\ {} \in SuiteSets \cup {{}}
    BY <1>2
  <2>2. PICK none : none = {}
    OBVIOUS
  <2>3. k = [pc |-> "done", runs |-> reports, suites |-> none, judge |-> "-", rc |-> ExitCode(reports)]
    BY <1>3, <2>2
  <2>4. QED BY <2>1, <2>2, <2>3, VerdictGiven
<1>6. QED BY <1>4, <1>5 DEF GateInv, GateReports

LEMMA RecalibrationSound ==
    ASSUME GateInv, NEW reports \in SUBSET DOMAIN disk, NEW c \in Channels, Recalibrated(reports, c),
           job' = Idle, UNCHANGED <<channel, disk>>
    PROVE  GateInv'
<1>1. CASE Mismatch(c, reports)
  <2>1. GateSound(disk, floors, Idle) /\ UNCHANGED floors
    BY <1>1, IdleSound DEF GateInv, Recalibrated
  <2>2. QED BY <2>1 DEF GateInv
<1>2. CASE ~Mismatch(c, reports)
  <2>1. PICK g : g = [channel |-> c, least |-> DerivedOn(disk, reports), from |-> reports]
    OBVIOUS
  <2>2. floors' = g
    BY <1>2, <2>1, OnDisk DEF Recalibrated
  <2>3. GateSound(disk, g, Idle)
    BY <1>2, <2>1, OnDisk, NewFloors DEF GateInv
  <2>4. QED BY <2>2, <2>3 DEF GateInv
<1>3. QED BY <1>1, <1>2

LEMMA StepSound ==
    ASSUME GateInv, [GateNext]_gate_vars
    PROVE  GateInv'
<1>1. CASE UNCHANGED gate_vars
  BY <1>1 DEF gate_vars, GateInv
<1>2. CASE SwapModel
  BY <1>2 DEF SwapModel, GateInv
<1>3. CASE Evaluate
  BY <1>3, EvaluateSound
<1>4. CASE StartRuns("gate", {"llm", "deterministic"}) \/ StartRuns("recalibrate", {"deterministic"})
  BY <1>4, StartsSound DEF Running, Kinds
<1>5. CASE OneRun
  BY <1>5, OneRunSound
<1>6. CASE GateRuns
  BY <1>6, GateRunsSound
<1>7. CASE GateReports
  BY <1>7, GateReportsSound
<1>8. CASE RecalibrateRuns
  <2>1. job.runs \in SUBSET DOMAIN disk
    BY DEF GateInv, GateSound, GateTyped, JobRow
  <2>2. QED BY <1>8, <2>1, RecalibrationSound DEF RecalibrateRuns
<1>9. CASE RecalibrateReports
  BY <1>9, RecalibrationSound DEF RecalibrateReports
<1>10. QED BY <1>1, <1>2, <1>3, <1>4, <1>5, <1>6, <1>7, <1>8, <1>9 DEF GateNext

LEMMA GateAlwaysSound == GateSpec => []GateInv
<1>1. GateInv /\ [GateNext]_gate_vars => GateInv'
  BY StepSound
<1>2. QED BY <1>1, InitSound, PTL DEF GateSpec

-----------------------------------------------------------------------------
LEMMA SoundFloorsPass == GateInv => FreshFloorsPass
<1> SUFFICES ASSUME GateInv, job.pc = "done", job.rc = 2, job.runs = floors.from
    PROVE  /\ ~Mismatch(floors.channel, job.runs)
           /\ \A m \in Failures(job.runs) : floors.least[m] = 0
  BY DEF FreshFloorsPass
<1>1. PICK R : R = job.runs
  OBVIOUS
<1>2. /\ R = floors.from /\ R # {} /\ R \in SUBSET DOMAIN disk /\ disk \in Seq(ReportRow)
      /\ ~MismatchOn(disk, floors.channel, R) /\ floors.least = DerivedOn(disk, R)
  BY <1>1 DEF GateInv, GateSound, GateTyped, VerdictSound, FloorsSound, JobRow
<1>3. ~Mismatch(floors.channel, job.runs)
  BY <1>1, <1>2, OnDisk
<1>4. ASSUME NEW m \in Failures(job.runs), floors.least[m] # 0 PROVE FALSE
  <2>1. PICK x : x = SampleOn(disk, R, m)
    OBVIOUS
  <2>2. m \in DOMAIN floors.least /\ LowerBelow(x, floors.least[m] - Tolerance)
    <3>1. m \in FailuresOn(disk, floors.least, R)
      BY <1>1, <1>4, OnDisk
    <3>2. QED BY <2>1, <3>1 DEF FailuresOn
  <2>3. floors.least[m] = Floor(x)
    BY <1>2, <2>1, <2>2 DEF DerivedOn
  <2>4. PICK g : g = Floor(x)
    OBVIOUS
  <2>5. g \in Nat /\ ~LowerBelow(x, g + Headroom) /\ LowerBelow(x, g - Tolerance)
    BY <1>4, <2>2, <2>3, <2>4, FloorIs
  <2>6. x.n \in Nat /\ x.S \in Nat /\ x.Q \in Nat
    BY <1>2, <2>1, SampleNatural
  <2>7. g - Tolerance \in Int /\ g + Headroom \in Int /\ g - Tolerance <= g + Headroom
    BY <2>5, EvalGateAssumption
  <2>8. QED BY <2>5, <2>6, <2>7, LowerBelowGrows
<1>5. QED BY <1>3, <1>4

LEMMA SoundIsComparable == GateInv => PassMeansComparable
<1> SUFFICES ASSUME GateInv, job.pc = "done", job.rc = 0
    PROVE  /\ floors.channel # "unknown" => \A i \in job.runs : disk[i].channel \in {"unknown", floors.channel}
           /\ job.suites # {} => \A i \in job.runs : ~disk[i].broken
  BY DEF PassMeansComparable
<1>1. ~MismatchOn(disk, floors.channel, job.runs)
  BY DEF GateInv, GateSound, VerdictSound
<1>2. job.suites # {} => \A i \in job.runs : ~disk[i].broken
  BY DEF GateInv, GateSound, RunsSound
<1>3. QED BY <1>1, <1>2 DEF MismatchOn

LEMMA SoundShowsDrops == GateInv => SustainedDropFails
<1> SUFFICES ASSUME GateInv, job.pc = "done", job.rc = 0, NEW m \in DOMAIN floors.least, Having(job.runs, m) # {},
                    \A i \in Having(job.runs, m) : ~(Value(i, m) >= floors.least[m] - Tolerance)
    PROVE  FALSE
  BY DEF SustainedDropFails
<1>1. /\ FailuresOn(disk, floors.least, job.runs) = {} /\ disk \in Seq(ReportRow)
      /\ job.runs \in SUBSET DOMAIN disk /\ floors.least \in Scores
  BY DEF GateInv, GateSound, GateTyped, VerdictSound, JobRow, FloorsRow
<1>2. PICK f : f = floors.least[m] - Tolerance
  OBVIOUS
<1>3. f \in Int
  <2>1. floors.least[m] \in Nat
    BY <1>1, ScoresAre
  <2>2. QED BY <1>2, <2>1, EvalGateAssumption
<1>4. /\ HavingOn(disk, job.runs, m) # {}
      /\ \A i \in HavingOn(disk, job.runs, m) : ~(ValueOn(disk, i, m) >= f)
  BY <1>2, OnDisk
<1>5. PICK x : x = SampleOn(disk, job.runs, m)
  OBVIOUS
<1>6. x.n > 0 /\ LowerBelow(x, f)
  BY <1>1, <1>3, <1>4, <1>5, NoneReaches
<1>7. m \in FailuresOn(disk, floors.least, job.runs)
  BY <1>2, <1>5, <1>6 DEF FailuresOn
<1>8. QED BY <1>1, <1>7

(* multi_run_gate: floors let the reports that they were derived from      *)
(* through, however the scores of these are spread and whatever the        *)
(* headroom and the tolerance, but for a floor that was clamped at zero.   *)
THEOREM FreshFloorsAlwaysPass == GateSpec => []FreshFloorsPass
BY GateAlwaysSound, SoundFloorsPass, PTL

(* multi_run_gate: whatever swaps of the model, evaluations, gates and     *)
(* recalibrations came before, a gate that passes compared runs of the     *)
(* channel of the floors, and its own runs had not failed.                 *)
THEOREM PassAlwaysComparable == GateSpec => []PassMeansComparable
BY GateAlwaysSound, SoundIsComparable, PTL

(* multi_run_gate: a drop below a floor that every run shows fails the     *)
(* gate, for any number of runs and any scores.                            *)
THEOREM SustainedDropsAlwaysFail == GateSpec => []SustainedDropFails
BY GateAlwaysSound, SoundShowsDrops, PTL
=============================================================================
