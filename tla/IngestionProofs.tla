--------------------------- MODULE IngestionProofs ---------------------------
(***************************************************************************)
(* TLAPS proofs about what ingestion writes and what is read from it: the  *)
(* entities of the memories and their pages (Entities, EntityPages), for   *)
(* any number of memories, mentions, findings, entities and normalisations *)
(* under way; and the chunks of the documents and the searches (Chunking,  *)
(* Documents), for texts of any length and any number of documents,        *)
(* ingestions and rows.                                                    *)
(***************************************************************************)
EXTENDS EntityPages, Documents, CollectionsProofs, SequenceTheorems

MentionNames == {x.name : x \in Mentions}
MentionTypes == {x.type : x \in Mentions}
Relations == UNION Claims

MemoryRow == [status : {"none", "live", "deleted"}, entities : Seq(Mentions),
              relations : SUBSET Relations]
Update == [memory : Memories \cup {"-"}, found : Seq(Mentions), claims : SUBSET Relations,
           old : Seq(Mentions), oldClaims : SUBSET Relations]
EntityRow == [canonical : MentionNames, name : MentionNames, type : MentionTypes]
TaskRow == [memory : Memories, todo : Seq(Mentions), pc : {"next", "insert", "link"},
            entity : Nat]
Counters == [writes : Nat, failures : Nat, backfills : Nat]

EntityTypeOK ==
    /\ memories \in [Memories -> MemoryRow]
    /\ update \in Update /\ (update # NoUpdate => update.memory \in Memories)
    /\ entities \in Seq(EntityRow)
    /\ links \subseteq Memories \X DOMAIN entities
    /\ queue \in Seq(TaskRow) /\ backfill \in Seq(TaskRow)
    /\ lost \subseteq Memories \X Mentions /\ killed \subseteq Memories \X Mentions
    /\ clean \in BOOLEAN /\ count \in Counters

(* A task past its search has a mention in hand, and the row it is about   *)
(* to link is one of a close name.                                         *)
TaskSound(table, task) ==
    /\ task.pc # "next" => task.todo # <<>>
    /\ task.pc = "link" =>
        /\ task.entity \in DOMAIN table
        /\ Similar(Head(task.todo).name, table[task.entity].canonical)
AllSound(table, tasks) == \A i \in DOMAIN tasks : TaskSound(table, tasks[i])
TasksSound == AllSound(entities, queue) /\ AllSound(entities, backfill)

Wanted(m, x) == Live(m) /\ x \in ToSet(memories[m].entities)
Pending(m, x) == <<m, x>> \in Owed(queue) \cup Owed(backfill)
Excused(m, x) == <<m, x>> \in lost \cup killed

(* While nothing has failed since the backfill began, even a mention whose *)
(* failure was logged before it is linked or pending.                      *)
CleanSound ==
    clean => \A m \in Memories : \A x : Wanted(m, x) => Reaches(m, x) \/ Pending(m, x)

EInv == EntityTypeOK /\ TasksSound /\ UnlinkedOnlyByFailureOrRestart /\ CleanSound
-----------------------------------------------------------------------------
(* What is left of a list of mentions, and what a merge makes of two.      *)
LEMMA WithoutIsSeq ==
    ASSUME NEW R, NEW s \in Seq(R), NEW names
    PROVE  Without(s, names) \in Seq(R)
BY ChosenSelects DEF Without

LEMMA WithoutHas ==
    ASSUME NEW R, NEW s \in Seq(R), NEW names
    PROVE  \A i \in DOMAIN s : s[i].name \notin names => s[i].name \in Names(Without(s, names))
<1> SUFFICES ASSUME NEW i \in DOMAIN s, s[i].name \notin names
             PROVE  s[i].name \in Names(Without(s, names))
  OBVIOUS
<1>1. PICK keep : keep = {k \in DOMAIN s : s[k].name \notin names}
  OBVIOUS
<1>2. PICK c : c = Chosen(s, keep)
  OBVIOUS
<1>3. c \in Seq(R) /\ Selects(c, s, keep, Len(s))
  BY <1>2, ChosenSelects
<1>4. PICK pos \in [1..Len(c) -> 1..Len(s)] :
        /\ \A k \in 1..Len(c) : pos[k] \in keep /\ c[k] = s[pos[k]]
        /\ \A m \in 1..Len(s) : m \in keep => \E k \in 1..Len(c) : pos[k] = m
  BY <1>3 DEF Selects
<1>5. i \in keep /\ i \in 1..Len(s)
  BY <1>1
<1>6. PICK k \in 1..Len(c) : pos[k] = i
  BY <1>4, <1>5
<1>7. c[k] = s[i] /\ k \in DOMAIN c
  BY <1>3, <1>4, <1>6
<1>8. Without(s, names) = c
  BY <1>1, <1>2 DEF Without
<1>9. QED BY <1>7, <1>8 DEF Names

(* What a write stores is made of mentions and of claimed relations.       *)
LEMMA ExtractedIsSeq ==
    ASSUME NEW found \in Findings, NEW channel \in Channels
    PROVE  ExtractEntities(found, channel) \in Seq(Mentions)
<1>1. found \in Seq(Mentions)
  BY EntitiesAssumption
<1>2. Without(found, NotText) \in Seq(Mentions)
  BY <1>1, WithoutIsSeq
<1>3. QED BY <1>1, <1>2 DEF ExtractEntities, Channels

LEMMA ExtractedAreRelations ==
    ASSUME NEW claims \in Claims, NEW ents, NEW channel
    PROVE  ExtractRelations(claims, ents, channel) \subseteq Relations
BY DEF ExtractRelations, FilterRelations, Relations

LEMMA GreatestNumber ==
    ASSUME NEW n \in Nat, NEW T, T \subseteq 1..n, T # {}
    PROVE  \E m \in T : \A k \in T : k <= m
<1>1. PICK S : S = {n - i : i \in T}
  OBVIOUS
<1>2. S \subseteq Nat /\ S # {}
  <2>1. \A i \in T : n - i \in Nat
    OBVIOUS
  <2>2. PICK i \in T : TRUE
    OBVIOUS
  <2>3. n - i \in S
    BY <1>1
  <2>4. QED BY <1>1, <2>1, <2>3
<1>3. PICK s \in S : \A r \in S : ~(r < s)
  BY <1>2, LeastNumber
<1>4. PICK m \in T : s = n - m
  BY <1>1
<1>5. ASSUME NEW k \in T PROVE k <= m
  <2>1. n - k \in S
    BY <1>1
  <2>2. ~(n - k < n - m)
    BY <1>3, <1>4, <2>1
  <2>3. QED BY <2>2
<1>6. QED BY <1>5

LEMMA MergedIs ==
    ASSUME NEW old \in Seq(Mentions), NEW new \in Seq(Mentions)
    PROVE  /\ MergeEntities(old, new) \in Seq(Mentions)
           /\ Names(old) \cup Names(new) \subseteq Names(MergeEntities(old, new))
<1>1. PICK all \in Seq(Mentions) : all = old \o new
  BY ConcatProperties
<1>2. PICK n \in Nat : n = Len(all) /\ DOMAIN all = 1..n
  OBVIOUS
<1> DEFINE last(x) == CHOOSE i \in DOMAIN all :
                        /\ all[i].name = x.name
                        /\ \A j \in DOMAIN all : all[j].name = x.name => j <= i
<1>3. ASSUME NEW i \in DOMAIN all
      PROVE  last(all[i]) \in DOMAIN all /\ all[last(all[i])].name = all[i].name
  <2>1. PICK T : T = {k \in 1..n : all[k].name = all[i].name}
    OBVIOUS
  <2>2. i \in T /\ T \subseteq 1..n
    BY <1>2, <2>1
  <2>3. PICK m \in T : \A k \in T : k <= m
    BY <2>2, GreatestNumber
  <2>4. /\ m \in DOMAIN all /\ all[m].name = all[i].name
        /\ \A j \in DOMAIN all : all[j].name = all[i].name => j <= m
    BY <1>2, <2>1, <2>3
  <2>5. QED BY <2>4, Zenon
<1>4. PICK latest : latest = [i \in DOMAIN all |-> all[last(all[i])]]
  OBVIOUS
<1>5. PICK keep : keep = {i \in DOMAIN all : \A j \in 1..(i - 1) : all[j].name # all[i].name}
  OBVIOUS
<1>6. MergeEntities(old, new) = Chosen(latest, keep)
  BY <1>1, <1>4, <1>5 DEF MergeEntities
<1> HIDE DEF last
<1>7. /\ latest \in Seq(Mentions) /\ Len(latest) = n
      /\ \A i \in 1..n : latest[i].name = all[i].name
  <2>1. /\ latest = [i \in 1..n |-> all[last(all[i])]]
        /\ \A i \in 1..n : last(all[i]) \in 1..n /\ all[last(all[i])].name = all[i].name
    BY <1>2, <1>3, <1>4
  <2>2. \A i \in 1..n : all[last(all[i])] \in Mentions
    BY <1>2, <2>1
  <2>3. latest \in [1..n -> Mentions] /\ \A i \in 1..n : latest[i].name = all[i].name
    BY <2>1, <2>2, Zenon
  <2>4. QED BY <2>3
<1>8. PICK c : c = Chosen(latest, keep)
  OBVIOUS
<1>9. c \in Seq(Mentions) /\ Selects(c, latest, keep, n)
  BY <1>7, <1>8, ChosenSelects
<1>10. PICK pos \in [1..Len(c) -> 1..n] :
         /\ \A i \in 1..Len(c) : pos[i] \in keep /\ c[i] = latest[pos[i]]
         /\ \A m \in 1..n : m \in keep => \E i \in 1..Len(c) : pos[i] = m
  BY <1>9 DEF Selects
<1>11. ASSUME NEW i \in 1..n PROVE all[i].name \in Names(c)
  <2>1. PICK T : T = {k \in 1..n : all[k].name = all[i].name}
    OBVIOUS
  <2>2. i \in T /\ T \subseteq Nat
    BY <2>1
  <2>3. PICK m \in T : \A k \in T : ~(k < m)
    BY <2>2, LeastNumber
  <2>4. m \in 1..n /\ all[m].name = all[i].name /\ m \in keep
    BY <1>2, <1>5, <2>1, <2>3
  <2>5. PICK k \in 1..Len(c) : pos[k] = m
    BY <1>10, <2>4
  <2>6. k \in DOMAIN c /\ c[k].name = all[i].name
    BY <1>7, <1>9, <1>10, <2>4, <2>5
  <2>7. QED BY <2>6, Zenon DEF Names
<1>12. ASSUME NEW i \in DOMAIN old PROVE old[i].name \in Names(c)
  <2>1. i \in 1..n /\ all[i] = old[i]
    BY <1>1, <1>2
  <2>2. QED BY <1>11, <2>1
<1>13. ASSUME NEW i \in DOMAIN new PROVE new[i].name \in Names(c)
  <2>1. Len(old) + i \in 1..n /\ all[Len(old) + i] = new[i]
    BY <1>1, <1>2
  <2>2. QED BY <1>11, <2>1
<1>14. Names(old) \cup Names(new) \subseteq Names(c)
  BY <1>12, <1>13 DEF Names
<1>15. QED BY <1>6, <1>8, <1>9, <1>14

-----------------------------------------------------------------------------
(* What a list of tasks owes.                                              *)
LEMMA OwedIff ==
    ASSUME NEW tasks, NEW m, NEW x
    PROVE  <<m, x>> \in Owed(tasks) <=>
             \E i \in DOMAIN tasks : tasks[i].memory = m /\ x \in ToSet(tasks[i].todo)
<1>1. ASSUME <<m, x>> \in Owed(tasks)
      PROVE  \E i \in DOMAIN tasks : tasks[i].memory = m /\ x \in ToSet(tasks[i].todo)
  <2>1. PICK i \in DOMAIN tasks : <<m, x>> \in {<<tasks[i].memory, y>> : y \in ToSet(tasks[i].todo)}
    BY <1>1, Zenon DEF Owed
  <2>2. QED BY <2>1
<1>2. ASSUME NEW i \in DOMAIN tasks, tasks[i].memory = m, x \in ToSet(tasks[i].todo)
      PROVE  <<m, x>> \in Owed(tasks)
  <2>1. <<m, x>> \in {<<tasks[i].memory, y>> : y \in ToSet(tasks[i].todo)}
    BY <1>2
  <2>2. QED BY <2>1, Zenon DEF Owed
<1>3. QED BY <1>1, <1>2

(* One task replaced by another of the same memory.                        *)
LEMMA Replaced ==
    ASSUME NEW tasks \in Seq(TaskRow), NEW i \in DOMAIN tasks,
           NEW task \in TaskRow, task.memory = tasks[i].memory
    PROVE  LET after == [tasks EXCEPT ![i] = task] IN
           /\ after \in Seq(TaskRow)
           /\ \A m, x : <<m, x>> \in Owed(tasks) =>
                \/ <<m, x>> \in Owed(after)
                \/ m = task.memory /\ x \in ToSet(tasks[i].todo) \ ToSet(task.todo)
           /\ \A table : AllSound(table, tasks) /\ TaskSound(table, task) => AllSound(table, after)
<1>1. PICK after : after = [tasks EXCEPT ![i] = task]
  OBVIOUS
<1>2. /\ after \in Seq(TaskRow) /\ DOMAIN after = DOMAIN tasks
      /\ after[i] = task /\ \A k \in DOMAIN tasks \ {i} : after[k] = tasks[k]
  BY <1>1
<1>3. ASSUME NEW m, NEW x, <<m, x>> \in Owed(tasks), <<m, x>> \notin Owed(after)
      PROVE  m = task.memory /\ x \in ToSet(tasks[i].todo) \ ToSet(task.todo)
  <2>1. PICK k \in DOMAIN tasks : tasks[k].memory = m /\ x \in ToSet(tasks[k].todo)
    BY <1>3, OwedIff
  <2>2. ~(after[k].memory = m /\ x \in ToSet(after[k].todo))
    BY <1>2, <1>3, <2>1, OwedIff
  <2>3. k = i
    BY <1>2, <2>1, <2>2
  <2>4. QED BY <1>2, <2>1, <2>2, <2>3
<1>4. ASSUME NEW table, AllSound(table, tasks), TaskSound(table, task)
      PROVE  AllSound(table, after)
  BY <1>2, <1>4, Zenon DEF AllSound
<1>5. QED BY <1>1, <1>2, <1>3, <1>4

(* One task taken out: no position but its own is lost.                    *)
LEMMA TakenOut ==
    ASSUME NEW tasks \in Seq(TaskRow), NEW i \in DOMAIN tasks,
           NEW after \in Seq(TaskRow),
           \A k \in DOMAIN tasks \ {i} : \E n \in DOMAIN after : after[n] = tasks[k],
           \A n \in DOMAIN after : \E k \in DOMAIN tasks : after[n] = tasks[k]
    PROVE  /\ \A m, x : <<m, x>> \in Owed(tasks) =>
                \/ <<m, x>> \in Owed(after)
                \/ m = tasks[i].memory /\ x \in ToSet(tasks[i].todo)
           /\ \A table : AllSound(table, tasks) => AllSound(table, after)
<1>1. ASSUME NEW m, NEW x, <<m, x>> \in Owed(tasks), <<m, x>> \notin Owed(after)
      PROVE  m = tasks[i].memory /\ x \in ToSet(tasks[i].todo)
  <2>1. PICK k \in DOMAIN tasks : tasks[k].memory = m /\ x \in ToSet(tasks[k].todo)
    BY ONLY <1>1, OwedIff
  <2>2. k = i
    <3> SUFFICES ASSUME k # i PROVE FALSE
      OBVIOUS
    <3>1. PICK n \in DOMAIN after : after[n] = tasks[k]
      BY <2>1
    <3>2. QED BY ONLY <1>1, <2>1, <3>1, OwedIff
  <2>3. QED BY <2>1, <2>2
<1>2. ASSUME NEW table, AllSound(table, tasks)
      PROVE  AllSound(table, after)
  BY <1>2, Zenon DEF AllSound
<1>3. QED BY <1>1, <1>2

LEMMA RemoveAtTakesOut ==
    ASSUME NEW tasks \in Seq(TaskRow), NEW i \in DOMAIN tasks
    PROVE  LET after == RemoveAt(tasks, i) IN
           /\ after \in Seq(TaskRow)
           /\ \A k \in DOMAIN tasks \ {i} : \E n \in DOMAIN after : after[n] = tasks[k]
           /\ \A n \in DOMAIN after : \E k \in DOMAIN tasks : after[n] = tasks[k]
<1>1. PICK len \in Nat : len = Len(tasks) /\ DOMAIN tasks = 1..len /\ i \in 1..len
  OBVIOUS
<1>2. PICK front : front = SubSeq(tasks, 1, i - 1)
  OBVIOUS
<1>3. PICK rest : rest = SubSeq(tasks, i + 1, len)
  OBVIOUS
<1>4. PICK after : after = front \o rest
  OBVIOUS
<1>5. RemoveAt(tasks, i) = after
  BY <1>1, <1>2, <1>3, <1>4 DEF RemoveAt
<1>6. /\ front \in Seq(TaskRow) /\ Len(front) = i - 1
      /\ \A k \in 1..(i - 1) : front[k] = tasks[k]
  BY <1>1, <1>2
<1>7. /\ rest \in Seq(TaskRow) /\ Len(rest) = len - i
      /\ \A k \in 1..(len - i) : rest[k] = tasks[k + i]
  BY <1>1, <1>3
<1>8. /\ after \in Seq(TaskRow) /\ Len(after) = len - 1 /\ DOMAIN after = 1..(len - 1)
      /\ \A k \in 1..(len - 1) : after[k] = IF k < i THEN tasks[k] ELSE tasks[k + 1]
  <2>1. /\ after \in Seq(TaskRow) /\ Len(after) = len - 1
        /\ \A k \in 1..(len - 1) :
             after[k] = IF k <= i - 1 THEN front[k] ELSE rest[k - (i - 1)]
    <3>1. /\ after \in Seq(TaskRow) /\ Len(after) = Len(front) + Len(rest)
          /\ \A k \in 1..(Len(front) + Len(rest)) :
               after[k] = IF k <= Len(front) THEN front[k] ELSE rest[k - Len(front)]
      BY <1>4, <1>6, <1>7, ConcatProperties, Zenon
    <3>2. Len(front) + Len(rest) = len - 1 /\ Len(front) = i - 1
      <4>1. Len(front) = i - 1 /\ Len(rest) = len - i
        BY ONLY <1>6, <1>7
      <4>2. i \in Int /\ len \in Int
        BY <1>1
      <4>3. (i - 1) + (len - i) = len - 1
        BY ONLY <4>2
      <4>4. QED BY ONLY <4>1, <4>3
    <3>3. Len(after) = len - 1
      BY <3>1, <3>2
    <3>4. \A k \in 1..(len - 1) :
             after[k] = IF k <= i - 1 THEN front[k] ELSE rest[k - (i - 1)]
      BY ONLY <3>1, <3>2
    <3>5. QED BY <3>1, <3>3, <3>4
  <2>2. ASSUME NEW k \in 1..(len - 1)
        PROVE  after[k] = IF k < i THEN tasks[k] ELSE tasks[k + 1]
    <3>1. CASE k < i
      <4>1. k \in 1..(i - 1)
        BY <1>1, <3>1
      <4>2. QED BY <1>1, <1>6, <2>1, <3>1, <4>1
    <3>2. CASE ~(k < i)
      <4>1. k - (i - 1) \in 1..(len - i) /\ (k - (i - 1)) + i = k + 1 /\ ~(k <= i - 1)
        BY <1>1, <3>2
      <4>2. QED BY <1>7, <2>1, <3>2, <4>1
    <3>3. QED BY <3>1, <3>2
  <2>3. QED BY <1>1, <2>1, <2>2
<1>9. ASSUME NEW k \in DOMAIN tasks \ {i}
      PROVE  \E n \in DOMAIN after : after[n] = tasks[k]
  <2>1. CASE k < i
    <3>1. k \in 1..(len - 1)
      BY <1>1, <2>1
    <3>2. after[k] = tasks[k]
      BY <1>8, <2>1, <3>1
    <3>3. QED BY <1>8, <3>1, <3>2
  <2>2. CASE ~(k < i)
    <3>1. k - 1 \in 1..(len - 1) /\ ~(k - 1 < i) /\ (k - 1) + 1 = k
      BY <1>1, <2>2
    <3>2. after[k - 1] = tasks[k]
      BY <1>8, <3>1
    <3>3. QED BY <1>8, <3>1, <3>2
  <2>3. QED BY <2>1, <2>2
<1>10. ASSUME NEW n \in DOMAIN after
       PROVE  \E k \in DOMAIN tasks : after[n] = tasks[k]
  <2>1. n \in 1..len /\ n + 1 \in 1..len
    BY <1>1, <1>8
  <2>2. after[n] = tasks[n] \/ after[n] = tasks[n + 1]
    BY <1>8
  <2>3. QED BY <1>1, <2>1, <2>2
<1>11. QED BY <1>5, <1>8, <1>9, <1>10

LEMMA TailTakesOut ==
    ASSUME NEW tasks \in Seq(TaskRow), tasks # <<>>
    PROVE  LET after == Tail(tasks) IN
           /\ after \in Seq(TaskRow)
           /\ \A k \in DOMAIN tasks \ {1} : \E n \in DOMAIN after : after[n] = tasks[k]
           /\ \A n \in DOMAIN after : \E k \in DOMAIN tasks : after[n] = tasks[k]
<1>1. PICK len \in Nat \ {0} : len = Len(tasks) /\ DOMAIN tasks = 1..len
  OBVIOUS
<1>2. PICK after : after = Tail(tasks)
  OBVIOUS
<1>3. /\ after \in Seq(TaskRow) /\ DOMAIN after = 1..(len - 1)
      /\ \A n \in 1..(len - 1) : after[n] = tasks[n + 1]
  BY <1>1, <1>2
<1>4. ASSUME NEW k \in DOMAIN tasks \ {1}
      PROVE  \E n \in DOMAIN after : after[n] = tasks[k]
  <2>1. k - 1 \in 1..(len - 1) /\ (k - 1) + 1 = k
    BY <1>1
  <2>2. QED BY <1>3, <2>1
<1>5. ASSUME NEW n \in DOMAIN after
      PROVE  \E k \in DOMAIN tasks : after[n] = tasks[k]
  <2>1. n + 1 \in 1..len
    BY <1>1, <1>3
  <2>2. QED BY <1>1, <1>3, <2>1
<1>6. QED BY <1>2, <1>3, <1>4, <1>5

LEMMA Appended ==
    ASSUME NEW tasks \in Seq(TaskRow), NEW task \in TaskRow
    PROVE  LET after == Append(tasks, task) IN
           /\ after \in Seq(TaskRow)
           /\ \A m, x : <<m, x>> \in Owed(tasks) => <<m, x>> \in Owed(after)
           /\ \A x \in ToSet(task.todo) : <<task.memory, x>> \in Owed(after)
           /\ \A table : AllSound(table, tasks) /\ TaskSound(table, task) => AllSound(table, after)
<1>1. PICK len \in Nat : len = Len(tasks) /\ DOMAIN tasks = 1..len
  OBVIOUS
<1>2. PICK after : after = Append(tasks, task)
  OBVIOUS
<1>3. /\ after \in Seq(TaskRow) /\ DOMAIN after = 1..(len + 1)
      /\ \A k \in 1..len : k \in 1..(len + 1) /\ after[k] = tasks[k]
      /\ len + 1 \in 1..(len + 1) /\ after[len + 1] = task
  BY <1>1, <1>2
<1>4. ASSUME NEW m, NEW x, <<m, x>> \in Owed(tasks)
      PROVE  <<m, x>> \in Owed(after)
  <2>1. PICK k \in DOMAIN tasks : tasks[k].memory = m /\ x \in ToSet(tasks[k].todo)
    BY <1>4, OwedIff
  <2>2. QED BY <1>1, <1>3, <2>1, OwedIff
<1>5. ASSUME NEW x \in ToSet(task.todo)
      PROVE  <<task.memory, x>> \in Owed(after)
  BY <1>3, OwedIff
<1>6. ASSUME NEW table, AllSound(table, tasks), TaskSound(table, task)
      PROVE  AllSound(table, after)
  <2>1. ASSUME NEW k \in DOMAIN after PROVE TaskSound(table, after[k])
    <3>1. k \in 1..len \/ k = len + 1
      BY <1>1, <1>3
    <3>2. QED BY <1>1, <1>3, <1>6, <3>1, Zenon DEF AllSound
  <2>2. QED BY <2>1 DEF AllSound
<1>7. QED BY <1>2, <1>3, <1>4, <1>5, <1>6

-----------------------------------------------------------------------------
(* Rows are only added and renamed: what is close to a row stays close.    *)
EntitiesGrow(table, more) ==
    /\ DOMAIN table \subseteq DOMAIN more
    /\ \A i \in DOMAIN table : more[i].canonical = table[i].canonical

LEMMA SoundInMore ==
    ASSUME NEW table, NEW more, EntitiesGrow(table, more), NEW tasks, AllSound(table, tasks)
    PROVE  AllSound(more, tasks)
<1>1. ASSUME NEW i \in DOMAIN tasks PROVE TaskSound(more, tasks[i])
  <2>1. TaskSound(table, tasks[i])
    BY DEF AllSound
  <2>2. QED BY <2>1 DEF TaskSound, EntitiesGrow
<1>2. QED BY <1>1 DEF AllSound

LEMMA ReachesKept ==
    ASSUME EntitiesGrow(entities, entities'), links \subseteq links', NEW m, NEW x, Reaches(m, x)
    PROVE  Reaches(m, x)'
<1>1. PICK id \in DOMAIN entities : <<m, id>> \in links /\ Similar(x.name, entities[id].canonical)
  BY DEF Reaches
<1>2. /\ id \in DOMAIN entities' /\ <<m, id>> \in links'
      /\ Similar(x.name, entities'[id].canonical)
  BY <1>1 DEF EntitiesGrow
<1>3. QED BY <1>2 DEF Reaches

(* What a step must not disturb for every mention to stay accounted for.   *)
LEMMA StillAccounted ==
    ASSUME UnlinkedOnlyByFailureOrRestart, CleanSound,
           EntitiesGrow(entities, entities'), links \subseteq links',
           \A m \in Memories : \A x : Wanted(m, x)' => Wanted(m, x) \/ Pending(m, x)',
           \A m \in Memories : \A x : Pending(m, x) =>
              Pending(m, x)' \/ Reaches(m, x)' \/ (Excused(m, x)' /\ ~clean'),
           \A m \in Memories : \A x : Excused(m, x) => Excused(m, x)' \/ Reaches(m, x)',
           clean' => clean
    PROVE  UnlinkedOnlyByFailureOrRestart' /\ CleanSound'
<1>1. ASSUME NEW m \in Memories, NEW x, Wanted(m, x)'
      PROVE  Reaches(m, x)' \/ Pending(m, x)' \/ Excused(m, x)'
  <2>1. CASE Wanted(m, x)
    <3>1. Reaches(m, x) \/ Pending(m, x) \/ Excused(m, x)
      BY <2>1 DEF UnlinkedOnlyByFailureOrRestart, Wanted, Pending, Excused
    <3>2. QED BY <3>1, ReachesKept
  <2>2. QED BY <1>1, <2>1
<1>2. ASSUME NEW m \in Memories, NEW x, Wanted(m, x)', clean'
      PROVE  Reaches(m, x)' \/ Pending(m, x)'
  <2>1. CASE Wanted(m, x)
    <3>1. Reaches(m, x) \/ Pending(m, x)
      BY <1>2, <2>1 DEF CleanSound
    <3>2. QED BY <1>2, <3>1, ReachesKept
  <2>2. QED BY <1>2, <2>1
<1>3. UnlinkedOnlyByFailureOrRestart'
  BY <1>1 DEF UnlinkedOnlyByFailureOrRestart, Wanted, Pending, Excused
<1>4. CleanSound'
  BY <1>2 DEF CleanSound
<1>5. QED BY <1>3, <1>4

LEMMA SameWanted ==
    ASSUME UNCHANGED memories
    PROVE  \A m \in Memories : \A x : Wanted(m, x)' => Wanted(m, x) \/ Pending(m, x)'
BY DEF Wanted, Live

LEMMA SameRows == UNCHANGED entities => EntitiesGrow(entities, entities')
BY DEF EntitiesGrow

-----------------------------------------------------------------------------
(* The job at work.                                                        *)
LEMMA JobIs ==
    ASSUME EntityTypeOK, NEW j \in Jobs
    PROVE  \/ j[1] = "queue" /\ j[2] \in DOMAIN queue /\ TaskOf(j) = queue[j[2]]
           \/ j[1] = "backfill" /\ 1 \in DOMAIN backfill /\ backfill # <<>> /\ TaskOf(j) = backfill[1]
<1>1. CASE \E i \in Running : j = <<"queue", i>>
  <2>1. PICK i \in Running : j = <<"queue", i>>
    BY <1>1
  <2>2. j[1] = "queue" /\ j[2] = i
    BY <2>1
  <2>3. Running \subseteq DOMAIN queue
    BY DEF EntityTypeOK, Running
  <2>4. QED BY <2>1, <2>2, <2>3 DEF TaskOf
<1>2. CASE \E i \in DOMAIN backfill \cap {1} : j = <<"backfill", i>>
  <2>1. j = <<"backfill", 1>> /\ 1 \in DOMAIN backfill
    BY <1>2
  <2>2. j[1] = "backfill" /\ backfill # <<>>
    BY <2>1
  <2>3. QED BY <2>1, <2>2 DEF TaskOf
<1>3. QED BY <1>1, <1>2 DEF Jobs

LEMMA TaskIs ==
    ASSUME EntityTypeOK, NEW j \in Jobs
    PROVE  /\ TaskOf(j) \in TaskRow
           /\ TasksSound => TaskSound(entities, TaskOf(j))
           /\ \A x \in ToSet(TaskOf(j).todo) : Pending(TaskOf(j).memory, x)
<1>1. CASE j[1] = "queue" /\ j[2] \in DOMAIN queue /\ TaskOf(j) = queue[j[2]]
  <2>1. TaskOf(j) \in TaskRow
    BY <1>1 DEF EntityTypeOK
  <2>2. TasksSound => TaskSound(entities, TaskOf(j))
    BY <1>1 DEF TasksSound, AllSound
  <2>3. \A x \in ToSet(TaskOf(j).todo) : Pending(TaskOf(j).memory, x)
    BY <1>1, OwedIff DEF Pending
  <2>4. QED BY <2>1, <2>2, <2>3
<1>2. CASE j[1] = "backfill" /\ 1 \in DOMAIN backfill /\ TaskOf(j) = backfill[1]
  <2>1. TaskOf(j) \in TaskRow
    BY <1>2 DEF EntityTypeOK
  <2>2. TasksSound => TaskSound(entities, TaskOf(j))
    BY <1>2 DEF TasksSound, AllSound
  <2>3. \A x \in ToSet(TaskOf(j).todo) : Pending(TaskOf(j).memory, x)
    BY <1>2, OwedIff DEF Pending
  <2>4. QED BY <2>1, <2>2, <2>3
<1>3. QED BY <1>1, <1>2, JobIs

(* The tasks but the job's are as sound and owe as much as before.         *)
JobSteps(j, m0, gone) ==
    /\ queue' \in Seq(TaskRow) /\ backfill' \in Seq(TaskRow)
    /\ \A m, x : Pending(m, x) => Pending(m, x)' \/ (m = m0 /\ x \in gone)

LEMMA JobMoves ==
    ASSUME EntityTypeOK, NEW j \in Jobs, NEW task \in TaskRow,
           task.memory = TaskOf(j).memory, Becomes(j, task)
    PROVE  /\ JobSteps(j, task.memory, ToSet(TaskOf(j).todo) \ ToSet(task.todo))
           /\ \A table : AllSound(table, queue) /\ AllSound(table, backfill) /\ TaskSound(table, task)
                 => AllSound(table, queue') /\ AllSound(table, backfill')
<1>1. queue \in Seq(TaskRow) /\ backfill \in Seq(TaskRow)
  BY DEF EntityTypeOK
<1>2. CASE j[1] = "queue" /\ j[2] \in DOMAIN queue /\ TaskOf(j) = queue[j[2]]
  <2>1. queue' = [queue EXCEPT ![j[2]] = task] /\ backfill' = backfill
    BY <1>2 DEF Becomes
  <2>2. /\ queue' \in Seq(TaskRow)
        /\ \A m, x : <<m, x>> \in Owed(queue) =>
             \/ <<m, x>> \in Owed(queue')
             \/ m = task.memory /\ x \in ToSet(queue[j[2]].todo) \ ToSet(task.todo)
        /\ \A table : AllSound(table, queue) /\ TaskSound(table, task) => AllSound(table, queue')
    BY <1>1, <1>2, <2>1, Replaced
  <2>3. \A m, x : Pending(m, x) =>
          Pending(m, x)' \/ (m = task.memory /\ x \in ToSet(TaskOf(j).todo) \ ToSet(task.todo))
    BY <1>2, <2>1, <2>2, Zenon DEF Pending
  <2>4. JobSteps(j, task.memory, ToSet(TaskOf(j).todo) \ ToSet(task.todo))
    BY <1>1, <2>1, <2>2, <2>3 DEF JobSteps
  <2>5. QED BY <2>1, <2>2, <2>4, Zenon
<1>3. CASE j[1] = "backfill" /\ 1 \in DOMAIN backfill /\ TaskOf(j) = backfill[1]
  <2>1. backfill' = [backfill EXCEPT ![1] = task] /\ queue' = queue
    BY <1>3 DEF Becomes
  <2>2. /\ backfill' \in Seq(TaskRow)
        /\ \A m, x : <<m, x>> \in Owed(backfill) =>
             \/ <<m, x>> \in Owed(backfill')
             \/ m = task.memory /\ x \in ToSet(backfill[1].todo) \ ToSet(task.todo)
        /\ \A table : AllSound(table, backfill) /\ TaskSound(table, task) => AllSound(table, backfill')
    BY <1>1, <1>3, <2>1, Replaced
  <2>3. \A m, x : Pending(m, x) =>
          Pending(m, x)' \/ (m = task.memory /\ x \in ToSet(TaskOf(j).todo) \ ToSet(task.todo))
    BY <1>3, <2>1, <2>2, Zenon DEF Pending
  <2>4. JobSteps(j, task.memory, ToSet(TaskOf(j).todo) \ ToSet(task.todo))
    BY <1>1, <2>1, <2>2, <2>3 DEF JobSteps
  <2>5. QED BY <2>1, <2>2, <2>4, Zenon
<1>4. QED BY <1>2, <1>3, JobIs

LEMMA JobEnds ==
    ASSUME EntityTypeOK, NEW j \in Jobs, Ends(j)
    PROVE  /\ JobSteps(j, TaskOf(j).memory, ToSet(TaskOf(j).todo))
           /\ \A table : AllSound(table, queue) /\ AllSound(table, backfill)
                 => AllSound(table, queue') /\ AllSound(table, backfill')
<1>1. queue \in Seq(TaskRow) /\ backfill \in Seq(TaskRow)
  BY DEF EntityTypeOK
<1>2. CASE j[1] = "queue" /\ j[2] \in DOMAIN queue /\ TaskOf(j) = queue[j[2]]
  <2>1. queue' = RemoveAt(queue, j[2]) /\ backfill' = backfill
    BY <1>2 DEF Ends
  <2>2. /\ queue' \in Seq(TaskRow)
        /\ \A k \in DOMAIN queue \ {j[2]} : \E n \in DOMAIN queue' : queue'[n] = queue[k]
        /\ \A n \in DOMAIN queue' : \E k \in DOMAIN queue : queue'[n] = queue[k]
    BY <1>1, <1>2, <2>1, RemoveAtTakesOut
  <2>3. /\ \A m, x : <<m, x>> \in Owed(queue) =>
              <<m, x>> \in Owed(queue') \/ (m = queue[j[2]].memory /\ x \in ToSet(queue[j[2]].todo))
        /\ \A table : AllSound(table, queue) => AllSound(table, queue')
    BY <1>1, <1>2, <2>2, TakenOut
  <2>4. \A m, x : Pending(m, x) =>
          Pending(m, x)' \/ (m = TaskOf(j).memory /\ x \in ToSet(TaskOf(j).todo))
    BY <1>2, <2>1, <2>3, Zenon DEF Pending
  <2>5. JobSteps(j, TaskOf(j).memory, ToSet(TaskOf(j).todo))
    BY <1>1, <2>1, <2>2, <2>4 DEF JobSteps
  <2>6. QED BY <2>1, <2>3, <2>5, Zenon
<1>3. CASE j[1] = "backfill" /\ 1 \in DOMAIN backfill /\ backfill # <<>> /\ TaskOf(j) = backfill[1]
  <2>1. backfill' = Tail(backfill) /\ queue' = queue
    BY <1>3 DEF Ends
  <2>2. /\ backfill' \in Seq(TaskRow)
        /\ \A k \in DOMAIN backfill \ {1} : \E n \in DOMAIN backfill' : backfill'[n] = backfill[k]
        /\ \A n \in DOMAIN backfill' : \E k \in DOMAIN backfill : backfill'[n] = backfill[k]
    BY <1>1, <1>3, <2>1, TailTakesOut
  <2>3. /\ \A m, x : <<m, x>> \in Owed(backfill) =>
              <<m, x>> \in Owed(backfill') \/ (m = backfill[1].memory /\ x \in ToSet(backfill[1].todo))
        /\ \A table : AllSound(table, backfill) => AllSound(table, backfill')
    BY <1>1, <1>3, <2>2, TakenOut
  <2>4. \A m, x : Pending(m, x) =>
          Pending(m, x)' \/ (m = TaskOf(j).memory /\ x \in ToSet(TaskOf(j).todo))
    BY <1>3, <2>1, <2>3, Zenon DEF Pending
  <2>5. JobSteps(j, TaskOf(j).memory, ToSet(TaskOf(j).todo))
    BY <1>1, <2>1, <2>2, <2>4 DEF JobSteps
  <2>6. QED BY <2>1, <2>3, <2>5, Zenon
<1>4. QED BY <1>2, <1>3, JobIs

LEMMA NextMentionIs ==
    ASSUME NEW task \in TaskRow, task.todo # <<>>
    PROVE  /\ NextMention(task) \in TaskRow
           /\ NextMention(task).memory = task.memory
           /\ \A table : TaskSound(table, NextMention(task))
           /\ Head(task.todo) \in Mentions /\ Head(task.todo) \in ToSet(task.todo)
           /\ ToSet(task.todo) \ ToSet(NextMention(task).todo) \subseteq {Head(task.todo)}
<1>1. task.todo \in Seq(Mentions)
  BY DEF TaskRow
<1>2. PICK rest : rest = Tail(task.todo)
  OBVIOUS
<1>3. /\ rest \in Seq(Mentions) /\ DOMAIN rest = 1..(Len(task.todo) - 1)
      /\ \A k \in 1..(Len(task.todo) - 1) : rest[k] = task.todo[k + 1]
      /\ Len(task.todo) \in Nat \ {0}
  BY <1>1, <1>2
<1>4. PICK next : next = NextMention(task)
  OBVIOUS
<1>5. /\ next \in TaskRow /\ next.memory = task.memory /\ next.pc = "next" /\ next.todo = rest
  BY <1>2, <1>3, <1>4 DEF NextMention, TaskRow
<1>6. \A table : TaskSound(table, next)
  BY <1>5 DEF TaskSound
<1>7. Head(task.todo) = task.todo[1] /\ 1 \in DOMAIN task.todo
  BY <1>1, <1>3
<1>8. Head(task.todo) \in Mentions /\ Head(task.todo) \in ToSet(task.todo)
  BY <1>1, <1>7 DEF ToSet
<1>9. ASSUME NEW x \in ToSet(task.todo), x # Head(task.todo)
      PROVE  x \in ToSet(rest)
  <2>1. PICK k \in DOMAIN task.todo : x = task.todo[k]
    BY <1>9 DEF ToSet
  <2>2. k \in 1..Len(task.todo) /\ k # 1
    BY <1>1, <1>7, <1>9, <2>1
  <2>3. k - 1 \in DOMAIN rest /\ rest[k - 1] = x
    BY <1>3, <2>1, <2>2
  <2>4. QED BY <2>3, Zenon DEF ToSet
<1>10. QED BY <1>4, <1>5, <1>6, <1>8, <1>9

LEMMA OwedTyped ==
    ASSUME NEW tasks \in Seq(TaskRow)
    PROVE  Owed(tasks) \subseteq Memories \X Mentions
<1>1. ASSUME NEW i \in DOMAIN tasks, NEW x \in ToSet(tasks[i].todo)
      PROVE  <<tasks[i].memory, x>> \in Memories \X Mentions
  <2>1. tasks[i] \in TaskRow
    OBVIOUS
  <2>2. tasks[i].memory \in Memories /\ tasks[i].todo \in Seq(Mentions)
    BY <2>1 DEF TaskRow
  <2>3. x \in Mentions
    BY <1>1, <2>2 DEF ToSet
  <2>4. QED BY <2>2, <2>3
<1>2. ASSUME NEW pair \in Owed(tasks) PROVE pair \in Memories \X Mentions
  <2>1. PICK i \in DOMAIN tasks : pair \in {<<tasks[i].memory, x>> : x \in ToSet(tasks[i].todo)}
    BY Zenon DEF Owed
  <2>2. PICK x \in ToSet(tasks[i].todo) : pair = <<tasks[i].memory, x>>
    BY <2>1
  <2>3. QED BY <1>1, <2>2
<1>3. QED BY <1>2

LEMMA Counts ==
    ASSUME NEW c \in Counters
    PROVE  /\ [c EXCEPT !.writes = @ + 1] \in Counters
           /\ [c EXCEPT !.failures = @ + 1] \in Counters
           /\ [c EXCEPT !.backfills = @ + 1] \in Counters
BY DEF Counters

-----------------------------------------------------------------------------
(* One lemma per step of normalize_entities.                               *)
LEMMA FinishKeeps ==
    ASSUME EInv, NEW j \in Jobs, Finish(j)
    PROVE  EInv'
<1> USE DEF EInv
<1>1. /\ Ends(j) /\ TaskOf(j).todo = <<>>
      /\ UNCHANGED <<memories, update, entities, links, lost, killed, clean, count>>
  BY DEF Finish
<1>2. /\ JobSteps(j, TaskOf(j).memory, {})
      /\ AllSound(entities, queue') /\ AllSound(entities, backfill')
  <2>1. ToSet(TaskOf(j).todo) = {}
    BY <1>1 DEF ToSet
  <2>2. QED BY <1>1, <2>1, JobEnds DEF TasksSound
<1>3. EntityTypeOK'
  BY <1>1, <1>2 DEF EntityTypeOK, JobSteps
<1>4. TasksSound'
  BY <1>1, <1>2 DEF TasksSound
<1>5. \A m \in Memories : \A x : Pending(m, x) => Pending(m, x)'
  BY <1>2 DEF JobSteps
<1>6. UnlinkedOnlyByFailureOrRestart' /\ CleanSound'
  BY <1>1, <1>5, SameWanted, SameRows, StillAccounted DEF Excused
<1>7. QED BY <1>3, <1>4, <1>6

(* A task that goes on with the mention in hand owes what it owed.         *)
LEMMA SameTodo ==
    ASSUME EntityTypeOK, TasksSound, NEW j \in Jobs, NEW task \in TaskRow,
           task.memory = TaskOf(j).memory, task.todo = TaskOf(j).todo, Becomes(j, task)
    PROVE  /\ queue' \in Seq(TaskRow) /\ backfill' \in Seq(TaskRow)
           /\ \A m \in Memories : \A x : Pending(m, x) => Pending(m, x)'
           /\ \A table : EntitiesGrow(entities, table) /\ TaskSound(table, task)
                 => AllSound(table, queue') /\ AllSound(table, backfill')
<1>1. JobSteps(j, task.memory, {})
  BY JobMoves
<1>2. ASSUME NEW table, EntitiesGrow(entities, table), TaskSound(table, task)
      PROVE  AllSound(table, queue') /\ AllSound(table, backfill')
  <2>1. AllSound(table, queue) /\ AllSound(table, backfill)
    BY <1>2, SoundInMore DEF TasksSound
  <2>2. QED BY <1>2, <2>1, JobMoves
<1>3. QED BY <1>1, <1>2 DEF JobSteps

LEMMA LookKeeps ==
    ASSUME EInv, NEW j \in Jobs, Look(j)
    PROVE  EInv'
<1> USE DEF EInv
<1>1. UNCHANGED <<memories, update, entities, links, lost, killed, clean, count>>
  BY DEF Look
<1>2. TaskOf(j) \in TaskRow /\ TaskOf(j).todo # <<>>
  BY TaskIs DEF Look
<1>3. PICK task \in TaskRow :
        /\ Becomes(j, task) /\ TaskSound(entities, task)
        /\ task.memory = TaskOf(j).memory /\ task.todo = TaskOf(j).todo
  <2>1. CASE \E id \in Search(Mention(j).name) :
               Becomes(j, [TaskOf(j) EXCEPT !.pc = "link", !.entity = id])
    <3>1. PICK id \in Search(Mention(j).name) :
            Becomes(j, [TaskOf(j) EXCEPT !.pc = "link", !.entity = id])
      BY <2>1
    <3>2. id \in DOMAIN entities /\ Similar(Head(TaskOf(j).todo).name, entities[id].canonical)
      BY <3>1 DEF Search, Mention
    <3>3. id \in Nat
      BY <3>2 DEF EntityTypeOK
    <3>4. PICK task : task = [TaskOf(j) EXCEPT !.pc = "link", !.entity = id]
      OBVIOUS
    <3>5. /\ task \in TaskRow /\ task.memory = TaskOf(j).memory /\ task.todo = TaskOf(j).todo
          /\ task.entity = id
      BY <1>2, <3>3, <3>4 DEF TaskRow
    <3>6. TaskSound(entities, task)
      BY <1>2, <3>2, <3>5 DEF TaskSound
    <3>7. QED BY <3>1, <3>4, <3>5, <3>6
  <2>2. CASE Becomes(j, [TaskOf(j) EXCEPT !.pc = "insert"])
    <3>1. PICK task : task = [TaskOf(j) EXCEPT !.pc = "insert"]
      OBVIOUS
    <3>2. /\ task \in TaskRow /\ task.memory = TaskOf(j).memory /\ task.todo = TaskOf(j).todo
          /\ task.pc = "insert"
      BY <1>2, <3>1 DEF TaskRow
    <3>3. TaskSound(entities, task)
      BY <1>2, <3>2 DEF TaskSound
    <3>4. QED BY <2>2, <3>1, <3>2, <3>3
  <2>3. QED BY <2>1, <2>2 DEF Look
<1>4. /\ queue' \in Seq(TaskRow) /\ backfill' \in Seq(TaskRow)
      /\ \A m \in Memories : \A x : Pending(m, x) => Pending(m, x)'
      /\ AllSound(entities, queue') /\ AllSound(entities, backfill')
  <2>1. EntitiesGrow(entities, entities)
    BY DEF EntitiesGrow
  <2>2. QED BY <1>3, <2>1, SameTodo
<1>5. EntityTypeOK'
  BY <1>1, <1>4 DEF EntityTypeOK
<1>6. TasksSound'
  BY <1>1, <1>4 DEF TasksSound
<1>7. UnlinkedOnlyByFailureOrRestart' /\ CleanSound'
  BY <1>1, <1>4, SameWanted, SameRows, StillAccounted DEF Excused
<1>8. QED BY <1>5, <1>6, <1>7

(* The row of a mention, new or of its key, has its name.                  *)
LEMMA RowsOf ==
    ASSUME entities \in Seq(EntityRow), NEW x \in Mentions
    PROVE  LET id == IF SameKey(x) = {} THEN Len(entities) + 1 ELSE CHOOSE i \in SameKey(x) : TRUE IN
           /\ Rows(x) \in Seq(EntityRow) /\ EntitiesGrow(entities, Rows(x))
           /\ id \in DOMAIN Rows(x) /\ id \in Nat
           /\ Rows(x)[id].canonical = x.name
<1>1. x.name \in MentionNames /\ x.type \in MentionTypes
  BY DEF MentionNames, MentionTypes
<1>2. PICK len \in Nat : len = Len(entities) /\ DOMAIN entities = 1..len
  OBVIOUS
<1>3. \A i \in DOMAIN entities : entities[i] \in EntityRow
  OBVIOUS
<1>4. CASE SameKey(x) = {}
  <2>1. PICK row : row = [canonical |-> x.name, name |-> x.name, type |-> x.type]
    OBVIOUS
  <2>2. row \in EntityRow /\ row.canonical = x.name
    BY <1>1, <2>1 DEF EntityRow
  <2>3. PICK table : table = Append(entities, row)
    OBVIOUS
  <2>4. /\ table \in Seq(EntityRow) /\ DOMAIN table = 1..(len + 1) /\ table[len + 1] = row
        /\ \A i \in 1..len : table[i] = entities[i]
    BY <1>2, <2>2, <2>3
  <2>5. EntitiesGrow(entities, table)
    BY <1>2, <2>4 DEF EntitiesGrow
  <2>6. Rows(x) = table
    BY <1>4, <2>1, <2>3 DEF Rows
  <2>7. QED BY <1>2, <1>4, <2>2, <2>4, <2>5, <2>6
<1>5. CASE SameKey(x) # {}
  <2>1. PICK id : id = CHOOSE i \in SameKey(x) : TRUE
    OBVIOUS
  <2>2. id \in SameKey(x)
    BY <1>5, <2>1, Zenon
  <2>3. id \in DOMAIN entities /\ entities[id].canonical = x.name
    BY <2>2 DEF SameKey
  <2>4. PICK table : table = [i \in DOMAIN entities |->
                 IF i \in SameKey(x) THEN [entities[i] EXCEPT !.name = x.name] ELSE entities[i]]
    OBVIOUS
  <2>5. ASSUME NEW i \in DOMAIN entities
        PROVE  table[i] \in EntityRow /\ table[i].canonical = entities[i].canonical
    BY <1>1, <1>3, <2>4 DEF EntityRow
  <2>6. DOMAIN table = 1..len /\ table \in [1..len -> EntityRow]
    BY <1>2, <2>4, <2>5
  <2>7. table \in Seq(EntityRow)
    BY <2>6
  <2>8. EntitiesGrow(entities, table)
    BY <1>2, <2>5, <2>6 DEF EntitiesGrow
  <2>9. Rows(x) = table
    BY <1>5, <2>4 DEF Rows
  <2>10. QED BY <1>2, <1>5, <2>1, <2>3, <2>5, <2>6, <2>7, <2>8, <2>9
<1>6. QED BY <1>4, <1>5

LEMMA InsertEntityKeeps ==
    ASSUME EInv, NEW j \in Jobs, InsertEntity(j)
    PROVE  EInv'
<1> USE DEF EInv
<1>1. UNCHANGED <<memories, update, links, lost, killed, clean, count>>
  BY DEF InsertEntity
<1>2. TaskOf(j) \in TaskRow /\ TaskOf(j).todo # <<>>
  BY TaskIs DEF InsertEntity, TaskSound
<1>3. PICK x \in Mentions : x = Mention(j) /\ x = Head(TaskOf(j).todo)
  BY <1>2, NextMentionIs DEF Mention
<1>4. PICK id \in Nat :
        /\ id = IF SameKey(x) = {} THEN Len(entities) + 1 ELSE CHOOSE i \in SameKey(x) : TRUE
        /\ entities' \in Seq(EntityRow) /\ EntitiesGrow(entities, entities')
        /\ id \in DOMAIN entities' /\ entities'[id].canonical = x.name
  BY <1>3, RowsOf DEF InsertEntity, EntityTypeOK
<1>5. PICK task : task = [TaskOf(j) EXCEPT !.pc = "link", !.entity = id]
  OBVIOUS
<1>6. Becomes(j, task)
  BY <1>3, <1>4, <1>5 DEF InsertEntity
<1>7. /\ task \in TaskRow /\ task.memory = TaskOf(j).memory /\ task.todo = TaskOf(j).todo
      /\ task.entity = id
  BY <1>2, <1>5 DEF TaskRow
<1>8. TaskSound(entities', task)
  <2>1. Similar(x.name, x.name)
    BY EntitiesAssumption
  <2>2. QED BY <1>2, <1>3, <1>4, <1>7, <2>1 DEF TaskSound
<1>9. /\ queue' \in Seq(TaskRow) /\ backfill' \in Seq(TaskRow)
      /\ \A m \in Memories : \A y : Pending(m, y) => Pending(m, y)'
      /\ AllSound(entities', queue') /\ AllSound(entities', backfill')
  BY <1>4, <1>6, <1>7, <1>8, SameTodo
<1>10. EntityTypeOK'
  <2>1. links' \subseteq Memories \X DOMAIN entities'
    BY <1>1, <1>4 DEF EntityTypeOK, EntitiesGrow
  <2>2. QED BY <1>1, <1>4, <1>9, <2>1 DEF EntityTypeOK
<1>11. TasksSound'
  BY <1>9 DEF TasksSound
<1>12. UnlinkedOnlyByFailureOrRestart' /\ CleanSound'
  BY <1>1, <1>4, <1>9, SameWanted, StillAccounted DEF Excused
<1>13. QED BY <1>10, <1>11, <1>12

LEMMA LinkKeeps ==
    ASSUME EInv, NEW j \in Jobs, Link(j)
    PROVE  EInv'
<1> USE DEF EInv
<1>1. PICK task \in TaskRow : task = TaskOf(j) /\ task.pc = "link" /\ TaskSound(entities, task)
  BY TaskIs DEF Link
<1>2. PICK x \in Mentions : x = Head(task.todo) /\ task.todo # <<>>
  BY <1>1, NextMentionIs DEF TaskSound
<1>3. /\ links' = links \cup {<<task.memory, task.entity>>}
      /\ lost' = lost \ {<<task.memory, x>>} /\ killed' = killed \ {<<task.memory, x>>}
      /\ Becomes(j, NextMention(task))
      /\ UNCHANGED <<memories, update, entities, clean, count>>
  BY <1>1, <1>2 DEF Link, Mention
<1>4. /\ JobSteps(j, task.memory, ToSet(task.todo) \ ToSet(NextMention(task).todo))
      /\ AllSound(entities, queue') /\ AllSound(entities, backfill')
  <2>1. /\ NextMention(task) \in TaskRow /\ NextMention(task).memory = task.memory
        /\ TaskSound(entities, NextMention(task))
    BY <1>2, NextMentionIs
  <2>2. QED BY <1>1, <1>3, <2>1, JobMoves DEF TasksSound
<1>5. \A m \in Memories : \A y : Pending(m, y) => Pending(m, y)' \/ (m = task.memory /\ y = x)
  BY <1>2, <1>4, NextMentionIs DEF JobSteps
<1>6. Reaches(task.memory, x)'
  <2>1. task.entity \in DOMAIN entities /\ Similar(x.name, entities[task.entity].canonical)
    BY <1>1, <1>2 DEF TaskSound
  <2>2. QED BY <1>3, <2>1 DEF Reaches
<1>7. EntityTypeOK'
  <2>1. <<task.memory, task.entity>> \in Memories \X DOMAIN entities
    BY <1>1 DEF TaskSound, TaskRow
  <2>2. QED BY <1>3, <1>4, <2>1 DEF EntityTypeOK, JobSteps
<1>8. TasksSound'
  BY <1>3, <1>4 DEF TasksSound
<1>9. UnlinkedOnlyByFailureOrRestart' /\ CleanSound'
  <2>1. \A m \in Memories : \A y : Pending(m, y) => Pending(m, y)' \/ Reaches(m, y)'
    BY <1>5, <1>6
  <2>2. \A m \in Memories : \A y : Excused(m, y) => Excused(m, y)' \/ Reaches(m, y)'
    BY <1>3, <1>6 DEF Excused
  <2>3. EntitiesGrow(entities, entities') /\ links \subseteq links' /\ (clean' => clean)
    BY <1>3, SameRows
  <2>4. \A m \in Memories : \A y : Wanted(m, y)' => Wanted(m, y) \/ Pending(m, y)'
    BY <1>3, SameWanted
  <2>5. QED BY <2>1, <2>2, <2>3, <2>4, StillAccounted
<1>10. QED BY <1>7, <1>8, <1>9

LEMMA FailKeeps ==
    ASSUME EInv, NEW j \in Jobs, Fail(j)
    PROVE  EInv'
<1> USE DEF EInv
<1>1. PICK task \in TaskRow : task = TaskOf(j) /\ task.todo # <<>>
  BY TaskIs DEF Fail
<1>2. PICK x \in Mentions : x = Head(task.todo)
  BY <1>1, NextMentionIs
<1>3. /\ count' = [count EXCEPT !.failures = @ + 1]
      /\ lost' = lost \cup {<<task.memory, x>>}
      /\ ~clean' /\ clean' \in BOOLEAN
      /\ Becomes(j, NextMention(task))
      /\ UNCHANGED <<memories, update, entities, links, killed>>
  BY <1>1, <1>2 DEF Fail, FailMention, Mention
<1>4. /\ JobSteps(j, task.memory, ToSet(task.todo) \ ToSet(NextMention(task).todo))
      /\ AllSound(entities, queue') /\ AllSound(entities, backfill')
  <2>1. /\ NextMention(task) \in TaskRow /\ NextMention(task).memory = task.memory
        /\ TaskSound(entities, NextMention(task))
    BY <1>1, NextMentionIs
  <2>2. QED BY <1>1, <1>3, <2>1, JobMoves DEF TasksSound
<1>5. \A m \in Memories : \A y : Pending(m, y) => Pending(m, y)' \/ (m = task.memory /\ y = x)
  BY <1>1, <1>2, <1>4, NextMentionIs DEF JobSteps
<1>6. EntityTypeOK'
  <2>1. <<task.memory, x>> \in Memories \X Mentions
    BY <1>1, <1>2 DEF TaskRow
  <2>2. count' \in Counters
    BY <1>3, Counts DEF EntityTypeOK
  <2>3. QED BY <1>3, <1>4, <2>1, <2>2 DEF EntityTypeOK, JobSteps
<1>7. TasksSound'
  BY <1>3, <1>4 DEF TasksSound
<1>8. UnlinkedOnlyByFailureOrRestart' /\ CleanSound'
  <2>1. \A m \in Memories : \A y : Pending(m, y) =>
           Pending(m, y)' \/ (Excused(m, y)' /\ ~clean')
    BY <1>3, <1>5 DEF Excused
  <2>2. \A m \in Memories : \A y : Excused(m, y) => Excused(m, y)'
    BY <1>3 DEF Excused
  <2>3. EntitiesGrow(entities, entities') /\ links \subseteq links' /\ (clean' => clean)
    BY <1>3, SameRows
  <2>4. \A m \in Memories : \A y : Wanted(m, y)' => Wanted(m, y) \/ Pending(m, y)'
    BY <1>3, SameWanted
  <2>5. QED BY <2>1, <2>2, <2>3, <2>4, StillAccounted
<1>9. QED BY <1>6, <1>7, <1>8

LEMMA RaiseKeeps ==
    ASSUME EInv, NEW j \in Jobs, Raise(j)
    PROVE  EInv'
<1> USE DEF EInv
<1>1. ~clean' /\ clean' \in BOOLEAN /\ UNCHANGED <<memories, update, entities, links, killed, count>>
  BY DEF Raise
<1>2. /\ queue' \in Seq(TaskRow) /\ backfill' \in Seq(TaskRow)
      /\ lost \subseteq lost' /\ lost' \subseteq Memories \X Mentions
      /\ \A m \in Memories : \A x : Pending(m, x) => Pending(m, x)' \/ <<m, x>> \in lost'
      /\ AllSound(entities, queue') /\ AllSound(entities, backfill')
  <2>1. CASE j[1] = "queue"
    <3>1. Ends(j) /\ lost' = lost \cup Owed(<<TaskOf(j)>>)
      BY <2>1 DEF Raise
    <3>2. /\ JobSteps(j, TaskOf(j).memory, ToSet(TaskOf(j).todo))
          /\ AllSound(entities, queue') /\ AllSound(entities, backfill')
      BY <3>1, JobEnds DEF TasksSound
    <3>3. PICK alone \in Seq(TaskRow) :
            alone = <<TaskOf(j)>> /\ 1 \in DOMAIN alone /\ alone[1] = TaskOf(j)
      <4>1. PICK task \in TaskRow : task = TaskOf(j)
        BY TaskIs
      <4>2. <<task>> \in Seq(TaskRow) /\ 1 \in DOMAIN <<task>> /\ <<task>>[1] = task
        BY ONLY <4>1
      <4>3. QED BY <4>1, <4>2
    <3>4. \A x \in ToSet(TaskOf(j).todo) : <<TaskOf(j).memory, x>> \in Owed(alone)
      BY <3>3, OwedIff
    <3>5. Owed(alone) \subseteq Memories \X Mentions
      BY OwedTyped
    <3>6. \A m \in Memories : \A x : Pending(m, x) => Pending(m, x)' \/ <<m, x>> \in lost'
      <4>1. \A x \in ToSet(TaskOf(j).todo) : <<TaskOf(j).memory, x>> \in lost'
        BY <3>1, <3>3, <3>4
      <4>2. \A m, x : Pending(m, x) =>
              Pending(m, x)' \/ (m = TaskOf(j).memory /\ x \in ToSet(TaskOf(j).todo))
        BY <3>2 DEF JobSteps
      <4>3. QED BY ONLY <4>1, <4>2
    <3>7. QED BY <3>1, <3>2, <3>3, <3>5, <3>6 DEF JobSteps, EntityTypeOK
  <2>2. CASE j[1] # "queue"
    <3>1. backfill' = <<>> /\ lost' = lost \cup Owed(backfill) /\ queue' = queue
      BY <2>2 DEF Raise
    <3>2. Owed(backfill) \subseteq Memories \X Mentions
      BY OwedTyped DEF EntityTypeOK
    <3>3. \A m \in Memories : \A x : Pending(m, x) => Pending(m, x)' \/ <<m, x>> \in lost'
      BY <3>1 DEF Pending
    <3>4. AllSound(entities, backfill')
      BY <3>1 DEF AllSound
    <3>5. QED BY <3>1, <3>2, <3>3, <3>4 DEF TasksSound, EntityTypeOK
  <2>3. QED BY <2>1, <2>2
<1>3. EntityTypeOK'
  BY <1>1, <1>2 DEF EntityTypeOK
<1>4. TasksSound'
  BY <1>1, <1>2 DEF TasksSound
<1>5. UnlinkedOnlyByFailureOrRestart' /\ CleanSound'
  <2>1. EntitiesGrow(entities, entities') /\ links \subseteq links' /\ (clean' => clean)
    BY <1>1, SameRows
  <2>2. \A m \in Memories : \A x : Wanted(m, x)' => Wanted(m, x) \/ Pending(m, x)'
    BY <1>1, SameWanted
  <2>3. \A m \in Memories : \A x : Pending(m, x) => Pending(m, x)' \/ (Excused(m, x)' /\ ~clean')
    BY <1>1, <1>2 DEF Excused
  <2>4. \A m \in Memories : \A x : Excused(m, x) => Excused(m, x)'
    BY <1>1, <1>2 DEF Excused
  <2>5. QED BY <1>1, <2>1, <2>2, <2>3, <2>4, StillAccounted
<1>6. QED BY <1>3, <1>4, <1>5

-----------------------------------------------------------------------------
(* The writes, deletions and links.                                        *)
LEMMA WrittenKeeps ==
    ASSUME EInv, NEW m \in Memories, NEW ents \in Seq(Mentions),
           NEW rels, rels \subseteq Relations, Written(m, ents, rels),
           update' \in Update, update' # NoUpdate => update'.memory \in Memories,
           count' \in Counters
    PROVE  EInv'
<1> USE DEF EInv
<1>1. PICK task : task = Task(m, ents)
  OBVIOUS
<1>2. /\ task \in TaskRow /\ task.memory = m /\ task.todo = ents
      /\ TaskSound(entities, task)
  BY <1>1 DEF Task, TaskRow, TaskSound
<1>3. queue' = Append(queue, task) /\ UNCHANGED <<entities, links, backfill, lost, killed, clean>>
  BY <1>1 DEF Written, ScheduleNormalization
<1>4. /\ queue' \in Seq(TaskRow)
      /\ \A i, x : <<i, x>> \in Owed(queue) => <<i, x>> \in Owed(queue')
      /\ \A x \in ToSet(ents) : <<m, x>> \in Owed(queue')
      /\ AllSound(entities, queue')
  BY <1>2, <1>3, Appended DEF EntityTypeOK, TasksSound
<1>5. PICK row : row = [status |-> IF Stored(m) THEN memories[m].status ELSE "live",
                        entities |-> ents, relations |-> rels]
  OBVIOUS
<1>6. memories' = [memories EXCEPT ![m] = row]
  BY <1>5 DEF Written
<1>7. row \in MemoryRow /\ row.entities = ents
  BY <1>5 DEF EntityTypeOK, MemoryRow
<1>8. /\ memories' \in [Memories -> MemoryRow]
      /\ memories'[m] = row /\ \A i \in Memories \ {m} : memories'[i] = memories[i]
  BY <1>6, <1>7 DEF EntityTypeOK
<1>9. EntityTypeOK'
  BY <1>3, <1>4, <1>8 DEF EntityTypeOK
<1>10. TasksSound'
  BY <1>3, <1>4 DEF TasksSound
<1>11. \A i \in Memories : \A x : Pending(i, x) => Pending(i, x)'
  BY <1>3, <1>4, Zenon DEF Pending
<1>12. ASSUME NEW i \in Memories, NEW x, Wanted(i, x)'
       PROVE  Wanted(i, x) \/ Pending(i, x)'
  <2>1. CASE i = m
    <3>1. x \in ToSet(ents)
      BY <1>7, <1>8, <1>12, <2>1 DEF Wanted
    <3>2. QED BY <1>4, <2>1, <3>1 DEF Pending
  <2>2. CASE i # m
    BY <1>8, <1>12, <2>2 DEF Wanted, Live
  <2>3. QED BY <2>1, <2>2
<1>13. UnlinkedOnlyByFailureOrRestart' /\ CleanSound'
  <2>1. EntitiesGrow(entities, entities') /\ links \subseteq links' /\ (clean' => clean)
    BY <1>3, SameRows
  <2>2. \A i \in Memories : \A x : Excused(i, x) => Excused(i, x)'
    BY <1>3 DEF Excused
  <2>3. QED BY <1>11, <1>12, <2>1, <2>2, StillAccounted
<1>14. QED BY <1>9, <1>10, <1>13

LEMMA InsertKeeps ==
    ASSUME EInv, NEW m \in Memories, NEW found \in Findings, NEW claims \in Claims,
           NEW channel \in Channels, NEW relChannel \in Channels,
           \/ Insert(m, found, claims, channel, relChannel)
           \/ Overwrite(m, found, claims, channel, relChannel)
    PROVE  EInv'
<1>1. PICK ents \in Seq(Mentions) : ents = ExtractEntities(found, channel)
  BY ExtractedIsSeq
<1>2. ExtractRelations(claims, ents, relChannel) \subseteq Relations
  BY ExtractedAreRelations
<1>3. Written(m, ents, ExtractRelations(claims, ents, relChannel)) /\ UNCHANGED update
  BY <1>1 DEF Insert, Overwrite
<1>4. count' \in Counters
  BY Counts DEF Insert, Overwrite, CountWrite, EInv, EntityTypeOK
<1>5. update' \in Update /\ (update' # NoUpdate => update'.memory \in Memories)
  BY <1>3 DEF EInv, EntityTypeOK
<1>6. QED BY <1>2, <1>3, <1>4, <1>5, WrittenKeeps

(* Steps that leave what is owed, and the table it is linked to, alone.     *)
LEMMA QuietKeeps ==
    ASSUME EInv, EntityTypeOK', UNCHANGED <<entities, queue, backfill, lost, killed, clean>>,
           links \subseteq links',
           \A m \in Memories : \A x : Wanted(m, x)' => Wanted(m, x)
    PROVE  EInv'
<1> USE DEF EInv
<1>1. TasksSound'
  BY DEF TasksSound
<1>2. \A m \in Memories : \A x : Pending(m, x) => Pending(m, x)'
  BY DEF Pending
<1>3. EntitiesGrow(entities, entities') /\ (clean' => clean)
  BY SameRows
<1>4. UnlinkedOnlyByFailureOrRestart' /\ CleanSound'
  BY <1>2, <1>3, StillAccounted DEF Excused
<1>5. QED BY <1>1, <1>4

LEMMA ReadForMergeKeeps ==
    ASSUME EInv, NEW m \in Memories, NEW found \in Findings, NEW claims \in Claims,
           NEW channel \in Channels, NEW relChannel \in Channels,
           ReadForMerge(m, found, claims, channel, relChannel)
    PROVE  EInv'
<1>1. PICK ents \in Seq(Mentions) : ents = ExtractEntities(found, channel)
  BY ExtractedIsSeq
<1>2. PICK rels : rels = ExtractRelations(claims, ents, relChannel) /\ rels \subseteq Relations
  BY ExtractedAreRelations
<1>3. /\ update' = [memory |-> m, found |-> ents, claims |-> rels,
                    old |-> memories[m].entities, oldClaims |-> memories[m].relations]
      /\ UNCHANGED <<memories, entities, links, queue, backfill, lost, killed, clean>>
  BY <1>1, <1>2 DEF ReadForMerge
<1>4. count' \in Counters
  BY Counts DEF ReadForMerge, CountWrite, EInv, EntityTypeOK
<1>5. memories[m].entities \in Seq(Mentions) /\ memories[m].relations \subseteq Relations
  BY DEF EInv, EntityTypeOK, MemoryRow
<1>6. update' \in Update /\ update'.memory \in Memories
  BY <1>2, <1>3, <1>5 DEF Update
<1>7. EntityTypeOK'
  BY <1>3, <1>4, <1>6 DEF EInv, EntityTypeOK
<1>8. \A i \in Memories : \A x : Wanted(i, x)' => Wanted(i, x)
  BY <1>3 DEF Wanted, Live
<1>9. QED BY <1>3, <1>7, <1>8, QuietKeeps

LEMMA MergeMemoryKeeps ==
    ASSUME EInv, MergeMemory
    PROVE  EInv'
<1>1. /\ update \in Update /\ update.memory \in Memories
      /\ update.old \in Seq(Mentions) /\ update.found \in Seq(Mentions)
      /\ update.oldClaims \cup update.claims \subseteq Relations
  BY DEF MergeMemory, EInv, EntityTypeOK, Update
<1>2. MergeEntities(update.old, update.found) \in Seq(Mentions)
  BY <1>1, MergedIs
<1>3. update' \in Update /\ update' = NoUpdate
  BY DEF MergeMemory, NoUpdate, Update
<1>4. count' \in Counters
  BY DEF MergeMemory, EInv, EntityTypeOK
<1>5. Written(update.memory, MergeEntities(update.old, update.found), update.oldClaims \cup update.claims)
  BY DEF MergeMemory
<1>6. QED BY <1>1, <1>2, <1>3, <1>4, <1>5, WrittenKeeps

LEMMA DeleteKeeps ==
    ASSUME EInv, NEW m \in Memories, Delete(m)
    PROVE  EInv'
<1>1. PICK row : row = [memories[m] EXCEPT !.status = "deleted"]
  OBVIOUS
<1>2. /\ memories' = [memories EXCEPT ![m] = row]
      /\ UNCHANGED <<update, entities, links, queue, backfill, lost, killed, clean, count>>
  BY <1>1 DEF Delete, EInv, EntityTypeOK
<1>3. row \in MemoryRow /\ row.status = "deleted"
  BY <1>1 DEF EInv, EntityTypeOK, MemoryRow
<1>4. EntityTypeOK'
  BY <1>2, <1>3 DEF EInv, EntityTypeOK
<1>5. ASSUME NEW i \in Memories, NEW x, Wanted(i, x)' PROVE Wanted(i, x)
  BY <1>2, <1>3, <1>5 DEF Wanted, Live, EInv, EntityTypeOK
<1>6. QED BY <1>2, <1>4, <1>5, QuietKeeps

LEMMA LinkByNameKeeps ==
    ASSUME EInv, NEW m \in Memories, NEW name, NEW id \in DOMAIN entities, LinkByName(m, name, id)
    PROVE  EInv'
<1>1. /\ links' = links \cup {<<m, id>>}
      /\ UNCHANGED <<memories, update, entities, queue, backfill, lost, killed, clean>>
  BY DEF LinkByName
<1>2. count' \in Counters
  BY Counts DEF LinkByName, CountWrite, EInv, EntityTypeOK
<1>3. EntityTypeOK'
  BY <1>1, <1>2 DEF EInv, EntityTypeOK
<1>4. \A i \in Memories : \A x : Wanted(i, x)' => Wanted(i, x)
  BY <1>1 DEF Wanted, Live
<1>5. QED BY <1>1, <1>3, <1>4, QuietKeeps

-----------------------------------------------------------------------------
(* A backfill has a task for each memory with entities, in some order.     *)
LEMMA BackfillCovers ==
    ASSUME EntityTypeOK, NEW tasks,
           tasks \in SetToSeqs({Task(m, memories[m].entities) : m \in ToBackfill})
    PROVE  /\ tasks \in Seq(TaskRow)
           /\ \A table : AllSound(table, tasks)
           /\ \A m \in Memories : \A x : Wanted(m, x) => <<m, x>> \in Owed(tasks)
<1> DEFINE T(m) == Task(m, memories[m].entities)
<1>1. PICK S : S = {T(m) : m \in ToBackfill}
  OBVIOUS
<1>2. IsFiniteSet(ToBackfill) /\ ToBackfill \subseteq Memories
  <2>1. ToBackfill \in SUBSET Memories
    BY DEF ToBackfill
  <2>2. QED BY <2>1, EntitiesAssumption, FS_Subset
<1>3. \A m \in Memories : T(m) \in TaskRow /\ T(m).memory = m /\ T(m).pc = "next"
                          /\ T(m).todo = memories[m].entities
  BY DEF EntityTypeOK, MemoryRow, Task, TaskRow
<1>4. S \subseteq TaskRow
  <2> HIDE DEF T
  <2>1. QED BY <1>1, <1>2, <1>3
<1>5. IsFiniteSet(S)
  <2>1. PICK f : f = [m \in ToBackfill |-> T(m)]
    OBVIOUS
  <2> HIDE DEF T
  <2>2. f \in [ToBackfill -> S] /\ \A t \in S : \E m \in ToBackfill : f[m] = t
    BY <1>1, <2>1
  <2>3. f \in Surjection(ToBackfill, S)
    BY <2>2, Zenon DEF Surjection
  <2>4. QED BY <1>2, <2>3, FS_Surjection
<1>6. PICK n \in Nat : n = Cardinality(S)
  BY <1>5, FS_CardinalityType
<1>7. tasks \in [1..n -> S] /\ \A a, b \in 1..n : a # b => tasks[a] # tasks[b]
  BY <1>1, <1>6 DEF SetToSeqs
<1>8. \A t \in S : \E i \in 1..n : tasks[i] = t
  <2>1. tasks \in Injection(1..n, S)
    BY <1>7 DEF Injection, IsInjective
  <2>2. Cardinality(1..n) = n
    BY <1>6, FS_Interval
  <2>3. tasks \in Surjection(1..n, S)
    BY <1>5, <1>6, <2>1, <2>2, FS_Injection
  <2>4. QED BY <2>3, Zenon DEF Surjection
<1>9. tasks \in Seq(TaskRow) /\ DOMAIN tasks = 1..n
  <2>1. tasks \in [1..n -> TaskRow]
    BY <1>4, <1>7
  <2>2. QED BY <1>6, <2>1
<1>10. ASSUME NEW table PROVE AllSound(table, tasks)
  <2>1. ASSUME NEW i \in DOMAIN tasks PROVE TaskSound(table, tasks[i])
    <3> HIDE DEF T
    <3>1. tasks[i] \in S
      BY <1>7, <1>9
    <3>2. PICK m \in Memories : tasks[i] = T(m)
      BY <1>1, <1>2, <3>1
    <3>3. tasks[i].pc = "next"
      BY <1>3, <3>2
    <3>4. QED BY <3>3 DEF TaskSound
  <2>2. QED BY <2>1 DEF AllSound
<1>11. ASSUME NEW m \in Memories, NEW x, Wanted(m, x)
       PROVE  <<m, x>> \in Owed(tasks)
  <2>1. memories[m].entities # <<>> /\ Live(m) /\ x \in ToSet(memories[m].entities)
    BY <1>11 DEF Wanted, ToSet
  <2>2. m \in ToBackfill
    BY <2>1 DEF ToBackfill
  <2> HIDE DEF T
  <2>3. T(m) \in S
    BY <1>1, <2>2
  <2>4. PICK i \in 1..n : tasks[i] = T(m)
    BY <1>8, <2>3
  <2>5. tasks[i].memory = m /\ x \in ToSet(tasks[i].todo) /\ i \in DOMAIN tasks
    BY <1>3, <1>9, <2>1, <2>4
  <2>6. QED BY ONLY <2>5, OwedIff
<1>12. QED BY <1>9, <1>10, <1>11

LEMMA BackfillKeeps ==
    ASSUME EInv, Backfill
    PROVE  EInv'
<1> USE DEF EInv
<1>1. UNCHANGED <<memories, update, entities, links, queue, lost, killed>> /\ clean' = TRUE
  BY DEF Backfill
<1>2. /\ backfill' \in Seq(TaskRow)
      /\ \A table : AllSound(table, backfill')
      /\ \A m \in Memories : \A x : Wanted(m, x) => <<m, x>> \in Owed(backfill')
  BY BackfillCovers DEF Backfill
<1>3. count' \in Counters
  BY Counts DEF Backfill, EntityTypeOK
<1>4. EntityTypeOK'
  BY <1>1, <1>2, <1>3 DEF EntityTypeOK
<1>5. TasksSound'
  BY <1>1, <1>2 DEF TasksSound
<1>6. \A m \in Memories : \A x : Wanted(m, x)' => Pending(m, x)'
  BY <1>1, <1>2 DEF Wanted, Live, Pending
<1>7. CleanSound'
  BY <1>6 DEF CleanSound
<1>8. UnlinkedOnlyByFailureOrRestart'
  BY <1>6 DEF UnlinkedOnlyByFailureOrRestart, Wanted, Pending
<1>9. QED BY <1>4, <1>5, <1>7, <1>8

LEMMA CrashKeeps ==
    ASSUME EInv, Crash
    PROVE  EInv'
<1> USE DEF EInv
<1>1. /\ killed' = killed \cup Owed(queue) \cup Owed(backfill)
      /\ queue' = <<>> /\ backfill' = <<>> /\ update' = NoUpdate /\ clean' = FALSE
      /\ UNCHANGED <<memories, entities, links, lost>>
  BY DEF Crash
<1>2. count' \in Counters
  BY Counts DEF Crash, EntityTypeOK
<1>3. update' \in Update
  BY <1>1 DEF NoUpdate, Update
<1>4. EntityTypeOK'
  <2>1. Owed(queue) \cup Owed(backfill) \subseteq Memories \X Mentions
    BY OwedTyped DEF EntityTypeOK
  <2>2. killed' \subseteq Memories \X Mentions
    BY <1>1, <2>1 DEF EntityTypeOK
  <2>3. queue' \in Seq(TaskRow) /\ backfill' \in Seq(TaskRow) /\ clean' \in BOOLEAN
    <3>1. <<>> \in Seq(TaskRow) /\ FALSE \in BOOLEAN
      OBVIOUS
    <3>2. QED BY ONLY <1>1, <3>1
  <2>4. QED BY <1>1, <1>2, <1>3, <2>2, <2>3 DEF EntityTypeOK
<1>5. TasksSound'
  BY <1>1 DEF TasksSound, AllSound
<1>6. UnlinkedOnlyByFailureOrRestart' /\ CleanSound'
  <2>1. EntitiesGrow(entities, entities') /\ links \subseteq links' /\ ~clean'
    BY <1>1, SameRows
  <2>2. \A m \in Memories : \A x : Wanted(m, x)' => Wanted(m, x) \/ Pending(m, x)'
    BY <1>1, SameWanted
  <2>3. \A m \in Memories : \A x : Pending(m, x) => Excused(m, x)'
    BY <1>1 DEF Pending, Excused
  <2>4. \A m \in Memories : \A x : Excused(m, x) => Excused(m, x)'
    BY <1>1 DEF Excused
  <2>5. QED BY <2>1, <2>2, <2>3, <2>4, StillAccounted
<1>7. QED BY <1>4, <1>5, <1>6

-----------------------------------------------------------------------------
LEMMA InitEInv == Init => EInv
<1> SUFFICES ASSUME Init PROVE EInv
  OBVIOUS
<1>1. memories \in [Memories -> MemoryRow] /\ \A m \in Memories : ~Live(m)
  BY DEF Init, NoMemory, MemoryRow, Live
<1>2. EntityTypeOK
  <2>1. NoUpdate \in Update
    BY DEF NoUpdate, Update
  <2>2. entities \in Seq(EntityRow) /\ queue \in Seq(TaskRow) /\ backfill \in Seq(TaskRow)
    BY DEF Init
  <2>3. count \in Counters /\ clean \in BOOLEAN /\ update = NoUpdate /\ links = {} /\ lost = {} /\ killed = {}
    BY DEF Init, Counters
  <2>4. QED BY <1>1, <2>1, <2>2, <2>3 DEF EntityTypeOK
<1>3. TasksSound
  BY DEF Init, TasksSound, AllSound
<1>4. UnlinkedOnlyByFailureOrRestart /\ CleanSound
  BY <1>1 DEF UnlinkedOnlyByFailureOrRestart, CleanSound, Wanted
<1>5. QED BY <1>2, <1>3, <1>4 DEF EInv

LEMMA NextKeepsEInv == EInv /\ [Next]_vars => EInv'
<1> SUFFICES ASSUME EInv, [Next]_vars PROVE EInv'
  OBVIOUS
<1>1. ASSUME NEW m \in Memories, NEW found \in Findings, NEW claims \in Claims,
             NEW channel \in Channels, NEW relChannel \in Channels,
             \/ Insert(m, found, claims, channel, relChannel)
             \/ Overwrite(m, found, claims, channel, relChannel)
             \/ ReadForMerge(m, found, claims, channel, relChannel)
      PROVE  EInv'
  BY <1>1, InsertKeeps, ReadForMergeKeeps
<1>2. CASE MergeMemory
  BY <1>2, MergeMemoryKeeps
<1>3. CASE \E m \in Memories : Delete(m)
  BY <1>3, DeleteKeeps
<1>4. CASE \E m \in Memories, name \in SavedNames, id \in DOMAIN entities : LinkByName(m, name, id)
  BY <1>4, LinkByNameKeeps
<1>5. CASE Normalise
  BY <1>5, FinishKeeps, LookKeeps, InsertEntityKeeps, LinkKeeps, RaiseKeeps DEF Normalise
<1>6. CASE \E j \in Jobs : Fail(j)
  BY <1>6, FailKeeps
<1>7. CASE Backfill
  BY <1>7, BackfillKeeps
<1>8. CASE Crash
  BY <1>8, CrashKeeps
<1>9. CASE UNCHANGED vars
  <2>1. UNCHANGED <<memories, update, entities, links, queue, backfill, lost, killed, clean, count>>
    BY <1>9 DEF vars
  <2>2. EntityTypeOK'
    BY <2>1 DEF EInv, EntityTypeOK
  <2>3. \A m \in Memories : \A x : Wanted(m, x)' => Wanted(m, x)
    BY <2>1 DEF Wanted, Live
  <2>4. QED BY <2>1, <2>2, <2>3, QuietKeeps
<1>10. QED BY <1>1, <1>2, <1>3, <1>4, <1>5, <1>6, <1>7, <1>8, <1>9 DEF Next

LEMMA SpecEInv == Spec => []EInv
BY InitEInv, NextKeepsEInv, PTL DEF Spec

(* The table of memories and entities, the links between them, and the      *)
(* normalisations under way have their types in every state.               *)
THEOREM EntityTypeCorrect == Spec => []EntityTypeOK
<1>1. EInv => EntityTypeOK
  BY DEF EInv
<1>2. QED BY <1>1, SpecEInv, PTL

(* Every mention of a live memory is linked, pending, logged as failed, or *)
(* one whose normalisation the end of the process cut short, which nothing *)
(* logs: merges, bursts over the semaphore and failures half-way lose none *)
(* without a trace, only a restart does (_schedule_normalization).         *)
THEOREM UnlinkedOnlyByFailureOrRestartAlways == Spec => []UnlinkedOnlyByFailureOrRestart
<1>1. EInv => UnlinkedOnlyByFailureOrRestart
  BY DEF EInv
<1>2. QED BY <1>1, SpecEInv, PTL

(* A backfill that ends with nothing failed has repaired what was lost     *)
(* before it (normalize_all_existing).                                     *)
Repaired ==
    backfill # <<>> /\ backfill' = <<>> /\ clean' =>
        (\A m \in Memories : Live(m) => \A x \in ToSet(memories[m].entities) :
            Reaches(m, x) \/ <<m, x>> \in Owed(queue))'

THEOREM BackfillAlwaysRepairs == Spec => BackfillRepairs
<1>1. EInv' => Repaired
  <2> SUFFICES ASSUME EInv', backfill' = <<>>, clean'
               PROVE  (\A m \in Memories : Live(m) => \A x \in ToSet(memories[m].entities) :
                          Reaches(m, x) \/ <<m, x>> \in Owed(queue))'
    BY DEF Repaired
  <2>1. Owed(backfill') = {}
    BY DEF Owed
  <2>2. ASSUME NEW m \in Memories, NEW x, Wanted(m, x)'
        PROVE  Reaches(m, x)' \/ <<m, x>> \in Owed(queue')
    BY <2>1, <2>2 DEF EInv, CleanSound, Pending
  <2>3. QED BY <2>2 DEF Wanted
<1>2. Spec => [][Repaired]_vars
  BY <1>1, SpecEInv, PTL DEF Spec
<1>3. QED BY <1>2 DEF BackfillRepairs, Repaired

-----------------------------------------------------------------------------
(* A relation is between mentions of its memory: the extraction keeps      *)
(* those alone, and a merge, which unites the relations of two, has the    *)
(* names of both.                                                          *)
Grounded(claims, ents) == \A r \in claims : {r[1], r[2]} \subseteq Names(ents)

ClaimsSound ==
    /\ \A m \in Memories : Grounded(memories[m].relations, memories[m].entities)
    /\ Grounded(update.claims, update.found) /\ Grounded(update.oldClaims, update.old)

LEMMA WrittenGrounds ==
    ASSUME EntityTypeOK, ClaimsSound, NEW m \in Memories, NEW ents, NEW rels,
           Grounded(rels, ents), Written(m, ents, rels), update' = update \/ update' = NoUpdate
    PROVE  ClaimsSound'
<1>1. PICK row : row = [status |-> IF Stored(m) THEN memories[m].status ELSE "live",
                        entities |-> ents, relations |-> rels]
  OBVIOUS
<1>2. memories' = [memories EXCEPT ![m] = row]
  BY <1>1 DEF Written
<1>3. \A i \in Memories : memories'[i] = IF i = m THEN row ELSE memories[i]
  BY <1>2 DEF EntityTypeOK
<1>4. row.entities = ents /\ row.relations = rels
  BY <1>1
<1>5. \A i \in Memories : Grounded(memories'[i].relations, memories'[i].entities)
  BY <1>3, <1>4 DEF ClaimsSound
<1>6. NoUpdate.claims = {} /\ NoUpdate.oldClaims = {}
  BY DEF NoUpdate
<1>7. Grounded(update'.claims, update'.found) /\ Grounded(update'.oldClaims, update'.old)
  BY <1>6 DEF ClaimsSound, Grounded
<1>8. QED BY <1>5, <1>7 DEF ClaimsSound

LEMMA ExtractedGrounds ==
    ASSUME NEW claims, NEW ents, NEW channel
    PROVE  Grounded(ExtractRelations(claims, ents, channel), ents)
BY DEF Grounded, ExtractRelations, FilterRelations

LEMMA NextGrounds == EInv /\ ClaimsSound /\ [Next]_vars => ClaimsSound'
<1> SUFFICES ASSUME EInv, ClaimsSound, [Next]_vars PROVE ClaimsSound'
  OBVIOUS
<1>1. EntityTypeOK
  BY DEF EInv
<1>2. ASSUME NEW m \in Memories, NEW found \in Findings, NEW claims \in Claims,
             NEW channel \in Channels, NEW relChannel \in Channels,
             \/ Insert(m, found, claims, channel, relChannel)
             \/ Overwrite(m, found, claims, channel, relChannel)
      PROVE  ClaimsSound'
  BY <1>1, <1>2, ExtractedGrounds, WrittenGrounds DEF Insert, Overwrite
<1>3. ASSUME NEW m \in Memories, NEW found \in Findings, NEW claims \in Claims,
             NEW channel \in Channels, NEW relChannel \in Channels,
             ReadForMerge(m, found, claims, channel, relChannel)
      PROVE  ClaimsSound'
  <2>1. PICK ents : ents = ExtractEntities(found, channel)
    OBVIOUS
  <2>2. PICK rels : rels = ExtractRelations(claims, ents, relChannel)
    OBVIOUS
  <2>3. /\ update'.found = ents /\ update'.claims = rels
        /\ update'.old = memories[m].entities /\ update'.oldClaims = memories[m].relations
        /\ memories' = memories
    BY <1>3, <2>1, <2>2 DEF ReadForMerge
  <2>4. Grounded(rels, ents)
    BY <2>2, ExtractedGrounds
  <2>5. QED BY <2>3, <2>4 DEF ClaimsSound
<1>4. CASE MergeMemory
  <2>1. PICK ents : ents = MergeEntities(update.old, update.found)
    OBVIOUS
  <2>2. /\ update.memory \in Memories
        /\ update.old \in Seq(Mentions) /\ update.found \in Seq(Mentions)
    BY <1>1, <1>4 DEF MergeMemory, EntityTypeOK, Update
  <2>3. Names(update.old) \subseteq Names(ents) /\ Names(update.found) \subseteq Names(ents)
    BY <2>1, <2>2, MergedIs
  <2>4. Grounded(update.oldClaims \cup update.claims, ents)
    BY <2>3 DEF ClaimsSound, Grounded
  <2>5. Written(update.memory, ents, update.oldClaims \cup update.claims) /\ update' = NoUpdate
    BY <1>4, <2>1 DEF MergeMemory
  <2>6. QED BY <1>1, <2>2, <2>4, <2>5, WrittenGrounds
<1>5. ASSUME NEW m \in Memories, Delete(m) PROVE ClaimsSound'
  <2>1. /\ UNCHANGED update
        /\ \A i \in Memories : /\ memories'[i].relations = memories[i].relations
                               /\ memories'[i].entities = memories[i].entities
    BY <1>1, <1>5 DEF Delete, EntityTypeOK, MemoryRow
  <2>2. QED BY <2>1 DEF ClaimsSound
<1>6. CASE Crash
  BY <1>6 DEF Crash, ClaimsSound, NoUpdate, Grounded
<1>7. CASE UNCHANGED <<memories, update>>
  BY <1>7 DEF ClaimsSound
<1>8. CASE \E m \in Memories, name \in SavedNames, id \in DOMAIN entities : LinkByName(m, name, id)
  BY <1>7, <1>8 DEF LinkByName
<1>9. CASE Normalise \/ (\E j \in Jobs : Fail(j))
  BY <1>7, <1>9 DEF Normalise, Finish, Look, InsertEntity, Link, Raise, Fail
<1>10. CASE Backfill \/ UNCHANGED vars
  BY <1>7, <1>10 DEF Backfill, vars
<1>11. QED BY <1>2, <1>3, <1>4, <1>5, <1>6, <1>8, <1>9, <1>10 DEF Next

LEMMA SpecClaims == Spec => [](EInv /\ ClaimsSound)
<1>1. Init => ClaimsSound
  BY DEF Init, NoMemory, NoUpdate, ClaimsSound, Grounded
<1>2. QED BY <1>1, InitEInv, NextKeepsEInv, NextGrounds, PTL DEF Spec

-----------------------------------------------------------------------------
(* What the pages tell.  The rank of a relation, and the most specific of  *)
(* some: one, if of a known type.                                          *)
LEMMA RankIs ==
    ASSUME NEW t
    PROVE  /\ Rank(t) \in 1..7 /\ (t \in ToSet(Priority) <=> Rank(t) # 7)
           /\ t \in ToSet(Priority) => Priority[Rank(t)] = t
<1>1. DOMAIN Priority = 1..6 /\ Len(Priority) = 6
  BY DEF Priority
<1> HIDE DEF Priority
<1>2. CASE t \in ToSet(Priority)
  <2>1. \E i \in DOMAIN Priority : Priority[i] = t
    BY <1>2 DEF ToSet
  <2>2. PICK i : i = CHOOSE k \in DOMAIN Priority : Priority[k] = t
    OBVIOUS
  <2>3. i \in DOMAIN Priority /\ Priority[i] = t
    BY <2>1, <2>2, Zenon
  <2>4. Rank(t) = i
    BY <1>2, <2>2 DEF Rank
  <2>5. QED BY <1>1, <1>2, <2>3, <2>4
<1>3. CASE t \notin ToSet(Priority)
  BY <1>1, <1>3 DEF Rank
<1>4. QED BY <1>2, <1>3

LEMMA DominantIs ==
    ASSUME NEW types
    PROVE  /\ DominantRelationTypes(types) # {}
           /\ \A t, u \in DominantRelationTypes(types) : t = u \/ {t, u} \cap ToSet(Priority) = {}
           /\ \A t \in DominantRelationTypes(types), u \in types : Rank(t) <= Rank(u)
<1>1. CASE types = {}
  BY <1>1 DEF DominantRelationTypes
<1>2. CASE types # {}
  <2>1. DominantRelationTypes(types) = {t \in types : \A u \in types : Rank(t) <= Rank(u)}
    BY <1>2 DEF DominantRelationTypes
  <2>2. DominantRelationTypes(types) # {}
    <3> DEFINE ranks == {Rank(t) : t \in types}
    <3>1. ranks \subseteq Nat /\ ranks # {}
      BY <1>2, RankIs
    <3> HIDE DEF ranks
    <3>2. PICK n \in ranks : \A k \in ranks : ~(k < n)
      BY <3>1, LeastNumber
    <3>3. \A k \in ranks : n <= k
      BY <3>1, <3>2
    <3>4. PICK t \in types : Rank(t) = n
      BY DEF ranks
    <3>5. \A u \in types : Rank(t) <= Rank(u)
      BY <3>3, <3>4 DEF ranks
    <3>6. QED BY <2>1, <3>5
  <2>3. ASSUME NEW t \in DominantRelationTypes(types), NEW u \in DominantRelationTypes(types)
        PROVE  t = u \/ {t, u} \cap ToSet(Priority) = {}
    <3>1. Rank(t) <= Rank(u) /\ Rank(u) <= Rank(t)
      BY <2>1
    <3>2. Rank(t) = Rank(u)
      <4>1. Rank(t) \in Int /\ Rank(u) \in Int
        BY RankIs
      <4>2. QED BY <3>1, <4>1
    <3>3. t \in ToSet(Priority) <=> u \in ToSet(Priority)
      BY <3>2, RankIs
    <3>4. t \in ToSet(Priority) => t = u
      BY <3>2, <3>3, RankIs, Zenon
    <3>5. QED BY <3>3, <3>4
  <2>4. QED BY <2>1, <2>2, <2>3
<1>3. QED BY <1>1, <1>2

(* The lists: cut at their limit, and with all there is if it fits.        *)
LEMMA ListsAre ==
    ASSUME NEW S, IsFiniteSet(S), NEW score, NEW n \in Nat, NEW T \in Lists(S, score, n)
    PROVE  /\ T \subseteq S /\ (T = S \/ Cardinality(T) = n)
           /\ \A a \in T, b \in S \ T : score[b] <= score[a]
           /\ Cardinality(T) = Fewer(Cardinality(S), n)
           /\ Cardinality(S) <= n => T = S
<1>1. /\ T \in SUBSET S /\ Cardinality(T) <= n /\ (T = S \/ Cardinality(T) = n)
      /\ \A a \in T, b \in S \ T : score[b] <= score[a]
  BY DEF Lists
<1>2. IsFiniteSet(T) /\ Cardinality(T) <= Cardinality(S) /\ (Cardinality(S) = Cardinality(T) => S = T)
  BY <1>1, FS_Subset
<1>3. Cardinality(S) \in Nat /\ Cardinality(T) \in Nat
  BY <1>2, FS_CardinalityType
<1>4. Cardinality(T) = Fewer(Cardinality(S), n) /\ (Cardinality(S) <= n => T = S)
  BY <1>1, <1>2, <1>3 DEF Fewer
<1>5. QED BY <1>1, <1>4

LEMMA LimitsAre ==
    PageSize \in Nat /\ RecentSize \in Nat /\ ToolSize \in Nat /\ TopSize \in Nat
BY PagesAssumption

LEMMA MemoriesFinite ==
    ASSUME NEW S \in SUBSET Memories
    PROVE  IsFiniteSet(S) /\ Cardinality(S) \in Nat
<1>1. IsFiniteSet(S)
  BY EntitiesAssumption, FS_Subset
<1>2. QED BY <1>1, FS_CardinalityType

LEMMA RowsFinite ==
    ASSUME EntityTypeOK, NEW S \in SUBSET DOMAIN entities
    PROVE  IsFiniteSet(S) /\ Cardinality(S) \in Nat
<1>1. DOMAIN entities = 1..Len(entities) /\ Len(entities) \in Nat
  BY DEF EntityTypeOK
<1>2. IsFiniteSet(DOMAIN entities)
  BY <1>1, NumbersFinite
<1>3. IsFiniteSet(S)
  BY <1>2, FS_Subset
<1>4. QED BY <1>3, FS_CardinalityType

LEMMA NamesMatch ==
    ASSUME EntityTypeOK, NEW a \in DOMAIN entities, NEW b \in DOMAIN entities
    PROVE  LET q == entities[a].canonical IN
           \/ Like(q, entities[b].canonical)
           \/ Like(q, entities[b].name)
           => Matches(q, entities[b].canonical) \/ Matches(q, entities[b].name)
<1>1. entities[a] \in EntityRow /\ entities[b] \in EntityRow
  BY DEF EntityTypeOK
<1>2. PICK x \in Mentions : x.name = entities[a].canonical
  BY <1>1 DEF EntityRow, MentionNames
<1>3. PICK y \in Mentions : y.name = entities[b].canonical
  BY <1>1 DEF EntityRow, MentionNames
<1>4. PICK z \in Mentions : z.name = entities[b].name
  BY <1>1 DEF EntityRow, MentionNames
<1>5. \A u, v \in Mentions : Like(u.name, v.name) => Matches(u.name, v.name)
  BY PagesAssumption
<1>6. QED BY <1>2, <1>3, <1>4, <1>5

(* The rows of a page: of each entity listed the memories the two share,   *)
(* and the relations it may name.                                          *)
LEMMA RowsTold ==
    ASSUME NEW a \in DOMAIN entities, NEW T, T \subseteq DOMAIN entities,
           NEW list, list = RelatedRows(a, T)
    PROVE  /\ Ids(list) = T
           /\ \A r \in list : r.memory_count = Cardinality(Shared(a, r.id))
           /\ \A b \in T : \A x : x \in Told(list, b) <=>
                \E t \in DominantRelationTypes(RelationTypes(a, b)) : x = <<Cardinality(Shared(a, b)), t>>
<1> DEFINE PageRow(o, t) == [id |-> o, memory_count |-> SharedWith(a)[o], relation_type |-> t]
           Types(o) == DominantRelationTypes(RelationTypes(a, o))
<1>1. \A o, t : /\ PageRow(o, t).id = o /\ PageRow(o, t).memory_count = SharedWith(a)[o]
                /\ PageRow(o, t).relation_type = t
  OBVIOUS
<1>2. list = UNION {{PageRow(o, t) : t \in Types(o)} : o \in T}
  BY DEF RelatedRows
<1>3. \A o : Types(o) # {}
  BY DominantIs
<1> HIDE DEF PageRow, Types
<1>4. \A r : r \in list <=> \E o \in T : \E t \in Types(o) : r = PageRow(o, t)
  BY <1>2
<1>5. \A o \in T : SharedWith(a)[o] = Cardinality(Shared(a, o))
  BY DEF SharedWith
<1>6. ASSUME NEW r \in list
      PROVE  /\ r.id \in T /\ r.memory_count = Cardinality(Shared(a, r.id))
             /\ r.relation_type \in Types(r.id)
  <2>1. PICK o \in T : \E t \in Types(o) : r = PageRow(o, t)
    BY <1>4
  <2>2. PICK t \in Types(o) : r = PageRow(o, t)
    BY <2>1
  <2>3. r.id = o /\ r.memory_count = SharedWith(a)[o] /\ r.relation_type = t
    BY <1>1, <2>2
  <2>4. QED BY <1>5, <2>1, <2>2, <2>3
<1>7. ASSUME NEW b \in T, NEW t \in Types(b)
      PROVE  PageRow(b, t) \in list /\ PageRow(b, t).id = b
  BY <1>1, <1>4, <1>7
<1>8. Ids(list) = T
  <2>1. \A b \in T : b \in Ids(list)
    BY <1>3, <1>7 DEF Ids
  <2>2. QED BY <1>6, <2>1 DEF Ids
<1>9. ASSUME NEW b \in T, NEW x, x \in Told(list, b)
      PROVE  \E t \in Types(b) : x = <<Cardinality(Shared(a, b)), t>>
  <2>1. PICK r \in list : r.id = b /\ x = <<r.memory_count, r.relation_type>>
    BY <1>9 DEF Told
  <2>2. QED BY <1>6, <2>1
<1>10. ASSUME NEW b \in T, NEW t \in Types(b)
       PROVE  <<Cardinality(Shared(a, b)), t>> \in Told(list, b)
  <2>1. PICK r : r = PageRow(b, t)
    OBVIOUS
  <2>2. r \in list /\ r.id = b /\ r.memory_count = Cardinality(Shared(a, b)) /\ r.relation_type = t
    BY <1>1, <1>5, <1>7, <2>1
  <2>3. QED BY <2>2 DEF Told
<1>11. QED BY <1>6, <1>8, <1>9, <1>10, Zenon DEF Types

LEMMA PageOf ==
    ASSUME EntityTypeOK, NEW a \in DOMAIN entities, NEW list \in RelatedEntities(a)
    PROVE  \E T \in Lists(Related(a), SharedWith(a), PageSize) : T \subseteq DOMAIN entities /\ list = RelatedRows(a, T)
<1>1. PICK T \in Lists(Related(a), SharedWith(a), PageSize) : list = RelatedRows(a, T)
  BY DEF RelatedEntities
<1>2. T \subseteq DOMAIN entities
  BY DEF Lists, Related
<1>3. QED BY <1>1, <1>2

LEMMA NeighboursDoAgree ==
    ASSUME EntityTypeOK
    PROVE  NeighboursAgree
<1> SUFFICES ASSUME NEW a \in DOMAIN entities, NEW b \in DOMAIN entities,
                    NEW list \in RelatedEntities(a), NEW back \in RelatedEntities(b),
                    b \in Ids(list), a \in Ids(back)
             PROVE  /\ Told(list, b) = Told(back, a)
                    /\ \A x, y \in Told(list, b) : x = y \/ {x[2], y[2]} \cap ToSet(Priority) = {}
  BY DEF NeighboursAgree
<1>1. Shared(a, b) = Shared(b, a)
  BY DEF Shared
<1>2. RelationTypes(a, b) = RelationTypes(b, a)
  BY <1>1, Zenon DEF RelationTypes
<1>3. PICK types : types = DominantRelationTypes(RelationTypes(a, b))
  OBVIOUS
<1>4. PICK n : n = Cardinality(Shared(a, b))
  OBVIOUS
<1>5. \A x : x \in Told(list, b) <=> \E t \in types : x = <<n, t>>
  <2>1. PICK T : T \subseteq DOMAIN entities /\ list = RelatedRows(a, T)
    BY PageOf
  <2>2. b \in T
    BY <2>1, RowsTold
  <2>3. QED BY <1>3, <1>4, <2>1, <2>2, RowsTold
<1>6. \A x : x \in Told(back, a) <=> \E t \in types : x = <<n, t>>
  <2>1. PICK T : T \subseteq DOMAIN entities /\ back = RelatedRows(b, T)
    BY PageOf
  <2>2. a \in T
    BY <2>1, RowsTold
  <2>3. QED BY <1>1, <1>2, <1>3, <1>4, <2>1, <2>2, RowsTold
<1>7. Told(list, b) = Told(back, a)
  BY <1>5, <1>6
<1>8. ASSUME NEW x \in Told(list, b), NEW y \in Told(list, b)
      PROVE  x = y \/ {x[2], y[2]} \cap ToSet(Priority) = {}
  <2>1. PICK t \in types : x = <<n, t>>
    BY <1>5
  <2>2. PICK u \in types : y = <<n, u>>
    BY <1>5
  <2>3. t = u \/ {t, u} \cap ToSet(Priority) = {}
    BY <1>3, DominantIs, Zenon
  <2>4. x[2] = t /\ y[2] = u
    BY <2>1, <2>2
  <2>5. QED BY <2>1, <2>2, <2>3, <2>4
<1>9. QED BY <1>7, <1>8

(* A relation of a live memory is told on the pages of its ends, or they   *)
(* are full.                                                               *)
LEMMA RelationsAreTold ==
    ASSUME EntityTypeOK, ClaimsSound
    PROVE  RelationsTold
<1> SUFFICES ASSUME NEW m \in LiveMemories, NEW r \in memories[m].relations
             PROVE  /\ {r[1], r[2]} \subseteq Names(memories[m].entities)
                    /\ \A a, b \in {id \in DOMAIN entities : <<m, id>> \in links} : a # b =>
                        \A list \in RelatedEntities(a) :
                            IF b \in Ids(list) THEN \A told \in Told(list, b) : Rank(told[2]) <= Rank(r[3])
                            ELSE /\ Cardinality(Ids(list)) = PageSize
                                 /\ \A row \in list : Cardinality(Shared(a, b)) <= row.memory_count
  BY DEF RelationsTold
<1>1. m \in Memories
  BY DEF LiveMemories
<1>2. {r[1], r[2]} \subseteq Names(memories[m].entities)
  BY <1>1 DEF ClaimsSound, Grounded
<1>3. ASSUME NEW a \in DOMAIN entities, NEW b \in DOMAIN entities,
             <<m, a>> \in links, <<m, b>> \in links, a # b, NEW list \in RelatedEntities(a)
      PROVE  /\ b \in Ids(list) => \A told \in Told(list, b) : Rank(told[2]) <= Rank(r[3])
             /\ b \notin Ids(list) => /\ Cardinality(Ids(list)) = PageSize
                                      /\ \A row \in list : Cardinality(Shared(a, b)) <= row.memory_count
  <2>1. m \in Shared(a, b)
    BY <1>1, <1>3 DEF Shared, Counted
  <2>2. r[3] \in RelationTypes(a, b)
    BY <2>1 DEF RelationTypes
  <2>3. PICK T \in Lists(Related(a), SharedWith(a), PageSize) :
          T \subseteq DOMAIN entities /\ list = RelatedRows(a, T)
    BY PageOf
  <2>4. Ids(list) = T
    BY <2>3, RowsTold
  <2>5. ASSUME b \in T PROVE \A told \in Told(list, b) : Rank(told[2]) <= Rank(r[3])
    <3>1. SUFFICES ASSUME NEW told \in Told(list, b) PROVE Rank(told[2]) <= Rank(r[3])
      OBVIOUS
    <3>2. PICK t \in DominantRelationTypes(RelationTypes(a, b)) : told = <<Cardinality(Shared(a, b)), t>>
      BY <2>3, <2>5, RowsTold
    <3>3. Rank(t) <= Rank(r[3])
      BY <2>2, <3>2, DominantIs
    <3>4. told[2] = t
      BY <3>2
    <3>5. QED BY <3>3, <3>4
  <2>6. ASSUME b \notin T
        PROVE  /\ Cardinality(T) = PageSize
               /\ \A row \in list : Cardinality(Shared(a, b)) <= row.memory_count
    <3>1. b \in Related(a)
      BY <1>3, <2>1 DEF Related
    <3>2. Related(a) \in SUBSET DOMAIN entities
      BY DEF Related
    <3>3. IsFiniteSet(Related(a))
      BY <3>2, RowsFinite
    <3>4. /\ T = Related(a) \/ Cardinality(T) = PageSize
          /\ \A o \in T, k \in Related(a) \ T : SharedWith(a)[k] <= SharedWith(a)[o]
      BY <3>3, LimitsAre, ListsAre
    <3>5. \A o \in DOMAIN entities : SharedWith(a)[o] = Cardinality(Shared(a, o))
      BY DEF SharedWith
    <3>6. \A o \in T : Cardinality(Shared(a, b)) <= Cardinality(Shared(a, o))
      BY <2>3, <2>6, <3>1, <3>4, <3>5
    <3>7. \A row \in list : row.id \in T /\ row.memory_count = Cardinality(Shared(a, row.id))
      BY <2>3, <2>4, RowsTold DEF Ids
    <3>8. QED BY <2>6, <3>1, <3>4, <3>6, <3>7
  <2>7. QED BY <2>4, <2>5, <2>6
<1>4. QED BY <1>2, <1>3, Zenon

(* The counts beside the lists.                                            *)
LEMMA BreakdownAddsUp ==
    ASSUME NEW S \in SUBSET Memories
    PROVE  Total(BySource(S), DOMAIN BySource(S)) = Cardinality(S)
<1>1. PICK key : key = [m \in S |-> SourceType(m)]
  OBVIOUS
<1>2. PICK one : one = [m \in S |-> 1]
  OBVIOUS
<1>3. PICK K : K = {key[m] : m \in S}
  OBVIOUS
<1>4. IsFiniteSet(S) /\ IsFiniteSet(K)
  BY <1>3, MemoriesFinite, ImageFinite
<1>5. \A k : GroupOf(key, S, k) = {m \in S : SourceType(m) = k}
  BY <1>1 DEF GroupOf
<1>6. PICK g : g = BySource(S)
  OBVIOUS
<1>7. DOMAIN g = K /\ \A k \in K : g[k] = Cardinality({m \in S : SourceType(m) = k})
  BY <1>1, <1>3, <1>6 DEF BySource
<1>8. ASSUME NEW k \in K PROVE g[k] = Total(one, GroupOf(key, S, k))
  <2>1. IsFiniteSet(GroupOf(key, S, k)) /\ \A m \in GroupOf(key, S, k) : one[m] = 1
    BY <1>2, <1>4, FS_Subset DEF GroupOf
  <2>2. Total(one, GroupOf(key, S, k)) = Cardinality(GroupOf(key, S, k))
    BY <2>1, TotalOnes
  <2>3. QED BY <1>5, <1>7, <2>2
<1>9. Naturals(one, S) /\ (\A m \in S : one[m] = 1) /\ \A m \in S : key[m] \in K
  BY <1>2, <1>3 DEF Naturals
<1>10. Total(one, S) = Total(g, K)
  BY <1>4, <1>8, <1>9, TotalGroups
<1>11. Total(one, S) = Cardinality(S)
  BY <1>4, <1>9, TotalOnes
<1>12. QED BY <1>6, <1>7, <1>10, <1>11

(* The tool answers with one of the rows of the name that have the most    *)
(* memories.                                                               *)
LEMMA AnswerIs ==
    ASSUME NEW q, NEW answer \in QueryEntity(q)
    PROVE  \E other \in EntitiesByName(q), T \in Lists(Related(answer.id), SharedWith(answer.id), ToolSize) :
             /\ answer.id = other /\ answer.memory_count = Memberships[other]
             /\ answer.recent_memories \in RecentMemories(other)
             /\ answer.related_entities = {[id |-> o, memory_count |-> SharedWith(other)[o]] : o \in T}
<1> DEFINE Reply(id, list, recent) ==
             [found |-> TRUE, id |-> id, memory_count |-> Memberships[id],
              related_entities |-> list, recent_memories |-> recent]
<1>1. \A id, list, recent : LET r == Reply(id, list, recent) IN
        /\ r.id = id /\ r.memory_count = Memberships[id]
        /\ r.related_entities = list /\ r.recent_memories = recent
  OBVIOUS
<1>2. QueryEntity(q) = UNION {{Reply(id, list, recent) : list \in RelatedForTool(id), recent \in RecentMemories(id)} :
                                 id \in EntitiesByName(q)}
  BY DEF QueryEntity
<1> HIDE DEF Reply
<1>3. PICK other \in EntitiesByName(q) :
        answer \in {Reply(other, list, recent) : list \in RelatedForTool(other), recent \in RecentMemories(other)}
  BY <1>2
<1>4. PICK list \in RelatedForTool(other), recent \in RecentMemories(other) : answer = Reply(other, list, recent)
  BY <1>3
<1>5. /\ answer.id = other /\ answer.memory_count = Memberships[other]
      /\ answer.related_entities = list /\ answer.recent_memories = recent
  BY <1>1, <1>4
<1>6. PICK T \in Lists(Related(other), SharedWith(other), ToolSize) :
        list = {[id |-> o, memory_count |-> SharedWith(other)[o]] : o \in T}
  BY <1>4 DEF RelatedForTool
<1>7. QED BY <1>3, <1>4, <1>5, <1>6

LEMMA ToolDoesAgree ==
    ASSUME EntityTypeOK, NEW id \in DOMAIN entities, NEW page \in EntityRelations(id)
    PROVE  ToolAgrees(id, page)
<1>1. PICK q : q = entities[id].canonical
  OBVIOUS
<1>2. /\ page.entity.memory_count = Memberships[id] /\ page.entity.source_breakdown = BySource(Recent(id))
      /\ page.related_entities \in RelatedEntities(id) /\ page.recent_memories \in RecentMemories(id)
  BY DEF EntityRelations, EntityProfile, SourceBreakdown
<1>3. Recent(id) \in SUBSET Memories
  BY DEF Recent, Counted
<1>4. Size(page.entity.source_breakdown) = Cardinality(Recent(id))
  BY <1>2, <1>3, BreakdownAddsUp DEF Size
<1> SUFFICES ASSUME NEW answer \in QueryEntity(q)
             PROVE  /\ answer.id = id =>
                       /\ \A row \in page.related_entities, told \in answer.related_entities :
                            row.id = told.id => row.memory_count = told.memory_count
                       /\ Size(page.entity.source_breakdown) <= RecentSize =>
                            answer.recent_memories = page.recent_memories
                    /\ Like(q, q) => answer.memory_count >= page.entity.memory_count
                    /\ \A found \in SearchEntities(q, AnyType) : answer.id \in found \/ Cardinality(found) = PageSize
  BY <1>1 DEF ToolAgrees
<1>5. PICK other \in EntitiesByName(q) :
        /\ answer.id = other /\ answer.memory_count = Memberships[other]
        /\ answer.recent_memories \in RecentMemories(other)
        /\ \E T \in Lists(Related(answer.id), SharedWith(answer.id), ToolSize) :
             answer.related_entities = {[id |-> o, memory_count |-> SharedWith(other)[o]] : o \in T}
  BY AnswerIs
<1>6. ASSUME answer.id = id, NEW row \in page.related_entities, NEW told \in answer.related_entities,
             row.id = told.id
      PROVE  row.memory_count = told.memory_count
  <2>1. PICK T : T \subseteq DOMAIN entities /\ page.related_entities = RelatedRows(id, T)
    BY <1>2, PageOf
  <2>2. row.id \in T /\ row.memory_count = Cardinality(Shared(id, row.id))
    BY <2>1, <1>6, RowsTold DEF Ids
  <2>3. PICK o : told = [id |-> o, memory_count |-> SharedWith(id)[o]]
    BY <1>5, <1>6
  <2>4. told.id = o /\ told.memory_count = SharedWith(id)[o]
    BY <2>3
  <2>5. SharedWith(id)[row.id] = Cardinality(Shared(id, row.id))
    BY <2>1, <2>2 DEF SharedWith
  <2>6. QED BY <1>6, <2>2, <2>4, <2>5
<1>7. ASSUME answer.id = id, Size(page.entity.source_breakdown) <= RecentSize
      PROVE  answer.recent_memories = page.recent_memories
  <2>1. \A T \in RecentMemories(id) : T = Recent(id)
    <3>1. IsFiniteSet(Recent(id)) /\ Cardinality(Recent(id)) <= RecentSize
      BY <1>3, <1>4, <1>7, MemoriesFinite
    <3>2. QED BY <3>1, LimitsAre, ListsAre DEF RecentMemories
  <2>2. QED BY <1>2, <1>5, <1>7, <2>1
<1>8. PICK named : named = {k \in DOMAIN entities : Like(q, entities[k].canonical) \/ Like(q, entities[k].name)}
  OBVIOUS
<1>9. PICK one \in Lists(named, Memberships, 1) : other \in one
  BY <1>5, <1>8 DEF EntitiesByName
<1>10. IsFiniteSet(named) /\ named \subseteq DOMAIN entities
  BY <1>8, RowsFinite
<1>11. one \subseteq named /\ \A a \in one, b \in named \ one : Memberships[b] <= Memberships[a]
  BY <1>9 DEF Lists
<1>12. \A k \in DOMAIN entities : Memberships[k] \in Nat
  <2>1. \A k \in DOMAIN entities : Memberships[k] = Cardinality(Counted(k)) /\ Counted(k) \in SUBSET Memories
    BY DEF Memberships, Counted
  <2>2. QED BY <2>1, MemoriesFinite
<1>13. ASSUME Like(q, q) PROVE answer.memory_count >= page.entity.memory_count
  <2>1. id \in named
    BY <1>1, <1>8, <1>13
  <2>2. CASE id \in one
    <3>1. IsFiniteSet(one) /\ Cardinality(one) <= 1
      BY <1>9, <1>10, FS_Subset DEF Lists
    <3>2. other = id
      <4>1. SUFFICES ASSUME other # id PROVE FALSE
        OBVIOUS
      <4>2. IsFiniteSet({other, id}) /\ Cardinality({other, id}) = 2
        <5>1. IsFiniteSet({other}) /\ Cardinality({other}) = 1
          BY FS_Singleton
        <5>2. {other, id} = {other} \cup {id} /\ id \notin {other}
          BY <4>1
        <5>3. QED BY <5>1, <5>2, FS_AddElement
      <4>3. {other, id} \in SUBSET one
        BY <1>9, <2>2
      <4>4. Cardinality({other, id}) <= Cardinality(one) /\ Cardinality(one) \in Nat
        BY <3>1, <4>3, FS_Subset, FS_CardinalityType
      <4>5. QED BY <3>1, <4>2, <4>4
    <3>3. QED BY <1>2, <1>5, <1>12, <3>2
  <2>3. CASE id \notin one
    <3>1. Memberships[id] <= Memberships[other]
      BY <1>9, <1>11, <2>1, <2>3
    <3>2. other \in DOMAIN entities
      BY <1>9, <1>10, <1>11
    <3>3. Memberships[id] \in Nat /\ Memberships[other] \in Nat
      BY <1>12, <3>2
    <3>4. QED BY <1>2, <1>5, <3>1, <3>3
  <2>4. QED BY <2>2, <2>3
<1>14. ASSUME NEW found \in SearchEntities(q, AnyType)
       PROVE  answer.id \in found \/ Cardinality(found) = PageSize
  <2>1. PICK S : S = {k \in DOMAIN entities : /\ Matches(q, entities[k].canonical) \/ Matches(q, entities[k].name)
                                             /\ AnyType \in {AnyType, entities[k].type}}
    OBVIOUS
  <2>2. found = S \/ Cardinality(found) = PageSize
    BY <1>14, <2>1 DEF SearchEntities, Lists
  <2>3. other \in DOMAIN entities /\ (Like(q, entities[other].canonical) \/ Like(q, entities[other].name))
    BY <1>8, <1>9, <1>11
  <2>4. other \in S
    BY <1>1, <2>1, <2>3, NamesMatch
  <2>5. QED BY <1>5, <2>2, <2>4
<1>15. QED BY <1>6, <1>7, <1>13, <1>14

LEMMA SameSize ==
    ASSUME NEW S, IsFiniteSet(S), NEW f, NEW g, NEW R, R = {f[x] : x \in S}, \A x \in S : g[f[x]] = x
    PROVE  Cardinality(R) = Cardinality(S)
<1>1. IsFiniteSet(R) /\ Cardinality(R) <= Cardinality(S)
  BY ImageFinite
<1>2. S = {g[r] : r \in R}
  OBVIOUS
<1>3. Cardinality(S) <= Cardinality(R)
  BY <1>1, <1>2, ImageFinite
<1>4. Cardinality(S) \in Nat /\ Cardinality(R) \in Nat
  BY <1>1, FS_CardinalityType
<1>5. QED BY <1>1, <1>3, <1>4

LEMMA TopsAre ==
    ASSUME EntityTypeOK, NEW top \in TopEntities, NEW id \in DOMAIN entities, NEW live, live = Cardinality(Recent(id))
    PROVE  IF id \in Ids(top) THEN [id |-> id, count |-> live] \in top
           ELSE live = 0 \/ (Cardinality(top) = TopSize /\ \A t \in top : live <= t.count)
<1>1. PICK S : S = {i \in DOMAIN entities : Recent(i) # {}}
  OBVIOUS
<1>2. PICK f : f = [i \in DOMAIN entities |-> [id |-> i, count |-> LiveMemberships[i]]]
  OBVIOUS
<1>3. \A i \in DOMAIN entities : /\ f[i].id = i /\ f[i].count = Cardinality(Recent(i))
                                 /\ f[i] = [id |-> i, count |-> Cardinality(Recent(i))]
  BY <1>2 DEF LiveMemberships
<1>4. PICK T \in Lists(S, LiveMemberships, TopSize) : top = {[id |-> i, count |-> LiveMemberships[i]] : i \in T}
  BY <1>1 DEF TopEntities
<1>5. T \subseteq S /\ S \in SUBSET DOMAIN entities
  BY <1>1, <1>4 DEF Lists
<1>6. IsFiniteSet(S) /\ IsFiniteSet(T)
  BY <1>5, RowsFinite, FS_Subset
<1>7. /\ T = S \/ Cardinality(T) = TopSize
      /\ \A a \in T, b \in S \ T : LiveMemberships[b] <= LiveMemberships[a]
  BY <1>4 DEF Lists
<1>8. top = {f[i] : i \in T}
  <2>1. \A i \in T : f[i] = [id |-> i, count |-> LiveMemberships[i]]
    BY <1>2, <1>5
  <2>2. QED BY <1>4, <2>1
<1>9. CASE id \in Ids(top)
  <2>1. PICK t \in top : t.id = id
    BY <1>9 DEF Ids
  <2>2. PICK i \in T : t = f[i]
    BY <1>8, <2>1
  <2>3. i = id
    BY <1>3, <1>5, <2>1, <2>2
  <2>4. QED BY <1>3, <1>9, <2>1, <2>2, <2>3
<1>10. CASE id \notin Ids(top)
  <2>1. id \notin T
    BY <1>3, <1>5, <1>8, <1>10 DEF Ids
  <2>2. CASE Recent(id) = {}
    <3>1. live = 0
      BY <2>2, FS_EmptySet, Zenon
    <3>2. QED BY <1>10, <3>1
  <2>3. CASE Recent(id) # {}
    <3>1. id \in S \ T
      BY <1>1, <2>1, <2>3
    <3>2. \A i \in T : Cardinality(Recent(id)) <= Cardinality(Recent(i))
      BY <1>5, <1>7, <3>1 DEF LiveMemberships
    <3>3. ASSUME NEW t \in top PROVE live <= t.count
      <4>1. PICK i \in T : t = f[i]
        BY <1>8
      <4>2. t.count = Cardinality(Recent(i))
        BY <1>3, <1>5, <4>1
      <4>3. QED BY <3>2, <4>1, <4>2
    <3>4. Cardinality(top) = Cardinality(T)
      <4>1. PICK g : g = [t \in top |-> t.id]
        OBVIOUS
      <4>2. \A i \in T : g[f[i]] = i
        BY <1>3, <1>5, <1>8, <4>1
      <4>3. QED BY <1>6, <1>8, <4>2, SameSize
    <3>5. Cardinality(T) = TopSize
      BY <1>7, <3>1
    <3>6. QED BY <1>10, <3>3, <3>4, <3>5
  <2>4. QED BY <2>2, <2>3
<1>11. QED BY <1>9, <1>10

LEMMA StatsAre ==
    ASSUME NEW stats \in MemoryStats
    PROVE  /\ stats.top_entities \in TopEntities /\ stats.total = Cardinality(LiveMemories)
           /\ stats.entity_graph = EntityGraphStats
<1> DEFINE ents == Averaged([m \in Memories |-> Len(memories[m].entities)])
           rels == Averaged([m \in Memories |-> Cardinality(memories[m].relations)])
           sources == BySource(LiveMemories)
           n == Cardinality(LiveMemories)
           Answer(top) == [total |-> n, by_source |-> sources, avg_entities |-> ents, avg_relations |-> rels,
                           top_entities |-> top, entity_graph |-> EntityGraphStats]
<1>1. MemoryStats = {Answer(top) : top \in TopEntities}
  BY DEF MemoryStats
<1> HIDE DEF ents, rels, sources, n
<1>2. \A top : /\ Answer(top).top_entities = top /\ Answer(top).total = n
               /\ Answer(top).entity_graph = EntityGraphStats
  OBVIOUS
<1> HIDE DEF Answer
<1>3. PICK top \in TopEntities : stats = Answer(top)
  BY <1>1
<1>4. QED BY <1>2, <1>3 DEF n

LEMMA DashboardDoesAgree ==
    ASSUME EntityTypeOK, NEW id \in DOMAIN entities, NEW page \in EntityRelations(id)
    PROVE  DashboardAgrees(id, page)
<1>1. page.entity.source_breakdown = BySource(Recent(id)) /\ page.recent_memories \in RecentMemories(id)
  BY DEF EntityRelations, EntityProfile, SourceBreakdown
<1>2. Recent(id) \in SUBSET Memories
  BY DEF Recent, Counted
<1>3. PICK live : live = Size(page.entity.source_breakdown)
  OBVIOUS
<1>4. live = Cardinality(Recent(id))
  BY <1>1, <1>2, <1>3, BreakdownAddsUp DEF Size
<1>5. Cardinality(page.recent_memories) = Fewer(live, RecentSize) /\ page.recent_memories \subseteq Recent(id)
  <2>1. IsFiniteSet(Recent(id))
    BY <1>2, MemoriesFinite
  <2>2. QED BY <1>1, <1>4, <2>1, LimitsAre, ListsAre DEF RecentMemories
<1>6. \A m \in page.recent_memories : Live(m) /\ id \in MemoryEntities({m})[m]
  <2>1. \A m : MemoryEntities({m})[m] = {i \in DOMAIN entities : <<m, i>> \in links}
    BY DEF MemoryEntities
  <2>2. QED BY <1>5, <2>1 DEF Recent, Counted
<1>7. ASSUME NEW stats \in MemoryStats
      PROVE  IF id \in Ids(stats.top_entities) THEN [id |-> id, count |-> live] \in stats.top_entities
             ELSE live = 0 \/ /\ Cardinality(stats.top_entities) = TopSize
                              /\ \A top \in stats.top_entities : live <= top.count
  BY <1>4, StatsAre, TopsAre, Zenon
<1>8. QED BY <1>3, <1>5, <1>6, <1>7, Zenon DEF DashboardAgrees

LEMMA CoverageDoesAgree == CoverageAgrees
<1> DEFINE noMention == {m \in LiveMemories : memories[m].entities = <<>> /\ ~Linked(m)}
<1>1. PICK linked : linked = {m \in LiveMemories : Linked(m)}
  OBVIOUS
<1>2. PICK bare : bare = Gaps \cup noMention
  OBVIOUS
<1>3. linked \cup bare = LiveMemories /\ linked \cap bare = {} /\ LiveMemories \subseteq Memories
  BY <1>1, <1>2 DEF Gaps, LiveMemories
<1>4. linked \in SUBSET Memories /\ bare \in SUBSET Memories
  BY <1>3
<1>5. IsFiniteSet(linked) /\ IsFiniteSet(bare)
  BY <1>4, MemoriesFinite
<1>6. Cardinality(linked) + Cardinality(bare) = Cardinality(LiveMemories)
  <2> DEFINE l == Cardinality(linked)
             b == Cardinality(bare)
             all == Cardinality(LiveMemories)
             both == Cardinality(linked \cap bare)
  <2>1. all = l + b - both
    <3>1. Cardinality(linked \cup bare)
            = Cardinality(linked) + Cardinality(bare) - Cardinality(linked \cap bare)
      BY <1>5, FS_Union
    <3>2. QED BY <1>3, <3>1, Zenon
  <2>2. l \in Nat /\ b \in Nat /\ both = 0
    BY <1>3, <1>4, MemoriesFinite, FS_EmptySet
  <2> HIDE DEF l, b, all, both
  <2>3. l + b = all
    BY <2>1, <2>2
  <2>4. QED BY <2>3 DEF l, b, all
<1>7. EntityGraphStats.coverage[1] = Cardinality(linked)
  BY <1>1 DEF EntityGraphStats, Linked
<1>8. ASSUME NEW stats \in MemoryStats
      PROVE  stats.entity_graph.coverage[1] + Cardinality(bare) = stats.total
  BY <1>6, <1>7, StatsAre
<1>9. QED BY <1>2, <1>8 DEF CoverageAgrees

LEMMA PagesDoAgree ==
    ASSUME EntityTypeOK
    PROVE  PagesAgree
BY NeighboursDoAgree, CoverageDoesAgree, ToolDoesAgree, DashboardDoesAgree DEF PagesAgree

(* The pages, the search, the agent's tool and the dashboard fit together  *)
(* as far as their limits let them, whatever those are, and the page of    *)
(* either end of a relation a live memory claims tells it unless it is     *)
(* full of entities with no fewer memories in common.                      *)
THEOREM PagesAlwaysTruthful == Spec => []PagesTruthful
<1>1. EInv /\ ClaimsSound => PagesTruthful
  BY PagesDoAgree, RelationsAreTold DEF EInv, PagesTruthful
<1>2. QED BY <1>1, SpecClaims, PTL

-----------------------------------------------------------------------------
(***************************************************************************)
(* A stable sort by counting: the place of an element is the number of     *)
(* those before it.                                                        *)
(***************************************************************************)
Before(s, score, i, j) == score[s[i]] > score[s[j]] \/ (score[s[i]] = score[s[j]] /\ i < j)
AllBefore(s, score, i) == {j \in 1..Len(s) : Before(s, score, j, i)}
Scored(s, score) == \A i \in 1..Len(s) : score[s[i]] \in Int

LEMMA BeforeStrict ==
    ASSUME NEW R, NEW s \in Seq(R), NEW score, Scored(s, score),
           NEW i \in 1..Len(s), NEW j \in 1..Len(s), Before(s, score, i, j)
    PROVE  /\ IsFiniteSet(AllBefore(s, score, i)) /\ IsFiniteSet(AllBefore(s, score, j))
           /\ Cardinality(AllBefore(s, score, i)) < Cardinality(AllBefore(s, score, j))
<1> DEFINE I == AllBefore(s, score, i)
           J == AllBefore(s, score, j)
<1>1. Len(s) \in Nat
  OBVIOUS
<1>2. IsFiniteSet(1..Len(s))
  BY <1>1, NumbersFinite
<1>3. I \subseteq 1..Len(s) /\ J \subseteq 1..Len(s)
  BY DEF AllBefore
<1>4. I \subseteq J
  BY DEF AllBefore, Before, Scored
<1>5. i \in J /\ i \notin I
  BY DEF AllBefore, Before, Scored
<1> HIDE DEF I, J
<1>6. IsFiniteSet(J)
  BY <1>2, <1>3, FS_Subset
<1>7. IsFiniteSet(I) /\ Cardinality(I) <= Cardinality(J) /\ (Cardinality(J) = Cardinality(I) => J = I)
  BY <1>4, <1>6, FS_Subset
<1>8. Cardinality(I) \in Nat /\ Cardinality(J) \in Nat
  BY <1>6, <1>7, FS_CardinalityType
<1>9. Cardinality(I) < Cardinality(J)
  BY <1>5, <1>7, <1>8
<1>10. QED BY <1>6, <1>7, <1>9 DEF I, J

(* ByScore orders the elements by Before.                                  *)
Sorts(perm, s, score) ==
    /\ perm \in [1..Len(s) -> 1..Len(s)]
    /\ \A m, n \in 1..Len(s) : m < n => Before(s, score, perm[m], perm[n])
    /\ \A i \in 1..Len(s) : \E n \in 1..Len(s) : perm[n] = i
    /\ ByScore(s, score) = [n \in 1..Len(s) |-> s[perm[n]]]

LEMMA BeforeInRange ==
    ASSUME NEW R, NEW s \in Seq(R), NEW score, Scored(s, score), NEW i \in 1..Len(s)
    PROVE  Cardinality(AllBefore(s, score, i)) \in 0..(Len(s) - 1)
<1> DEFINE I == AllBefore(s, score, i)
           others == (1..Len(s)) \ {i}
<1>1. Len(s) \in Nat
  OBVIOUS
<1>2. IsFiniteSet(1..Len(s)) /\ Cardinality(1..Len(s)) = Len(s)
  BY <1>1, NumbersFinite
<1>3. IsFiniteSet(others) /\ Cardinality(others) = Len(s) - 1
  BY <1>2, FS_RemoveElement
<1>4. I \subseteq others
  BY DEF AllBefore, Before, Scored
<1> HIDE DEF I, others
<1>5. IsFiniteSet(I) /\ Cardinality(I) <= Len(s) - 1
  BY <1>3, <1>4, FS_Subset
<1>6. Cardinality(I) \in Nat
  BY <1>5, FS_CardinalityType
<1>7. QED BY <1>1, <1>5, <1>6 DEF I

LEMMA ByScoreSorts ==
    ASSUME NEW R, NEW s \in Seq(R), NEW score, Scored(s, score)
    PROVE  \E perm : Sorts(perm, s, score)
<1> DEFINE N == Len(s)
           rank == [i \in 1..N |-> Cardinality(AllBefore(s, score, i)) + 1]
           perm == [n \in 1..N |-> CHOOSE i \in 1..N : rank[i] = n]
<1>1. N \in Nat
  OBVIOUS
<1>2. IsFiniteSet(1..N)
  BY <1>1, NumbersFinite
<1>3. rank \in [1..N -> 1..N]
  BY <1>1, BeforeInRange
<1>4. \A i, j \in 1..N : Before(s, score, i, j) => rank[i] < rank[j]
  <2> SUFFICES ASSUME NEW i \in 1..N, NEW j \in 1..N, Before(s, score, i, j)
               PROVE  rank[i] < rank[j]
    OBVIOUS
  <2>1. Cardinality(AllBefore(s, score, i)) < Cardinality(AllBefore(s, score, j))
    BY BeforeStrict
  <2>2. rank[i] \in Nat /\ rank[j] \in Nat
    BY <1>3
  <2>3. Cardinality(AllBefore(s, score, i)) \in 0..(Len(s) - 1) /\ Cardinality(AllBefore(s, score, j)) \in 0..(Len(s) - 1)
    BY BeforeInRange
  <2>4. QED BY <2>1, <2>3
<1>5. \A i, j \in 1..N : i # j => Before(s, score, i, j) \/ Before(s, score, j, i)
  BY DEF Before, Scored
<1> HIDE DEF rank
<1>6. \A i, j \in 1..N : rank[i] = rank[j] => i = j
  <2> SUFFICES ASSUME NEW i \in 1..N, NEW j \in 1..N, rank[i] = rank[j], i # j PROVE FALSE
    OBVIOUS
  <2>1. rank[i] < rank[j] \/ rank[j] < rank[i]
    BY <1>4, <1>5
  <2>2. rank[i] \in Int /\ rank[j] \in Int
    BY <1>3
  <2>3. QED BY <2>1, <2>2
<1>7. rank \in Injection(1..N, 1..N)
  BY <1>3, <1>6 DEF Injection, IsInjective
<1>8. rank \in Surjection(1..N, 1..N)
  BY <1>2, <1>7, FS_Injection
<1>9. \A n \in 1..N : perm[n] \in 1..N /\ rank[perm[n]] = n
  <2> SUFFICES ASSUME NEW n \in 1..N PROVE perm[n] \in 1..N /\ rank[perm[n]] = n
    OBVIOUS
  <2>1. \E i \in 1..N : rank[i] = n
    BY <1>8 DEF Surjection
  <2>2. QED BY <2>1
<1>10. ByScore(s, score) = [n \in 1..N |-> s[perm[n]]]
  <2>1. DOMAIN s = 1..N
    OBVIOUS
  <2>2. \A i \in 1..N : {j \in DOMAIN s : score[s[j]] > score[s[i]] \/ (score[s[j]] = score[s[i]] /\ j < i)}
                        = AllBefore(s, score, i)
    BY <2>1 DEF AllBefore, Before
  <2>3. \A i \in 1..N : Cardinality(AllBefore(s, score, i)) \in Int
    BY BeforeInRange
  <2>4. \A n \in 1..N, i \in 1..N : Cardinality(AllBefore(s, score, i)) = n - 1 <=> rank[i] = n
    BY <1>1, <2>3 DEF rank
  <2>5. ASSUME NEW n \in 1..N
        PROVE  (CHOOSE i \in DOMAIN s : Cardinality({j \in DOMAIN s :
                  score[s[j]] > score[s[i]] \/ (score[s[j]] = score[s[i]] /\ j < i)}) = n - 1) = perm[n]
    <3> DEFINE Right(i) == Cardinality({j \in DOMAIN s :
                  score[s[j]] > score[s[i]] \/ (score[s[j]] = score[s[i]] /\ j < i)}) = n - 1
    <3>1. \A i \in 1..N : Right(i) <=> rank[i] = n
      <4> SUFFICES ASSUME NEW i \in 1..N PROVE Right(i) <=> rank[i] = n
        OBVIOUS
      <4>1. Cardinality({j \in DOMAIN s :
                  score[s[j]] > score[s[i]] \/ (score[s[j]] = score[s[i]] /\ j < i)})
            = Cardinality(AllBefore(s, score, i))
        BY <2>2
      <4>2. Cardinality(AllBefore(s, score, i)) = n - 1 <=> rank[i] = n
        BY <2>4
      <4>3. QED BY <4>1, <4>2
    <3> HIDE DEF Right
    <3>2. perm[n] \in DOMAIN s /\ Right(perm[n]) /\ rank[perm[n]] = n
      BY <1>9, <2>1, <3>1
    <3>3. PICK i : i = CHOOSE x \in DOMAIN s : Right(x)
      OBVIOUS
    <3>4. i \in DOMAIN s /\ Right(i)
      BY <3>2, <3>3, Zenon
    <3>5. i = perm[n]
      BY <1>6, <1>9, <2>1, <3>1, <3>4
    <3>6. QED BY <3>3, <3>5, Zenon DEF Right
  <2>6. ByScore(s, score) = [n \in DOMAIN s |-> s[CHOOSE i \in DOMAIN s : Cardinality({j \in DOMAIN s :
                  score[s[j]] > score[s[i]] \/ (score[s[j]] = score[s[i]] /\ j < i)}) = n - 1]]
    BY Zenon DEF ByScore
  <2> HIDE DEF perm
  <2>7. QED BY <2>1, <2>5, <2>6, Zenon
<1>11. \A m, n \in 1..N : m < n => Before(s, score, perm[m], perm[n])
  <2> SUFFICES ASSUME NEW m \in 1..N, NEW n \in 1..N, m < n PROVE Before(s, score, perm[m], perm[n])
    OBVIOUS
  <2>1. perm[m] \in 1..N /\ perm[n] \in 1..N /\ rank[perm[m]] = m /\ rank[perm[n]] = n
    BY <1>9
  <2>2. perm[m] # perm[n]
    BY <2>1
  <2>3. ~Before(s, score, perm[n], perm[m])
    BY <1>4, <2>1
  <2>4. QED BY <1>5, <2>1, <2>2, <2>3
<1>12. \A i \in 1..N : \E n \in 1..N : perm[n] = i
  <2> SUFFICES ASSUME NEW i \in 1..N PROVE \E n \in 1..N : perm[n] = i
    OBVIOUS
  <2>1. rank[i] \in 1..N
    BY <1>3
  <2>2. perm[rank[i]] \in 1..N /\ rank[perm[rank[i]]] = rank[i]
    BY <1>9, <2>1
  <2>3. QED BY <1>6, <2>1, <2>2
<1>13. perm \in [1..N -> 1..N]
  BY <1>9
<1> HIDE DEF perm
<1>14. QED BY <1>10, <1>11, <1>12, <1>13 DEF Sorts

(***************************************************************************)
(* Rankings: sequences without repetitions, and what each step of a search *)
(* keeps of them.                                                          *)
(***************************************************************************)
Distinct(s) == \A i, j \in 1..Len(s) : s[i] = s[j] => i = j

LEMMA ToSetIs ==
    ASSUME NEW R, NEW s \in Seq(R)
    PROVE  /\ Len(s) \in Nat /\ DOMAIN s = 1..Len(s) /\ ToSet(s) \subseteq R
           /\ \A x : x \in ToSet(s) <=> \E i \in 1..Len(s) : s[i] = x
BY DEF ToSet

LEMMA FunctionIsSeq ==
    ASSUME NEW R, NEW n \in Nat, NEW f \in [1..n -> R]
    PROVE  f \in Seq(R) /\ Len(f) = n
OBVIOUS

LEMMA ByScoreKeeps ==
    ASSUME NEW R, NEW s \in Seq(R), NEW score, Scored(s, score)
    PROVE  /\ ByScore(s, score) \in Seq(R) /\ Len(ByScore(s, score)) = Len(s)
           /\ ToSet(ByScore(s, score)) = ToSet(s)
           /\ Distinct(s) => Distinct(ByScore(s, score))
<1> DEFINE t == ByScore(s, score)
<1>1. PICK perm : Sorts(perm, s, score)
  BY ByScoreSorts
<1>2. /\ Len(s) \in Nat /\ perm \in [1..Len(s) -> 1..Len(s)] /\ t = [n \in 1..Len(s) |-> s[perm[n]]]
      /\ \A i \in 1..Len(s) : \E n \in 1..Len(s) : perm[n] = i
  BY <1>1 DEF Sorts
<1> HIDE DEF t
<1>3. t \in Seq(R) /\ Len(t) = Len(s)
  <2>1. ASSUME NEW n \in 1..Len(s) PROVE s[perm[n]] \in R
    <3>1. perm[n] \in 1..Len(s)
      BY <1>2
    <3>2. QED BY <3>1
  <2>2. t \in [1..Len(s) -> R]
    BY <1>2, <2>1
  <2>3. PICK len \in Nat : len = Len(s)
    BY <1>2
  <2>4. t \in [1..len -> R]
    BY <2>2, <2>3
  <2>5. t \in Seq(R) /\ Len(t) = len
    BY <2>4, FunctionIsSeq
  <2>6. QED BY <2>3, <2>5
<1>4. ToSet(t) = ToSet(s)
  <2>1. /\ \A x : x \in ToSet(t) <=> \E i \in 1..Len(s) : t[i] = x
        /\ \A x : x \in ToSet(s) <=> \E i \in 1..Len(s) : s[i] = x
    BY <1>3, ToSetIs
  <2>2. \A n \in 1..Len(s) : perm[n] \in 1..Len(s) /\ t[n] = s[perm[n]]
    BY <1>2
  <2>3. ASSUME NEW x \in ToSet(s) PROVE x \in ToSet(t)
    <3>1. PICK i \in 1..Len(s) : s[i] = x
      BY <2>1, <2>3
    <3>2. PICK n \in 1..Len(s) : perm[n] = i
      BY <1>2, <3>1
    <3>3. QED BY <2>1, <2>2, <3>1, <3>2
  <2>4. ASSUME NEW x \in ToSet(t) PROVE x \in ToSet(s)
    BY <2>1, <2>2, <2>4
  <2>5. QED BY <2>3, <2>4
<1>5. ASSUME Distinct(s) PROVE Distinct(t)
  <2> SUFFICES ASSUME NEW m \in 1..Len(s), NEW n \in 1..Len(s), t[m] = t[n], m < n PROVE FALSE
    BY <1>3 DEF Distinct
  <2>1. s[perm[m]] = s[perm[n]] /\ perm[m] \in 1..Len(s) /\ perm[n] \in 1..Len(s)
    BY <1>2
  <2>2. perm[m] = perm[n]
    BY <1>5, <2>1 DEF Distinct
  <2>3. Before(s, score, perm[m], perm[n])
    BY <1>1 DEF Sorts
  <2>4. QED BY <2>1, <2>2, <2>3 DEF Before, Scored
<1>6. QED BY <1>3, <1>4, <1>5 DEF t

LEMMA FirstNIs ==
    ASSUME NEW R, NEW s \in Seq(R), NEW n \in Nat
    PROVE  /\ FirstN(s, n) \in Seq(R)
           /\ Len(FirstN(s, n)) = IF n < Len(s) THEN n ELSE Len(s)
           /\ \A i \in 1..Len(FirstN(s, n)) : i \in 1..Len(s) /\ FirstN(s, n)[i] = s[i]
           /\ Distinct(s) => Distinct(FirstN(s, n))
           /\ Len(s) <= n => FirstN(s, n) = s
           /\ ToSet(FirstN(s, n)) \subseteq ToSet(s)
<1> DEFINE m == IF n < Len(s) THEN n ELSE Len(s)
           t == SubSeq(s, 1, m)
<1>1. Len(s) \in Nat /\ m \in 0..Len(s) /\ FirstN(s, n) = t
  BY DEF FirstN
<1>2. t \in Seq(R) /\ Len(t) = m /\ \A i \in 1..m : t[i] = s[i]
  <2>1. \A i \in 1..m : s[i] \in R
    BY <1>1
  <2>2. /\ t \in Seq(R) /\ Len(t) = IF 1 <= m THEN m - 1 + 1 ELSE 0
        /\ \A i \in 1..(m - 1 + 1) : t[i] = s[1 + i - 1]
    BY <1>1, <2>1, SubSeqProperties
  <2>3. QED BY <1>1, <2>2
<1>3. Len(s) <= n => t = s
  BY <1>1, <1>2, SubSeqFull
<1> HIDE DEF t
<1>4. ToSet(t) \subseteq ToSet(s)
  <2>1. /\ \A x : x \in ToSet(t) <=> \E i \in 1..m : t[i] = x
        /\ \A x : x \in ToSet(s) <=> \E i \in 1..Len(s) : s[i] = x
    BY <1>2, ToSetIs
  <2>2. \A i \in 1..m : i \in 1..Len(s) /\ t[i] = s[i]
    BY <1>1, <1>2
  <2>3. QED BY <2>1, <2>2
<1>5. QED BY <1>1, <1>2, <1>3, <1>4 DEF Distinct

LEMMA PlacesIs ==
    ASSUME NEW R, NEW s \in Seq(R), NEW keep
    PROVE  /\ Places(s, keep) \in Seq(1..Len(s)) /\ Distinct(Places(s, keep))
           /\ \A m : m \in ToSet(Places(s, keep)) <=> m \in 1..Len(s) /\ m \in keep
           /\ Len(Places(s, keep)) <= Len(s)
<1>1. /\ Places(s, keep) \in Seq(1..Len(s)) /\ Len(Places(s, keep)) \in Nat
      /\ \A i \in 1..Len(Places(s, keep)) :
            Places(s, keep)[i] \in keep /\ Places(s, keep)[i] \in 1..Len(s)
      /\ Increases(Places(s, keep), Len(Places(s, keep)))
      /\ \A m \in 1..Len(s) : m \in keep =>
            \E i \in 1..Len(Places(s, keep)) : Places(s, keep)[i] = m
  BY PlacesSelect
<1> DEFINE p == Places(s, keep)
<1> HIDE DEF p
<1>2. Distinct(p)
  <2> SUFFICES ASSUME NEW i \in 1..Len(p), NEW j \in 1..Len(p), p[i] = p[j], i < j PROVE FALSE
    BY <1>1 DEF Distinct, p
  <2>1. p[i] < p[j] /\ p[i] \in Int
    BY <1>1 DEF Increases, p
  <2>2. QED BY <2>1
<1>3. \A m : m \in ToSet(p) <=> \E i \in 1..Len(p) : p[i] = m
  BY <1>1, ToSetIs DEF p
<1>4. Len(p) <= Len(s)
  <2>1. CASE Len(p) = 0
    BY <2>1
  <2>2. CASE Len(p) # 0
    <3>1. 1 \in 1..Len(p) /\ Len(p) \in 1..Len(p) /\ Len(p) \in Nat /\ Len(s) \in Nat
      BY <1>1, <2>2 DEF p
    <3>2. p \in [1..Len(p) -> 1..Len(s)]
      BY <1>1 DEF p
    <3>3. Increases(p, Len(p))
      BY <1>1 DEF p
    <3>4. \A i, j \in 1..Len(p) : i <= j => j - i <= p[j] - p[i]
      BY <3>1, <3>2, <3>3, Spread
    <3>5. Len(p) - 1 <= p[Len(p)] - p[1]
      BY <3>1, <3>4
    <3>6. QED BY <3>1, <3>2, <3>5
  <2>3. QED BY <2>1, <2>2
<1>5. QED BY <1>1, <1>2, <1>3, <1>4 DEF p

LEMMA UnionIs ==
    ASSUME NEW R, NEW a \in Seq(R), NEW b \in Seq(R)
    PROVE  /\ Union(a, b) \in Seq(R) /\ Len(a) <= Len(Union(a, b))
           /\ \A i \in 1..Len(a) : i \in 1..Len(Union(a, b)) /\ Union(a, b)[i] = a[i]
           /\ \A i \in 1..Len(Union(a, b)) : i > Len(a) => Union(a, b)[i] \notin ToSet(a)
           /\ ToSet(Union(a, b)) = ToSet(a) \cup ToSet(b)
           /\ Distinct(a) /\ Distinct(b) => Distinct(Union(a, b))
<1> DEFINE new == {i \in DOMAIN b : b[i] \notin ToSet(a)}
           c == Chosen(b, new)
           u == Union(a, b)
<1>1. c \in Seq(R) /\ Selects(c, b, new, Len(b))
  BY ChosenSelects
<1>2. u = a \o c
  BY DEF Union
<1> HIDE DEF u, c
<1>3. PICK pos \in [1..Len(c) -> 1..Len(b)] :
            /\ \A i \in 1..Len(c) : pos[i] \in new /\ c[i] = b[pos[i]]
            /\ \A i, j \in 1..Len(c) : i < j => pos[i] < pos[j]
            /\ \A m \in 1..Len(b) : m \in new => \E i \in 1..Len(c) : pos[i] = m
  BY <1>1 DEF Selects
<1>4. Len(a) \in Nat /\ Len(b) \in Nat /\ Len(c) \in Nat /\ DOMAIN b = 1..Len(b)
  BY <1>1, LenProperties
<1>5. /\ u \in Seq(R) /\ Len(u) = Len(a) + Len(c)
      /\ \A i \in 1..(Len(a) + Len(c)) : u[i] = IF i <= Len(a) THEN a[i] ELSE c[i - Len(a)]
  BY <1>1, <1>2, ConcatProperties
<1>6. \A i \in 1..Len(a) : i \in 1..Len(u) /\ u[i] = a[i]
  BY <1>4, <1>5
<1>7. \A i \in 1..Len(c) : Len(a) + i \in 1..Len(u) /\ u[Len(a) + i] = c[i]
  BY <1>4, <1>5
<1>8. \A i \in 1..Len(u) : i > Len(a) => i - Len(a) \in 1..Len(c) /\ u[i] = c[i - Len(a)]
  BY <1>4, <1>5
<1>9. \A i \in 1..Len(c) : c[i] \notin ToSet(a) /\ c[i] = b[pos[i]] /\ pos[i] \in 1..Len(b)
  BY <1>3
<1>10. \A i \in 1..Len(u) : i > Len(a) => u[i] \notin ToSet(a)
  BY <1>8, <1>9
<1> HIDE DEF new
<1>11. ToSet(u) = ToSet(a) \cup ToSet(b)
  <2>1. /\ \A x : x \in ToSet(u) <=> \E i \in 1..Len(u) : u[i] = x
        /\ \A x : x \in ToSet(a) <=> \E i \in 1..Len(a) : a[i] = x
        /\ \A x : x \in ToSet(b) <=> \E i \in 1..Len(b) : b[i] = x
    BY <1>5, ToSetIs
  <2>2. ASSUME NEW x \in ToSet(u) PROVE x \in ToSet(a) \cup ToSet(b)
    <3>1. PICK i \in 1..Len(u) : u[i] = x
      BY <2>1, <2>2
    <3>2. CASE i <= Len(a)
      <4>1. i \in 1..Len(a)
        BY <1>4, <1>5, <3>2
      <4>2. a[i] = x
        BY <1>4, <1>5, <3>1, <3>2
      <4>3. QED BY <2>1, <4>1, <4>2
    <3>3. CASE i > Len(a)
      <4>1. PICK m : m = i - Len(a)
        OBVIOUS
      <4>2. m \in 1..Len(c) /\ u[i] = c[m]
        BY <1>8, <3>1, <3>3, <4>1
      <4>3. c[m] = b[pos[m]] /\ pos[m] \in 1..Len(b)
        BY <1>9, <4>2
      <4>4. QED BY <2>1, <3>1, <4>2, <4>3
    <3>4. QED BY <1>4, <1>5, <3>2, <3>3
  <2>3. ToSet(a) \subseteq ToSet(u)
    BY <1>6, <2>1
  <2>4. ASSUME NEW x \in ToSet(b), x \notin ToSet(a) PROVE x \in ToSet(u)
    <3>1. PICK m \in 1..Len(b) : b[m] = x
      BY <2>1, <2>4
    <3>2. m \in new
      BY <1>4, <2>4, <3>1 DEF new
    <3>3. PICK i \in 1..Len(c) : pos[i] = m
      BY <1>3, <3>2
    <3>4. c[i] = x
      BY <1>9, <3>1, <3>3
    <3>5. QED BY <1>7, <2>1, <3>4
  <2>5. QED BY <2>2, <2>3, <2>4
<1>12. ASSUME Distinct(a), Distinct(b) PROVE Distinct(u)
  <2> SUFFICES ASSUME NEW i \in 1..Len(u), NEW j \in 1..Len(u), i < j PROVE u[i] # u[j]
    BY <1>5 DEF Distinct
  <2>1. CASE j <= Len(a)
    BY <1>4, <1>5, <1>12, <2>1 DEF Distinct
  <2>2. CASE i <= Len(a) /\ j > Len(a)
    <3>1. u[i] \in ToSet(a)
      BY <1>4, <1>5, <2>2, ToSetIs
    <3>2. QED BY <1>10, <2>2, <3>1
  <2>3. CASE i > Len(a)
    <3>1. PICK m, n : m = i - Len(a) /\ n = j - Len(a)
      OBVIOUS
    <3>2. m \in 1..Len(c) /\ n \in 1..Len(c) /\ m < n /\ u[i] = c[m] /\ u[j] = c[n]
      BY <1>4, <1>5, <1>8, <2>3, <3>1
    <3>3. pos[m] < pos[n] /\ pos[m] \in 1..Len(b) /\ pos[n] \in 1..Len(b)
      BY <1>3, <3>2
    <3>4. c[m] = b[pos[m]] /\ c[n] = b[pos[n]]
      BY <1>9, <3>2
    <3>5. pos[m] # pos[n]
      BY <3>3
    <3>6. QED BY <1>12, <3>2, <3>3, <3>4, <3>5 DEF Distinct
  <2>4. QED BY <1>4, <1>5, <2>1, <2>2, <2>3
<1>13. QED BY <1>4, <1>5, <1>6, <1>10, <1>11, <1>12 DEF u

-----------------------------------------------------------------------------
(* What the searches read.                                                 *)
RowType == [doc : Docs, content : Contents, index : Nat]

LEMMA RowsAre ==
    ASSUME NEW rs \in Seq(RowType), NEW i \in 1..Len(rs)
    PROVE  /\ rs[i] \in RowType /\ rs[i].doc \in Docs /\ rs[i].content \in Contents /\ rs[i].index \in Nat
           /\ \A q \in Queries : IsList(rs[i].content) /\ Similarity(q, rs[i].content) \in Int
<1>1. rs[i] \in RowType
  OBVIOUS
<1>2. rs[i].doc \in Docs /\ rs[i].content \in Contents /\ rs[i].index \in Nat
  BY <1>1 DEF RowType
<1>3. QED BY <1>1, <1>2, SimilarityAssumption

LEMMA LargerIs == \A a, b \in Nat : Larger(a, b) \in Nat /\ a <= Larger(a, b) /\ b <= Larger(a, b)
BY DEF Larger

LEMMA RecalledIs ==
    ASSUME NEW k \in Nat
    PROVE  Recalled(k) \in Nat /\ RecalledPerQuery(k) \in Nat /\ RecalledPerQuery(k) <= Recalled(k)
<1>1. MinRecall \in Nat
  BY DocumentsAssumption
<1>2. PICK half : half = MinRecall \div 2
  OBVIOUS
<1>3. half \in Nat /\ half <= MinRecall
  BY <1>1, <1>2
<1>4. QED BY <1>1, <1>2, <1>3 DEF Recalled, RecalledPerQuery, Larger

LEMMA AsNearFinite ==
    ASSUME rows \in Seq(RowType), NEW q, NEW i
    PROVE  IsFiniteSet(AsNear(q, i)) /\ Cardinality(AsNear(q, i)) \in Nat
<1>1. Len(rows) \in Nat /\ DOMAIN rows = 1..Len(rows)
  OBVIOUS
<1>2. IsFiniteSet(1..Len(rows)) /\ AsNear(q, i) \subseteq 1..Len(rows)
  BY <1>1, NumbersFinite DEF AsNear
<1>3. IsFiniteSet(AsNear(q, i))
  BY <1>2, FS_Subset
<1>4. QED BY <1>3, FS_CardinalityType

(* A row near to a query is found, overlooked, or as many as the search    *)
(* takes are at least as near.                                             *)
LEMMA VectorSearchIs ==
    ASSUME rows \in Seq(RowType), NEW q \in Queries, NEW limit \in Nat, NEW missed
    PROVE  /\ VectorSearch(q, limit, missed) \in Seq(1..Len(rows)) /\ Distinct(VectorSearch(q, limit, missed))
           /\ Len(VectorSearch(q, limit, missed)) <= limit
           /\ \A i \in Near(q) \ missed :
                i \in ToSet(VectorSearch(q, limit, missed)) \/ Cardinality(AsNear(q, i)) >= limit
<1> DEFINE sim == [i \in DOMAIN rows |-> Similarity(q, rows[i].content)]
           near == Near(q) \ missed
           found == Places(rows, near)
           sorted == ByScore(found, sim)
<1>1. DOMAIN rows = 1..Len(rows) /\ Len(rows) \in Nat
  OBVIOUS
<1>2. \A i \in 1..Len(rows) : sim[i] = Similarity(q, rows[i].content) /\ sim[i] \in Int
  BY <1>1, RowsAre
<1>3. \A i \in near : i \in 1..Len(rows)
  BY <1>1 DEF Near
<1>4. VectorSearch(q, limit, missed) = FirstN(sorted, limit)
  BY Zenon DEF VectorSearch
<1> HIDE DEF sim, near
<1>5. /\ found \in Seq(1..Len(rows)) /\ Distinct(found) /\ Len(found) <= Len(rows)
      /\ \A m : m \in ToSet(found) <=> m \in 1..Len(rows) /\ m \in near
  BY PlacesIs
<1> HIDE DEF found
<1>6. Scored(found, sim)
  BY <1>2, <1>5 DEF Scored
<1>7. /\ sorted \in Seq(1..Len(rows)) /\ Distinct(sorted) /\ ToSet(sorted) = ToSet(found)
      /\ \A m, n \in 1..Len(sorted) : m < n => sim[sorted[m]] >= sim[sorted[n]]
  <2>1. /\ sorted \in Seq(1..Len(rows)) /\ Distinct(sorted) /\ ToSet(sorted) = ToSet(found)
        /\ Len(sorted) = Len(found)
    BY <1>5, <1>6, ByScoreKeeps
  <2>2. PICK perm : Sorts(perm, found, sim)
    BY <1>5, <1>6, ByScoreSorts
  <2>3. \A n \in 1..Len(found) : perm[n] \in 1..Len(found) /\ sorted[n] = found[perm[n]]
    BY <2>2 DEF Sorts
  <2> HIDE DEF sorted
  <2>4. ASSUME NEW m \in 1..Len(found), NEW n \in 1..Len(found), m < n
        PROVE  sim[sorted[m]] >= sim[sorted[n]]
    <3>1. Before(found, sim, perm[m], perm[n])
      BY <2>2, <2>4 DEF Sorts
    <3>2. PICK a \in 1..Len(found), b \in 1..Len(found) : a = perm[m] /\ b = perm[n]
      BY <2>3
    <3>3. PICK x, y : x = sim[found[a]] /\ y = sim[found[b]]
      OBVIOUS
    <3>4. x \in Int /\ y \in Int
      BY <1>6, <3>3 DEF Scored
    <3>5. x > y \/ x = y
      BY <3>1, <3>2, <3>3 DEF Before
    <3>6. sorted[m] = found[a] /\ sorted[n] = found[b]
      BY <2>3, <3>2
    <3>7. x >= y
      BY <3>4, <3>5
    <3>8. QED BY <3>3, <3>6, <3>7
  <2>5. QED BY <2>1, <2>4
<1> DEFINE t == FirstN(sorted, limit)
<1> HIDE DEF sorted
<1>8. /\ t \in Seq(1..Len(rows)) /\ Distinct(t)
      /\ Len(t) = IF limit < Len(sorted) THEN limit ELSE Len(sorted)
      /\ \A n \in 1..Len(t) : n \in 1..Len(sorted) /\ t[n] = sorted[n]
  BY <1>7, FirstNIs
<1> HIDE DEF t
<1>9. ASSUME NEW i \in near, i \notin ToSet(t) PROVE Cardinality(AsNear(q, i)) >= limit
  <2>1. Len(sorted) \in Nat /\ Len(t) \in Nat /\ i \in 1..Len(rows)
    BY <1>3, <1>7, <1>8, <1>9
  <2>2. PICK n \in 1..Len(sorted) : sorted[n] = i
    <3>1. i \in ToSet(sorted)
      BY <1>5, <1>7, <1>9, <2>1
    <3>2. QED BY <1>7, <3>1, ToSetIs
  <2>3. limit < n /\ Len(t) = limit
    <3>1. n \notin 1..Len(t)
      <4>1. \A m \in 1..Len(t) : t[m] \in ToSet(t)
        BY <1>8, ToSetIs
      <4>2. QED BY <1>8, <1>9, <2>2, <4>1
    <3>2. QED BY <1>8, <2>1, <2>2, <3>1
  <2>4. \A m \in 1..limit : t[m] \in AsNear(q, i)
    <3> SUFFICES ASSUME NEW m \in 1..limit PROVE t[m] \in AsNear(q, i)
      OBVIOUS
    <3>1. m \in 1..Len(sorted) /\ m < n /\ t[m] = sorted[m] /\ t[m] \in 1..Len(rows)
      BY <1>8, <2>1, <2>3
    <3>2. t[m] # i
      BY <1>7, <2>2, <3>1 DEF Distinct
    <3>3. sim[t[m]] >= sim[i]
      BY <1>7, <2>2, <3>1
    <3>4. Similarity(q, rows[t[m]].content) >= Similarity(q, rows[i].content)
      BY <1>2, <2>1, <3>1, <3>3
    <3>5. QED BY <1>1, <3>1, <3>2, <3>4 DEF AsNear
  <2>5. t \in [1..limit -> AsNear(q, i)]
    BY <1>8, <2>3, <2>4
  <2>6. t \in Injection(1..limit, AsNear(q, i))
    BY <1>8, <2>3, <2>5 DEF Injection, IsInjective, Distinct
  <2>7. Cardinality(1..limit) = limit
    BY NumbersFinite
  <2>8. IsFiniteSet(AsNear(q, i)) /\ Cardinality(AsNear(q, i)) \in Nat
    BY AsNearFinite
  <2>9. Cardinality(1..limit) <= Cardinality(AsNear(q, i))
    BY <2>6, <2>8, FS_Injection
  <2>10. QED BY <2>7, <2>8, <2>9
<1>10. Len(t) <= limit
  BY <1>7, <1>8
<1>11. QED BY <1>4, <1>8, <1>9, <1>10 DEF t, near

LEMMA TokensFinite == ASSUME NEW c, IsList(c) PROVE IsFiniteSet(Tokens(c))
<1> DEFINE letters == {c[i] : i \in DOMAIN c}
<1>1. IsFiniteSet(DOMAIN c)
  BY NumbersFinite DEF IsList
<1>2. IsFiniteSet(letters)
  BY <1>1, ImageFinite
<1>3. Tokens(c) \subseteq letters
  BY DEF Tokens
<1> HIDE DEF letters
<1>4. QED BY <1>2, <1>3, FS_Subset

LEMMA Quotient ==
    ASSUME NEW a \in Nat, NEW b \in Nat \ {0}
    PROVE  a \div b \in Nat
OBVIOUS

LEMMA JaccardIs ==
    ASSUME NEW a, NEW b, IsFiniteSet(a), IsFiniteSet(b), a \cap b # {}
    PROVE  Jaccard(a, b) \in Int
<1>1. IsFiniteSet(a \cup b)
  BY FS_Union
<1>2. IsFiniteSet(a \cap b)
  BY FS_Subset
<1>3. Cardinality(a \cup b) # 0
  BY <1>1, FS_EmptySet
<1>4. Cardinality(a \cup b) \in Nat \ {0} /\ Cardinality(a \cap b) \in Nat
  BY <1>1, <1>2, <1>3, FS_CardinalityType
<1>5. 60 * Cardinality(a \cap b) \in Nat
  BY <1>4
<1>6. QED BY <1>4, <1>5, Quotient DEF Jaccard

LEMMA SparseSearchIs ==
    ASSUME rows \in Seq(RowType), NEW q \in Queries, NEW limit \in Nat
    PROVE  SparseSearch(q, limit) \in Seq(1..Len(rows)) /\ Distinct(SparseSearch(q, limit))
<1> DEFINE shared == {i \in DOMAIN rows : Tokens(q) \cap Tokens(rows[i].content) # {}}
           found == Places(rows, shared)
           wide == Larger(4 * limit, MinRecall)
           window == FirstN(found, wide)
           score == [i \in shared |-> Jaccard(Tokens(q), Tokens(rows[i].content))]
           sorted == ByScore(window, score)
<1>1. \A i \in shared : score[i] \in Int
  <2> SUFFICES ASSUME NEW i \in shared PROVE Jaccard(Tokens(q), Tokens(rows[i].content)) \in Int
    OBVIOUS
  <2>1. IsList(rows[i].content)
    BY RowsAre
  <2>2. IsList(q)
    BY Zenon, DocumentsAssumption
  <2>3. IsFiniteSet(Tokens(q)) /\ IsFiniteSet(Tokens(rows[i].content))
    BY <2>1, <2>2, TokensFinite
  <2>4. QED BY <2>3, JaccardIs
<1>2. SparseSearch(q, limit) = FirstN(sorted, limit)
  BY Zenon DEF SparseSearch
<1> HIDE DEF shared, score
<1>3. /\ found \in Seq(1..Len(rows)) /\ Distinct(found)
      /\ \A m : m \in ToSet(found) <=> m \in 1..Len(rows) /\ m \in shared
  BY PlacesIs
<1> HIDE DEF found
<1>4. wide \in Nat
  <2>1. MinRecall \in Nat
    BY DocumentsAssumption
  <2>2. QED BY <2>1 DEF Larger
<1> HIDE DEF wide
<1>5. /\ window \in Seq(1..Len(rows)) /\ Distinct(window)
      /\ \A i \in 1..Len(window) : i \in 1..Len(found) /\ window[i] = found[i]
  BY <1>3, <1>4, FirstNIs
<1> HIDE DEF window
<1>6. Scored(window, score)
  <2>1. \A i \in 1..Len(window) : window[i] \in shared
    BY <1>3, <1>5, ToSetIs
  <2>2. QED BY <1>1, <2>1 DEF Scored
<1>7. sorted \in Seq(1..Len(rows)) /\ Distinct(sorted)
  BY <1>5, <1>6, ByScoreKeeps
<1> HIDE DEF sorted
<1>8. QED BY <1>2, <1>7, FirstNIs

LEMMA DistinctShort ==
    ASSUME NEW n \in Nat, NEW s \in Seq(1..n), Distinct(s)
    PROVE  Len(s) <= n
<1>1. Len(s) \in Nat /\ s \in [1..Len(s) -> 1..n]
  OBVIOUS
<1>2. s \in Injection(1..Len(s), 1..n)
  BY <1>1 DEF Injection, IsInjective, Distinct
<1>3. IsFiniteSet(1..n) /\ Cardinality(1..n) = n /\ Cardinality(1..Len(s)) = Len(s)
  BY <1>1, NumbersFinite
<1>4. Cardinality(1..Len(s)) <= Cardinality(1..n)
  BY <1>2, <1>3, FS_Injection
<1>5. QED BY <1>3, <1>4

LEMMA DistinctWithin ==
    ASSUME NEW R, NEW s \in Seq(R), NEW t \in Seq(R), Distinct(s), ToSet(s) \subseteq ToSet(t)
    PROVE  Len(s) <= Len(t)
<1> DEFINE place == [n \in 1..Len(s) |-> CHOOSE m \in 1..Len(t) : t[m] = s[n]]
<1>1. Len(s) \in Nat /\ Len(t) \in Nat
  OBVIOUS
<1>2. \A n \in 1..Len(s) : \E m \in 1..Len(t) : t[m] = s[n]
  <2>1. \A n \in 1..Len(s) : s[n] \in ToSet(t)
    BY ToSetIs
  <2>2. QED BY <2>1, ToSetIs
<1>3. \A n \in 1..Len(s) : place[n] \in 1..Len(t) /\ t[place[n]] = s[n]
  BY <1>2
<1>4. place \in [1..Len(s) -> 1..Len(t)]
  BY <1>3
<1> HIDE DEF place
<1>5. place \in Injection(1..Len(s), 1..Len(t))
  BY <1>3, <1>4 DEF Injection, IsInjective, Distinct
<1>6. IsFiniteSet(1..Len(t)) /\ Cardinality(1..Len(t)) = Len(t) /\ Cardinality(1..Len(s)) = Len(s)
  BY <1>1, NumbersFinite
<1>7. Cardinality(1..Len(s)) <= Cardinality(1..Len(t))
  BY <1>5, <1>6, FS_Injection
<1>8. QED BY <1>6, <1>7

-----------------------------------------------------------------------------
(* Fusion: what is further down a list has no larger share of it.          *)
LEMMA TimesGrows == \A m, n, p \in Nat : m <= n => m * p <= n * p
<1> SUFFICES ASSUME NEW m \in Nat, NEW n \in Nat, NEW p \in Nat, m <= n PROVE m * p <= n * p
  OBVIOUS
<1>1. PICK d \in Nat : n = m + d
  <2>1. n - m \in Nat /\ n = m + (n - m)
    OBVIOUS
  <2>2. QED BY <2>1
<1>2. n * p = m * p + d * p
  BY <1>1
<1>3. d * p \in Nat /\ m * p \in Nat
  BY <1>1
<1>4. QED BY <1>2, <1>3

LEMMA QuotientBounds ==
    ASSUME NEW a \in Nat, NEW b \in Nat \ {0}
    PROVE  a \div b \in Nat /\ b * (a \div b) <= a /\ a < b * (a \div b) + b
OBVIOUS

LEMMA QuotientFalls ==
    ASSUME NEW a \in Nat, NEW b \in Nat \ {0}, NEW c \in Nat \ {0}, b <= c
    PROVE  a \div c <= a \div b
<1>1. PICK q : q = a \div c
  OBVIOUS
<1>2. PICK r : r = a \div b
  OBVIOUS
<1>3. q \in Nat /\ c * q <= a
  BY <1>1, QuotientBounds
<1>4. r \in Nat /\ a < b * r + b
  BY <1>2, QuotientBounds
<1>5. b * q <= c * q
  BY <1>3, TimesGrows
<1>6. ASSUME r < q PROVE FALSE
  <2>1. (r + 1) * b <= q * b
    BY <1>3, <1>4, <1>6, TimesGrows
  <2>2. (r + 1) * b = b * r + b /\ q * b = b * q /\ b * r \in Nat /\ b * q \in Nat /\ c * q \in Nat
    BY <1>3, <1>4
  <2>3. QED BY <1>3, <1>4, <1>5, <2>1, <2>2
<1>7. QED BY <1>1, <1>2, <1>3, <1>4, <1>6

LEMMA ScaleIs == Scale \in Nat
BY DEF Scale, RrfK

LEMMA ShareIs ==
    ASSUME NEW R, NEW s \in Seq(R), Distinct(s)
    PROVE  /\ \A c : c \notin ToSet(s) => Share(s, c) = 0
           /\ \A i \in 1..Len(s) : Share(s, s[i]) = Scale \div (59 + i)
           /\ \A c : Share(s, c) \in Nat
<1>1. ASSUME NEW c, c \notin ToSet(s) PROVE Share(s, c) = 0
  BY <1>1 DEF Share
<1>2. ASSUME NEW i \in 1..Len(s) PROVE Share(s, s[i]) = Scale \div (59 + i)
  <2>1. DOMAIN s = 1..Len(s) /\ Len(s) \in Nat
    OBVIOUS
  <2>2. s[i] \in ToSet(s)
    BY ToSetIs
  <2>3. PICK j : j = CHOOSE x \in DOMAIN s : s[x] = s[i]
    OBVIOUS
  <2>4. j \in DOMAIN s /\ s[j] = s[i]
    BY <2>1, <2>3, Zenon
  <2>5. j = i
    BY <2>1, <2>4 DEF Distinct
  <2>6. Share(s, s[i]) = Scale \div (RrfK + j - 1)
    BY <2>2, <2>3, Zenon DEF Share
  <2>7. RrfK + j - 1 = 59 + i
    BY <2>1, <2>5 DEF RrfK
  <2>8. QED BY <2>6, <2>7
<1>3. ASSUME NEW c PROVE Share(s, c) \in Nat
  <2>1. CASE c \notin ToSet(s)
    BY <1>1, <2>1
  <2>2. CASE c \in ToSet(s)
    <3>1. PICK i \in 1..Len(s) : s[i] = c
      BY <2>2, ToSetIs
    <3>2. Share(s, c) = Scale \div (59 + i) /\ 59 + i \in Nat \ {0}
      BY <1>2, <3>1
    <3>3. QED BY <3>2, ScaleIs, Quotient
  <2>3. QED BY <2>1, <2>2
<1>4. QED BY <1>1, <1>2, <1>3

LEMMA ShareFalls ==
    ASSUME NEW R, NEW s \in Seq(R), Distinct(s), NEW a, NEW b, Ahead(s, a, b)
    PROVE  Share(s, b) <= Share(s, a)
<1>1. CASE b \notin ToSet(s)
  <2>1. Share(s, b) = 0 /\ Share(s, a) \in Nat
    BY <1>1, ShareIs
  <2>2. QED BY <2>1
<1>2. CASE b \in ToSet(s)
  <2>1. PICK i, j \in DOMAIN s : i < j /\ s[i] = a /\ s[j] = b
    BY <1>2 DEF Ahead
  <2>2. i \in 1..Len(s) /\ j \in 1..Len(s) /\ Len(s) \in Nat
    BY <2>1
  <2>3. Share(s, a) = Scale \div (59 + i) /\ Share(s, b) = Scale \div (59 + j)
    BY <2>1, <2>2, ShareIs
  <2>4. PICK x, y : x = 59 + i /\ y = 59 + j
    OBVIOUS
  <2>5. x \in Nat \ {0} /\ y \in Nat \ {0} /\ x <= y
    BY <2>1, <2>2, <2>4
  <2>6. Scale \div y <= Scale \div x
    BY <2>5, ScaleIs, QuotientFalls
  <2>7. QED BY <2>3, <2>4, <2>6
<1>3. QED BY <1>1, <1>2

LEMMA FusionDominates ==
    ASSUME NEW R, NEW dense \in Seq(R), NEW sparse \in Seq(R), Distinct(dense), Distinct(sparse),
           NEW k \in Nat, NEW a, NEW b, Ahead(dense, a, b), Ahead(sparse, a, b),
           b \in ToSet(FirstN(Fused(dense, sparse), k))
    PROVE  Ahead(FirstN(Fused(dense, sparse), k), a, b)
<1> DEFINE u == Union(dense, sparse)
           score == [c \in ToSet(u) |-> Share(dense, c) + Share(sparse, c)]
           all == Fused(dense, sparse)
           top == FirstN(all, k)
<1>1. /\ u \in Seq(R) /\ Len(dense) <= Len(u) /\ Distinct(u)
      /\ \A i \in 1..Len(dense) : i \in 1..Len(u) /\ u[i] = dense[i]
      /\ \A i \in 1..Len(u) : i > Len(dense) => u[i] \notin ToSet(dense)
  BY UnionIs
<1>2. all = ByScore(u, score)
  BY Zenon DEF Fused
<1> HIDE DEF u, all
<1>3. \A c \in ToSet(u) : score[c] = Share(dense, c) + Share(sparse, c) /\ score[c] \in Nat
  <2>1. \A c : Share(dense, c) \in Nat /\ Share(sparse, c) \in Nat
    BY ShareIs
  <2>2. QED BY <2>1
<1> HIDE DEF score
<1>4. Len(u) \in Nat /\ \A i \in 1..Len(u) : u[i] \in ToSet(u)
  BY <1>1, ToSetIs
<1>5. Scored(u, score)
  BY <1>3, <1>4 DEF Scored
<1>6. PICK perm : Sorts(perm, u, score)
  BY <1>1, <1>5, ByScoreSorts
<1>7. /\ all \in Seq(R) /\ Len(all) = Len(u) /\ Distinct(all)
  BY <1>1, <1>2, <1>5, ByScoreKeeps
<1>8. /\ top \in Seq(R) /\ Len(top) = IF k < Len(all) THEN k ELSE Len(all)
      /\ \A i \in 1..Len(top) : i \in 1..Len(all) /\ top[i] = all[i]
  BY <1>7, FirstNIs
<1> HIDE DEF top
<1>9. PICK n \in 1..Len(top) : top[n] = b
  <2>1. b \in ToSet(top)
    BY DEF top, all
  <2>2. QED BY <1>8, <2>1, ToSetIs
<1>10. n \in 1..Len(u) /\ perm[n] \in 1..Len(u) /\ u[perm[n]] = b
  BY <1>2, <1>6, <1>7, <1>8, <1>9 DEF Sorts
<1>11. PICK x \in 1..Len(u) : u[x] = a /\ Before(u, score, x, perm[n])
  <2>1. PICK x \in 1..Len(dense) : dense[x] = a /\ (perm[n] <= Len(dense) => x < perm[n])
    <3>1. CASE b \in ToSet(dense)
      <4>1. PICK i, j \in DOMAIN dense : i < j /\ dense[i] = a /\ dense[j] = b
        BY <3>1 DEF Ahead
      <4>2. i \in 1..Len(dense) /\ j \in 1..Len(dense)
        BY <4>1
      <4>3. u[j] = b /\ j \in 1..Len(u)
        BY <1>1, <4>1, <4>2
      <4>4. j = perm[n]
        BY <1>1, <1>10, <4>3 DEF Distinct
      <4>5. QED BY <4>1, <4>2, <4>4
    <3>2. CASE b \notin ToSet(dense)
      <4>1. PICK i \in 1..Len(dense) : dense[i] = a
        BY ToSetIs DEF Ahead
      <4>2. ASSUME perm[n] <= Len(dense) PROVE FALSE
        <5>1. perm[n] \in 1..Len(dense)
          BY <1>4, <1>10, <4>2
        <5>2. dense[perm[n]] = b
          BY <1>1, <1>10, <5>1
        <5>3. QED BY <3>2, <5>1, <5>2, ToSetIs
      <4>3. QED BY <4>1, <4>2
    <3>3. QED BY <3>1, <3>2
  <2>2. x \in 1..Len(u) /\ u[x] = a /\ x < perm[n]
    <3>1. Len(dense) \in Nat /\ x \in Nat /\ perm[n] \in Nat
      BY <1>10
    <3>2. QED BY <1>1, <2>1, <3>1
  <2>3. score[b] <= score[a] /\ score[a] \in Nat /\ score[b] \in Nat
    <3>1. Share(dense, b) <= Share(dense, a) /\ Share(sparse, b) <= Share(sparse, a)
      BY ShareFalls
    <3>2. /\ Share(dense, b) \in Nat /\ Share(dense, a) \in Nat
          /\ Share(sparse, b) \in Nat /\ Share(sparse, a) \in Nat
      BY ShareIs
    <3>3. a \in ToSet(u) /\ b \in ToSet(u)
      BY <1>4, <1>10, <2>2
    <3>4. /\ score[a] = Share(dense, a) + Share(sparse, a)
          /\ score[b] = Share(dense, b) + Share(sparse, b)
      BY <1>3, <3>3
    <3>5. PICK da \in Nat, db \in Nat, sa \in Nat, sb \in Nat :
            /\ da = Share(dense, a) /\ db = Share(dense, b)
            /\ sa = Share(sparse, a) /\ sb = Share(sparse, b)
      BY <3>2
    <3>6. score[a] = da + sa /\ score[b] = db + sb /\ db <= da /\ sb <= sa
      BY <3>1, <3>4, <3>5
    <3>7. QED BY <3>6
  <2>4. QED BY <1>10, <2>2, <2>3 DEF Before
<1>12. PICK m \in 1..Len(u) : perm[m] = x
  BY <1>6 DEF Sorts
<1>13. m < n
  <2>1. ~Before(u, score, perm[n], perm[m])
    BY <1>4, <1>5, <1>10, <1>11, <1>12 DEF Before, Scored
  <2>2. ~(n < m)
    <3>1. \A i, j \in 1..Len(u) : i < j => Before(u, score, perm[i], perm[j])
      BY <1>6 DEF Sorts
    <3>2. n \in 1..Len(u) /\ m \in 1..Len(u)
      BY <1>10
    <3>3. QED BY <2>1, <3>1, <3>2
  <2>3. n # m
    BY <1>4, <1>5, <1>10, <1>11, <1>12 DEF Before, Scored
  <2>4. QED BY <1>4, <1>10, <2>2, <2>3
<1>14. m \in 1..Len(top) /\ top[m] = a
  <2>1. m \in 1..Len(top)
    BY <1>4, <1>7, <1>8, <1>9, <1>13
  <2>2. all[m] = u[perm[m]]
    BY <1>2, <1>6, <1>12 DEF Sorts
  <2>3. QED BY <1>8, <1>11, <1>12, <2>1, <2>2
<1>15. a \in ToSet(top) /\ m \in DOMAIN top /\ n \in DOMAIN top
  BY <1>8, <1>9, <1>14, ToSetIs
<1>16. Ahead(top, a, b)
  BY <1>9, <1>13, <1>14, <1>15 DEF Ahead
<1>17. QED BY <1>16 DEF top, all

-----------------------------------------------------------------------------
(* What a reranker leaves.                                                 *)
LEMMA ChosenIs ==
    ASSUME NEW R, NEW s \in Seq(R), NEW keep
    PROVE  /\ Chosen(s, keep) \in Seq(R)
           /\ \A i \in 1..Len(Chosen(s, keep)) : \E m \in 1..Len(s) : m \in keep /\ Chosen(s, keep)[i] = s[m]
           /\ \A m \in 1..Len(s) : m \in keep => \E i \in 1..Len(Chosen(s, keep)) : Chosen(s, keep)[i] = s[m]
<1>1. Chosen(s, keep) \in Seq(R) /\ Selects(Chosen(s, keep), s, keep, Len(s))
  BY ChosenSelects
<1> DEFINE c == Chosen(s, keep)
<1> HIDE DEF c
<1>2. PICK pos \in [1..Len(c) -> 1..Len(s)] :
            /\ \A i \in 1..Len(c) : pos[i] \in keep /\ c[i] = s[pos[i]]
            /\ \A m \in 1..Len(s) : m \in keep => \E i \in 1..Len(c) : pos[i] = m
  BY <1>1 DEF Selects, c
<1>3. \A i \in 1..Len(c) : pos[i] \in 1..Len(s) /\ pos[i] \in keep /\ c[i] = s[pos[i]]
  BY <1>2
<1>4. ASSUME NEW m \in 1..Len(s), m \in keep PROVE \E i \in 1..Len(c) : c[i] = s[m]
  BY <1>2, <1>3, <1>4
<1>5. QED BY <1>1, <1>3, <1>4 DEF c

LEMMA RerankIs ==
    ASSUME NEW R, NEW s \in Seq(R), NEW score, \A c \in ToSet(s) : score[c] \in Int
    PROVE  /\ RerankLLM(s, score) \in Seq(R)
           /\ (\A c \in ToSet(s) : score[c] = NoScore) => RerankLLM(s, score) = <<>>
<1> DEFINE keep == {i \in DOMAIN s : score[s[i]] # NoScore}
           heard == Chosen(s, keep)
<1>1. DOMAIN s = 1..Len(s) /\ \A i \in 1..Len(s) : s[i] \in ToSet(s)
  BY ToSetIs
<1>2. (\A c \in ToSet(s) : score[c] = NoScore) => keep = {}
  BY <1>1
<1>3. RerankLLM(s, score) = ByScore(heard, score)
  BY Zenon DEF RerankLLM
<1> HIDE DEF keep
<1>4. heard \in Seq(R) /\ \A i \in 1..Len(heard) : \E m \in 1..Len(s) : m \in keep /\ heard[i] = s[m]
  BY ChosenIs
<1> HIDE DEF heard
<1>5. Scored(heard, score)
  BY <1>1, <1>4 DEF Scored
<1>6. ByScore(heard, score) \in Seq(R) /\ Len(ByScore(heard, score)) = Len(heard)
  BY <1>4, <1>5, ByScoreKeeps
<1>7. ASSUME keep = {} PROVE ByScore(heard, score) = <<>>
  <2>1. Len(heard) \in Nat
    BY <1>4
  <2>2. Len(heard) = 0
    BY <1>4, <1>7, <2>1
  <2>3. QED BY <1>6, <2>2, EmptySeq
<1>8. QED BY <1>2, <1>3, <1>6, <1>7

LEMMA RerankedIs ==
    ASSUME NEW R, NEW s \in Seq(R), NEW k \in Nat, NEW score, NEW sim,
           \A c \in ToSet(s) : score[c] \in Int, \A c \in ToSet(s) : sim[c] \in Int
    PROVE  /\ RerankedBy(s, score, k, sim) \in Seq(R)
           /\ (\A c \in ToSet(s) : score[c] = NoScore) =>
                Len(RerankedBy(s, score, k, sim)) = Len(FirstN(s, k))
<1>1. /\ RerankLLM(s, score) \in Seq(R)
      /\ (\A c \in ToSet(s) : score[c] = NoScore) => RerankLLM(s, score) = <<>>
  BY RerankIs
<1>2. Scored(s, sim)
  BY ToSetIs DEF Scored
<1>3. ByScore(s, sim) \in Seq(R) /\ Len(ByScore(s, sim)) = Len(s)
  BY <1>2, ByScoreKeeps
<1>4. FirstN(ByScore(s, sim), k) \in Seq(R) /\ Len(FirstN(ByScore(s, sim), k)) = Len(FirstN(s, k))
  BY <1>3, FirstNIs
<1>5. FirstN(RerankLLM(s, score), k) \in Seq(R)
  BY <1>1, FirstNIs
<1>6. Floored(FirstN(RerankLLM(s, score), k), score) \in Seq(R)
  BY <1>5, ChosenIs DEF Floored
<1>7. QED BY <1>1, <1>4, <1>6 DEF RerankedBy

LEMMA ZoneIs ==
    ASSUME search.dense \in Seq(Nat), NEW cross \in BOOLEAN
    PROVE  /\ Zone(cross) \in Seq(Nat) /\ ToSet(Zone(cross)) \subseteq ToSet(search.dense)
           /\ SubSeq(search.dense, ZoneSize + 1, Len(search.dense)) \in Seq(Nat)
           /\ cross => Len(Zone(cross)) + Len(SubSeq(search.dense, ZoneSize + 1, Len(search.dense)))
                        = Len(search.dense)
<1> DEFINE d == search.dense
<1> HIDE DEF d
<1>1. d \in Seq(Nat) /\ Len(d) \in Nat /\ ZoneSize \in Nat
  BY DocumentsAssumption DEF d
<1>2. /\ FirstN(d, ZoneSize) \in Seq(Nat)
      /\ Len(FirstN(d, ZoneSize)) = IF ZoneSize < Len(d) THEN ZoneSize ELSE Len(d)
      /\ ToSet(FirstN(d, ZoneSize)) \subseteq ToSet(d)
  BY <1>1, FirstNIs
<1>4. \A i \in (ZoneSize + 1)..Len(d) : d[i] \in Nat
  BY <1>1
<1>5. /\ SubSeq(d, ZoneSize + 1, Len(d)) \in Seq(Nat)
      /\ Len(SubSeq(d, ZoneSize + 1, Len(d))) = IF ZoneSize + 1 <= Len(d) THEN Len(d) - (ZoneSize + 1) + 1 ELSE 0
  BY <1>1, <1>4, SubSeqProperties
<1>6. Len(FirstN(d, ZoneSize)) + Len(SubSeq(d, ZoneSize + 1, Len(d))) = Len(d)
  <2>1. PICK x, y, n : x = Len(FirstN(d, ZoneSize)) /\ y = Len(SubSeq(d, ZoneSize + 1, Len(d))) /\ n = Len(d)
    OBVIOUS
  <2>2. x = IF ZoneSize < n THEN ZoneSize ELSE n
    BY <1>2, <2>1, Zenon
  <2>3. y = IF ZoneSize + 1 <= n THEN n - (ZoneSize + 1) + 1 ELSE 0
    BY <1>5, <2>1, Zenon
  <2>4. n \in Nat /\ ZoneSize \in Nat
    BY <1>1, <2>1
  <2>5. x + y = n
    BY <2>2, <2>3, <2>4
  <2>6. QED BY <2>1, <2>5
<1>7. QED BY <1>1, <1>2, <1>5, <1>6 DEF Zone, d

LEMMA SurvivingIs ==
    ASSUME search.dense \in Seq(Nat), search.k \in Nat, NEW llm \in BOOLEAN, NEW cross \in BOOLEAN, NEW score,
           \A c \in ToSet(search.dense) : score[c] \in Int
    PROVE  /\ Surviving(llm, cross, score) \in Seq(Nat)
           /\ ~llm \/ RankedZone(llm, cross, score) = <<>> =>
                Len(Surviving(llm, cross, score)) = Len(FirstN(search.dense, search.k))
<1> DEFINE ranked == RankedZone(llm, cross, score)
           behind == SubSeq(search.dense, ZoneSize + 1, Len(search.dense))
           all == ranked \o behind
<1>1. /\ Zone(cross) \in Seq(Nat) /\ ToSet(Zone(cross)) \subseteq ToSet(search.dense)
      /\ behind \in Seq(Nat)
      /\ cross => Len(Zone(cross)) + Len(behind) = Len(search.dense)
  BY ZoneIs
<1> HIDE DEF behind
<1>2. \A c \in ToSet(Zone(cross)) : score[c] \in Int
  BY <1>1
<1>3. Scored(Zone(cross), score)
  BY <1>1, <1>2, ToSetIs DEF Scored
<1>4. /\ ByScore(Zone(cross), score) \in Seq(Nat)
      /\ Len(ByScore(Zone(cross), score)) = Len(Zone(cross))
  BY <1>1, <1>3, ByScoreKeeps
<1>5. RerankLLM(Zone(cross), score) \in Seq(Nat)
  BY <1>1, <1>2, RerankIs
<1>6. ranked \in Seq(Nat) /\ (~llm => Len(ranked) = Len(Zone(cross)))
  BY <1>4, <1>5 DEF RankedZone
<1>7. Surviving(llm, cross, score) =
        CASE ranked = <<>> \/ ~(llm \/ cross) -> FirstN(search.dense, search.k)
          [] cross /\ ranked # <<>> -> FirstN(all, search.k)
          [] OTHER -> Floored(FirstN(ranked, search.k), score)
  BY Zenon DEF Surviving, behind
<1> HIDE DEF ranked
<1>8. all \in Seq(Nat) /\ Len(all) = Len(ranked) + Len(behind)
  BY <1>1, <1>6, ConcatProperties
<1> HIDE DEF all
<1>9. /\ FirstN(search.dense, search.k) \in Seq(Nat) /\ FirstN(all, search.k) \in Seq(Nat)
      /\ FirstN(ranked, search.k) \in Seq(Nat)
  BY <1>6, <1>8, FirstNIs
<1>10. Floored(FirstN(ranked, search.k), score) \in Seq(Nat)
  BY <1>9, ChosenIs DEF Floored
<1>11. ASSUME cross, ~llm PROVE Len(FirstN(all, search.k)) = Len(FirstN(search.dense, search.k))
  <2>1. Len(all) = Len(search.dense)
    BY <1>1, <1>6, <1>8, <1>11
  <2>2. /\ Len(FirstN(all, search.k)) = IF search.k < Len(all) THEN search.k ELSE Len(all)
        /\ Len(FirstN(search.dense, search.k)) =
                IF search.k < Len(search.dense) THEN search.k ELSE Len(search.dense)
    BY <1>8, FirstNIs
  <2>3. QED BY <2>1, <2>2
<1>12. CASE ranked = <<>> \/ ~(llm \/ cross)
  BY <1>7, <1>9, <1>12
<1>13. CASE ~(ranked = <<>> \/ ~(llm \/ cross)) /\ cross
  <2>1. Surviving(llm, cross, score) = FirstN(all, search.k)
    BY <1>7, <1>13
  <2>2. QED BY <1>9, <1>11, <1>13, <2>1 DEF ranked
<1>14. CASE ~(ranked = <<>> \/ ~(llm \/ cross)) /\ ~cross
  <2>1. Surviving(llm, cross, score) = Floored(FirstN(ranked, search.k), score)
    BY <1>7, <1>14
  <2>2. QED BY <1>10, <1>14, <2>1 DEF ranked
<1>15. QED BY <1>12, <1>13, <1>14

-----------------------------------------------------------------------------
(* The invariant of a search: rankings are of rows of the table and repeat *)
(* none; an answer is the fusion, or as long, as its kind says; and a row  *)
(* near to the query that was there at its start is among the first dense  *)
(* ones, was overlooked, or as many rows as a search recalls are as near.  *)
RowSets == SUBSET Nat
SearchSet ==
    [pc : {"idle", "dense", "sparse", "multi", "rank", "done", "memories", "rank_memories", "record"},
     query : Queries \cup {"-"}, mode : {"-", "hybrid", "dense", "multi", "memory"}, k : Nat,
     queries : Seq(Queries), start : Nat, dense : Seq(Nat), sparse : Seq(Nat),
     sim : UNION {[D -> Int] : D \in SUBSET Nat}, missed : RowSets, fused : BOOLEAN, kept : BOOLEAN, results : Seq(Nat)]

ListsSound ==
    /\ search.pc # "idle" => search.query \in Queries
    /\ search.start <= Len(rows)
    /\ Distinct(search.dense) /\ Distinct(search.sparse)
    /\ search.mode = "memory" => search.sparse = <<>>
    /\ search.mode # "memory" => search.dense \in Seq(1..Len(rows)) /\ search.sparse \in Seq(1..Len(rows))
    /\ search.pc \in {"dense", "sparse", "multi", "rank"} => search.mode # "memory"
    /\ search.pc \in {"memories", "rank_memories", "record"} => search.mode = "memory"
    /\ search.pc \in {"sparse", "multi", "rank"} => \A c \in ToSet(search.dense) : search.sim[c] \in Int

AnswersRight ==
    /\ search.fused => search.pc = "done"
                        /\ search.results = FirstN(Fused(search.dense, search.sparse), search.k)
    /\ search.kept => search.pc \in {"record", "done"}
                       /\ Len(search.results) = Len(FirstN(Candidates, search.k))

Covering ==
    \A i \in (1..search.start) \cap Near(search.query) :
        \/ i \in ToSet(FirstN(search.dense, Recalled(search.k)))
        \/ i \in search.missed
        \/ Cardinality(AsNear(search.query, i)) >= Limit
Covers ==
    /\ search.pc \in {"sparse", "rank"} => Covering
    /\ search.pc = "multi" =>
            /\ search.mode = "multi" /\ search.queries # <<>>
            /\ (search.queries[1] = search.query /\ search.dense = <<>>) \/ Covering

SInv == search \in SearchSet /\ rows \in Seq(RowType) /\ ListsSound /\ AnswersRight /\ Covers

LEMMA SearchFields ==
    ASSUME search \in SearchSet
    PROVE  /\ search.k \in Nat /\ search.queries \in Seq(Queries) /\ search.start \in Nat
           /\ search.dense \in Seq(Nat) /\ search.sparse \in Seq(Nat) /\ search.results \in Seq(Nat)
           /\ search.fused \in BOOLEAN /\ search.kept \in BOOLEAN
BY DEF SearchSet

LEMMA EmptyIs == <<>> \in UNION {[D -> Int] : D \in SUBSET Nat} /\ \A R : <<>> \in Seq(R)
<1>1. <<>> \in Seq(Int) /\ Len(<<>>) = 0
  BY EmptySeq
<1>2. <<>> \in [1..0 -> Int]
  BY <1>1, LenProperties
<1>3. 1..0 \in SUBSET Nat
  OBVIOUS
<1>4. <<>> \in UNION {[D -> Int] : D \in SUBSET Nat}
  BY <1>2, <1>3
<1>5. \A R : <<>> \in Seq(R)
  BY EmptySeq
<1>6. QED BY <1>4, <1>5

LEMMA NoneMissed == {} \in RowSets
BY DEF RowSets

LEMMA NoSearchIs ==
    NoSearch \in SearchSet /\ Distinct(<<>>) /\ Len(<<>>) = 0 /\ \A c : c \notin ToSet(<<>>)
<1>1. <<>> \in UNION {[D -> Int] : D \in SUBSET Nat}
  BY EmptyIs
<1>2. /\ <<>> \in Seq(Queries) /\ <<>> \in Seq(Nat)
  BY EmptyIs
<1>3. NoSearch \in SearchSet
  BY <1>1, <1>2, NoneMissed DEF NoSearch, SearchSet
<1>4. \A c : c \in ToSet(<<>>) <=> \E i \in 1..Len(<<>>) : <<>>[i] = c
  BY <1>2, ToSetIs
<1>5. QED BY <1>3, <1>4 DEF Distinct

LEMMA IdleSound == search = NoSearch /\ rows \in Seq(RowType) => SInv
<1> SUFFICES ASSUME search = NoSearch, rows \in Seq(RowType) PROVE SInv
  OBVIOUS
<1>1. /\ search.pc = "idle" /\ search.start = 0 /\ search.dense = <<>> /\ search.sparse = <<>>
      /\ search.mode = "-" /\ ~search.fused /\ ~search.kept
  BY DEF NoSearch
<1>2. Len(rows) \in Nat /\ \A R : <<>> \in Seq(R)
  BY EmptyIs
<1>3. ListsSound
  BY <1>1, <1>2, NoSearchIs DEF ListsSound
<1>4. AnswersRight /\ Covers
  BY <1>1 DEF AnswersRight, Covers
<1>5. search \in SearchSet
  BY NoSearchIs
<1>6. QED BY <1>3, <1>4, <1>5 DEF SInv

(* A row stays where it is, with what it says.                             *)
RowsGrow ==
    /\ rows' \in Seq(RowType) /\ Len(rows) <= Len(rows')
    /\ \A i \in 1..Len(rows) : rows'[i] = rows[i]

LEMMA SeqInMore ==
    ASSUME NEW m \in Nat, NEW n \in Nat, m <= n, NEW s \in Seq(1..m)
    PROVE  s \in Seq(1..n)
<1>1. 1..m \subseteq 1..n
  OBVIOUS
<1>2. QED BY <1>1, SeqMonotonic

LEMMA SearchRests == SInv /\ RowsGrow /\ UNCHANGED search => SInv'
<1> SUFFICES ASSUME SInv, RowsGrow, UNCHANGED search PROVE SInv'
  OBVIOUS
<1>1. Len(rows) \in Nat /\ Len(rows') \in Nat /\ Len(rows) <= Len(rows')
  BY DEF SInv, RowsGrow
<1>2. search.start \in Nat /\ search.start <= Len(rows)
  BY SearchFields DEF SInv, ListsSound
<1>3. ListsSound'
  <2>1. search.mode # "memory" => search.dense \in Seq(1..Len(rows')) /\ search.sparse \in Seq(1..Len(rows'))
    BY <1>1, SeqInMore DEF SInv, ListsSound
  <2>2. search.start <= Len(rows')
    BY <1>1, <1>2
  <2>3. QED BY <2>1, <2>2 DEF SInv, ListsSound
<1>4. Covering => Covering'
  <2> SUFFICES ASSUME Covering, NEW i \in 1..search.start, i \in Near(search.query)'
               PROVE  \/ i \in ToSet(FirstN(search.dense, Recalled(search.k)))
                      \/ i \in search.missed
                      \/ Cardinality(AsNear(search.query, i))' >= Limit
    BY DEF Covering, Limit
  <2>1. \A j \in 1..Len(rows) : j \in 1..Len(rows') /\ rows'[j] = rows[j]
    BY <1>1 DEF RowsGrow
  <2>2. i \in 1..Len(rows) /\ i \in Near(search.query)
    BY <1>1, <1>2, <2>1 DEF Near, SInv
  <2>3. AsNear(search.query, i) \subseteq AsNear(search.query, i)'
    BY <1>1, <2>1, <2>2 DEF AsNear, SInv, RowsGrow
  <2>4. IsFiniteSet(AsNear(search.query, i)') /\ Cardinality(AsNear(search.query, i)') \in Nat
    <3>1. AsNear(search.query, i)' \subseteq 1..Len(rows')
      BY DEF AsNear, RowsGrow
    <3>2. IsFiniteSet(1..Len(rows'))
      BY <1>1, NumbersFinite
    <3>3. IsFiniteSet(AsNear(search.query, i)')
      BY <3>1, <3>2, FS_Subset
    <3>4. QED BY <3>3, FS_CardinalityType
  <2>5. Cardinality(AsNear(search.query, i)) <= Cardinality(AsNear(search.query, i)')
    BY <2>3, <2>4, FS_Subset
  <2>6. Cardinality(AsNear(search.query, i)) \in Nat
    BY AsNearFinite DEF SInv
  <2>7. Limit \in Nat
    BY SearchFields, RecalledIs DEF SInv, Limit
  <2>8. \/ i \in ToSet(FirstN(search.dense, Recalled(search.k)))
        \/ i \in search.missed
        \/ Cardinality(AsNear(search.query, i)) >= Limit
    BY <2>2 DEF Covering
  <2>9. QED BY <2>4, <2>5, <2>6, <2>7, <2>8
<1>5. Covers'
  BY <1>4 DEF SInv, Covers
<1>6. AnswersRight'
  BY DEF SInv, AnswersRight, Candidates
<1>7. QED BY <1>3, <1>5, <1>6 DEF SInv, RowsGrow

LEMMA Begins ==
    ASSUME SInv, NEW q \in Queries, NEW k \in TopKs, NEW pc, NEW mode, NEW queries \in Seq(Queries),
           NEW start \in 0..Len(rows), rows' = rows,
           search' = [pc |-> pc, query |-> q, mode |-> mode, k |-> k, queries |-> queries, start |-> start,
                      dense |-> <<>>, sparse |-> <<>>, sim |-> <<>>, missed |-> {}, fused |-> FALSE, kept |-> FALSE,
                      results |-> <<>>],
           \/ pc = "dense" /\ mode \in {"hybrid", "dense"}
           \/ pc = "multi" /\ mode = "multi" /\ queries # <<>> /\ queries[1] = q
           \/ pc = "memories" /\ mode = "memory"
    PROVE  SInv'
<1> DEFINE none == <<>>
<1>1. /\ search'.pc = pc /\ search'.query = q /\ search'.mode = mode /\ search'.k = k
      /\ search'.queries = queries /\ search'.start = start
      /\ search'.dense = none /\ search'.sparse = none /\ ~search'.fused /\ ~search'.kept
  OBVIOUS
<1>2. k \in Nat /\ Len(rows) \in Nat
  BY DocumentsAssumption DEF SInv
<1>3. search' \in SearchSet
  <2>1. <<>> \in UNION {[D -> Int] : D \in SUBSET Nat} /\ <<>> \in Seq(Nat)
    BY EmptyIs
  <2>2. start \in Nat
    BY <1>2
  <2>3. pc \in {"dense", "multi", "memories"} /\ mode \in {"hybrid", "dense", "multi", "memory"}
    OBVIOUS
  <2>4. QED BY <1>2, <2>1, <2>2, <2>3, NoneMissed DEF SearchSet
<1>4. Distinct(none) /\ (\A R : none \in Seq(R)) /\ \A c : c \notin ToSet(none)
  BY NoSearchIs, EmptyIs
<1> HIDE DEF none
<1>5. Len(rows') \in Nat /\ start <= Len(rows')
  BY <1>2
<1>6. ListsSound'
  <2>1. none \in Seq(1..Len(rows'))
    BY <1>4
  <2>2. mode = "memory" => search'.sparse = <<>>
    BY <1>1 DEF none
  <2>3. QED BY <1>1, <1>4, <1>5, <2>1, <2>2 DEF ListsSound
<1>7. AnswersRight' /\ Covers'
  BY <1>1 DEF AnswersRight, Covers
<1>8. QED BY <1>3, <1>6, <1>7 DEF SInv

LEMMA OverlookedIs ==
    ASSUME rows \in Seq(RowType), NEW q, NEW missed \in Overlooked(Near(q))
    PROVE  missed \in RowSets
BY DEF Overlooked, Near, RowSets

LEMMA SearchChunksKeeps ==
    ASSUME SInv, NEW q \in Queries, NEW mode \in {"hybrid", "dense"}, NEW k \in TopKs, SearchChunks(q, mode, k)
    PROVE  SInv'
<1>1. /\ rows' = rows
      /\ search' = [pc |-> "dense", query |-> q, mode |-> mode, k |-> k, queries |-> <<q>>, start |-> Len(rows),
                    dense |-> <<>>, sparse |-> <<>>, sim |-> <<>>, missed |-> {}, fused |-> FALSE, kept |-> FALSE,
                    results |-> <<>>]
  BY DEF SearchChunks, NoSearch
<1>2. <<q>> \in Seq(Queries) /\ Len(rows) \in 0..Len(rows)
  BY DEF SInv
<1>3. QED BY <1>1, <1>2, Begins

LEMMA SearchMultiKeeps ==
    ASSUME SInv, NEW q \in Queries, NEW variations \in Seq(Queries), NEW k \in TopKs,
           SearchMulti(q, variations, k)
    PROVE  SInv'
<1> DEFINE queries == <<q>> \o variations
<1>1. /\ rows' = rows
      /\ search' = [pc |-> "multi", query |-> q, mode |-> "multi", k |-> k, queries |-> queries,
                    start |-> Len(rows), dense |-> <<>>, sparse |-> <<>>, sim |-> <<>>, missed |-> {},
                    fused |-> FALSE, kept |-> FALSE, results |-> <<>>]
  BY DEF SearchMulti, Rewritten, NoSearch
<1>2. queries \in Seq(Queries) /\ queries # <<>> /\ queries[1] = q
  <2>1. <<q>> \in Seq(Queries) /\ Len(<<q>>) = 1 /\ <<q>>[1] = q /\ Len(variations) \in Nat
    OBVIOUS
  <2>2. /\ queries \in Seq(Queries) /\ Len(queries) = Len(<<q>>) + Len(variations)
        /\ \A i \in 1..(Len(<<q>>) + Len(variations)) :
                queries[i] = IF i <= Len(<<q>>) THEN <<q>>[i] ELSE variations[i - Len(<<q>>)]
    BY <2>1, ConcatProperties
  <2> HIDE DEF queries
  <2>3. Len(queries) = 1 + Len(variations) /\ queries[1] = q
    BY <2>1, <2>2
  <2>4. QED BY <2>1, <2>2, <2>3
<1> HIDE DEF queries
<1>3. Len(rows) \in 0..Len(rows)
  BY DEF SInv
<1>4. QED BY <1>1, <1>2, <1>3, Begins

LEMMA SearchMemoriesKeeps ==
    ASSUME SInv, NEW q \in Queries, NEW k \in TopKs, SearchMemories(q, k)
    PROVE  SInv'
<1>1. /\ rows' = rows
      /\ search' = [pc |-> "memories", query |-> q, mode |-> "memory", k |-> k, queries |-> <<>>, start |-> 0,
                    dense |-> <<>>, sparse |-> <<>>, sim |-> <<>>, missed |-> {}, fused |-> FALSE, kept |-> FALSE,
                    results |-> <<>>]
  BY DEF SearchMemories, NoSearch
<1>2. <<>> \in Seq(Queries) /\ 0 \in 0..Len(rows)
  BY EmptyIs DEF SInv
<1>3. QED BY <1>1, <1>2, Begins

LEMMA ReadDenseKeeps ==
    ASSUME SInv, NEW missed \in RowSets, ReadDense(missed)
    PROVE  SInv'
<1> DEFINE dense == VectorSearch(search.query, Recalled(search.k), missed)
           sim == [i \in ToSet(dense) |-> Similarity(search.query, rows[i].content)]
           pc == IF search.mode = "hybrid" THEN "sparse" ELSE "rank"
<1>1. /\ search.pc = "dense" /\ rows' = rows
      /\ search' = [search EXCEPT !.pc = pc, !.dense = dense, !.missed = missed, !.sim = sim]
  BY Zenon DEF ReadDense
<1>2. /\ search.query \in Queries /\ search.k \in Nat /\ search.start \in Nat /\ search.start <= Len(rows)
      /\ search.mode # "memory" /\ ~search.fused /\ ~search.kept /\ rows \in Seq(RowType) /\ Len(rows) \in Nat
  BY <1>1, SearchFields DEF SInv, ListsSound, AnswersRight
<1>3. Recalled(search.k) \in Nat /\ RecalledPerQuery(search.k) \in Nat
      /\ RecalledPerQuery(search.k) <= Recalled(search.k)
  BY <1>2, RecalledIs
<1>4. /\ dense \in Seq(1..Len(rows)) /\ Distinct(dense) /\ Len(dense) <= Recalled(search.k)
      /\ \A i \in Near(search.query) \ missed :
            i \in ToSet(dense) \/ Cardinality(AsNear(search.query, i)) >= Recalled(search.k)
  BY <1>2, <1>3, VectorSearchIs
<1>5. dense \in Seq(Nat) /\ ToSet(dense) \subseteq 1..Len(rows)
  <2>1. ToSet(dense) \subseteq 1..Len(rows)
    BY <1>4, ToSetIs
  <2>2. 1..Len(rows) \subseteq Nat
    OBVIOUS
  <2>3. QED BY <1>4, <2>1, <2>2, SeqMonotonic
<1> HIDE DEF dense
<1>6. sim \in [ToSet(dense) -> Int] /\ \A c \in ToSet(dense) : sim[c] \in Int
  BY <1>2, <1>5, RowsAre
<1> HIDE DEF sim
<1>7. /\ search'.pc = pc /\ search'.query = search.query /\ search'.mode = search.mode
      /\ search'.k = search.k /\ search'.start = search.start /\ search'.dense = dense
      /\ search'.sparse = search.sparse /\ search'.sim = sim /\ search'.missed = missed
      /\ ~search'.fused /\ ~search'.kept
  BY <1>1, <1>2 DEF SInv, SearchSet
<1>8. search' \in SearchSet
  <2>1. sim \in UNION {[D -> Int] : D \in SUBSET Nat}
    BY <1>5, <1>6
  <2>2. QED BY <1>1, <1>5, <2>1 DEF SInv, SearchSet
<1>9. ListsSound'
  BY <1>1, <1>2, <1>4, <1>6, <1>7 DEF SInv, ListsSound
<1>10. AnswersRight'
  BY <1>7 DEF AnswersRight
<1>11. Covering'
  <2> SUFFICES ASSUME NEW i \in 1..search.start, i \in Near(search.query)
               PROVE  \/ i \in ToSet(FirstN(dense, Recalled(search.k)))
                      \/ i \in missed
                      \/ Cardinality(AsNear(search.query, i)) >= Limit'
    BY <1>1, <1>7 DEF Covering, Near, AsNear
  <2>1. FirstN(dense, Recalled(search.k)) = dense
    BY <1>3, <1>4, FirstNIs
  <2>2. Limit' \in Nat /\ Limit' <= Recalled(search.k)
    BY <1>3, <1>7 DEF Limit
  <2>3. Cardinality(AsNear(search.query, i)) \in Nat
    BY <1>2, AsNearFinite
  <2>4. i \in ToSet(dense) \/ i \in missed \/ Cardinality(AsNear(search.query, i)) >= Recalled(search.k)
    BY <1>4
  <2>5. QED BY <1>3, <2>1, <2>2, <2>3, <2>4
<1>12. Covers'
  <2>1. pc \in {"sparse", "rank"}
    OBVIOUS
  <2>2. QED BY <1>7, <1>11, <2>1 DEF Covers
<1>13. QED BY <1>1, <1>8, <1>9, <1>10, <1>12 DEF SInv

LEMMA ReadSparseKeeps ==
    ASSUME SInv, ReadSparse
    PROVE  SInv'
<1> DEFINE sparse == SparseSearch(search.query, Recalled(search.k))
<1>1. /\ search.pc = "sparse" /\ rows' = rows
      /\ search' = [search EXCEPT !.pc = "rank", !.sparse = sparse]
  BY Zenon DEF ReadSparse
<1>2. /\ search.query \in Queries /\ search.k \in Nat /\ search.mode # "memory"
      /\ ~search.fused /\ ~search.kept /\ rows \in Seq(RowType) /\ Len(rows) \in Nat
  BY <1>1, SearchFields DEF SInv, ListsSound, AnswersRight
<1>3. Recalled(search.k) \in Nat
  BY <1>2, RecalledIs
<1>4. sparse \in Seq(1..Len(rows)) /\ Distinct(sparse)
  BY <1>2, <1>3, SparseSearchIs
<1>5. sparse \in Seq(Nat)
  <2>1. 1..Len(rows) \subseteq Nat
    OBVIOUS
  <2>2. QED BY <1>4, <2>1, SeqMonotonic
<1> HIDE DEF sparse
<1>6. /\ search'.pc = "rank" /\ search'.query = search.query /\ search'.mode = search.mode
      /\ search'.k = search.k /\ search'.start = search.start /\ search'.dense = search.dense
      /\ search'.sparse = sparse /\ search'.sim = search.sim /\ search'.missed = search.missed
      /\ search'.start = search.start /\ ~search'.fused /\ ~search'.kept
  BY <1>1, <1>2 DEF SInv, SearchSet
<1>7. search' \in SearchSet
  BY <1>1, <1>5 DEF SInv, SearchSet
<1>8. ListsSound'
  BY <1>1, <1>2, <1>4, <1>6 DEF SInv, ListsSound
<1>9. AnswersRight'
  BY <1>6 DEF AnswersRight
<1>10. Covers'
  <2>1. Covering
    BY <1>1 DEF SInv, Covers
  <2>2. Covering'
    BY <1>1, <1>6, <2>1 DEF Covering, Near, AsNear, Limit
  <2>3. QED BY <1>6, <2>2 DEF Covers
<1>11. QED BY <1>1, <1>7, <1>8, <1>9, <1>10 DEF SInv

LEMMA ReadVariationKeeps ==
    ASSUME SInv, NEW missed \in RowSets, ReadVariation(missed)
    PROVE  SInv'
<1> DEFINE q == Head(search.queries)
           hits == VectorSearch(q, RecalledPerQuery(search.k), missed)
           seen == Union(search.dense, hits)
           sim == [i \in ToSet(seen) |-> IF i \in ToSet(search.dense) THEN search.sim[i]
                                         ELSE Similarity(q, rows[i].content)]
           last == Len(search.queries) = 1
           dense == IF last THEN FirstN(seen, Recalled(search.k)) ELSE seen
           pc == IF last THEN "rank" ELSE "multi"
           queries == Tail(search.queries)
<1>1. /\ search.pc = "multi" /\ rows' = rows
      /\ search' = [search EXCEPT !.pc = pc, !.queries = queries, !.dense = dense, !.sim = sim,
                                  !.missed = search.missed \cup missed]
  BY Zenon DEF ReadVariation
<1>2. /\ search.k \in Nat /\ search.start \in Nat /\ search.start <= Len(rows)
      /\ search.mode # "memory" /\ ~search.fused /\ ~search.kept /\ rows \in Seq(RowType) /\ Len(rows) \in Nat
      /\ search.queries \in Seq(Queries) /\ search.queries # <<>>
      /\ search.dense \in Seq(1..Len(rows)) /\ Distinct(search.dense)
      /\ \A c \in ToSet(search.dense) : search.sim[c] \in Int
  BY <1>1, SearchFields DEF SInv, ListsSound, AnswersRight, Covers
<1>3. /\ q \in Queries /\ q = search.queries[1] /\ queries \in Seq(Queries)
      /\ Len(queries) = Len(search.queries) - 1 /\ Len(search.queries) \in Nat \ {0}
  BY <1>2
<1>4. Recalled(search.k) \in Nat /\ RecalledPerQuery(search.k) \in Nat
      /\ RecalledPerQuery(search.k) <= Recalled(search.k)
  BY <1>2, RecalledIs
<1> HIDE DEF q, queries
<1>5. /\ hits \in Seq(1..Len(rows)) /\ Distinct(hits) /\ Len(hits) <= RecalledPerQuery(search.k)
      /\ \A i \in Near(q) \ missed :
            i \in ToSet(hits) \/ Cardinality(AsNear(q, i)) >= RecalledPerQuery(search.k)
  BY <1>2, <1>3, <1>4, VectorSearchIs
<1> HIDE DEF hits
<1>6. /\ seen \in Seq(1..Len(rows)) /\ Distinct(seen) /\ ToSet(seen) = ToSet(search.dense) \cup ToSet(hits)
      /\ Len(search.dense) <= Len(seen) /\ \A n \in 1..Len(search.dense) : seen[n] = search.dense[n]
  BY <1>2, <1>5, UnionIs
<1>7. \A c \in ToSet(seen) : sim[c] \in Int /\ c \in 1..Len(rows)
  <2> SUFFICES ASSUME NEW c \in ToSet(seen) PROVE sim[c] \in Int /\ c \in 1..Len(rows)
    OBVIOUS
  <2>1. c \in 1..Len(rows)
    BY <1>6, ToSetIs
  <2>2. Similarity(q, rows[c].content) \in Int
    BY <1>2, <1>3, <2>1, RowsAre
  <2>3. QED BY <1>2, <2>1, <2>2
<1>8. sim \in [ToSet(seen) -> Int]
  BY <1>7
<1> HIDE DEF seen, sim
<1>9. /\ dense \in Seq(1..Len(rows)) /\ Distinct(dense) /\ ToSet(dense) \subseteq ToSet(seen)
      /\ FirstN(dense, Recalled(search.k)) = FirstN(seen, Recalled(search.k))
  <2>1. PICK u : u = FirstN(seen, Recalled(search.k))
    OBVIOUS
  <2>2. /\ u \in Seq(1..Len(rows)) /\ Distinct(u) /\ ToSet(u) \subseteq ToSet(seen)
        /\ Len(u) <= Recalled(search.k)
    BY <1>4, <1>6, <2>1, FirstNIs
  <2>3. FirstN(u, Recalled(search.k)) = u
    BY <1>4, <2>2, FirstNIs
  <2>4. QED BY <1>6, <2>1, <2>2, <2>3
<1>10. dense \in Seq(Nat) /\ ToSet(seen) \subseteq Nat
  <2>1. 1..Len(rows) \subseteq Nat
    OBVIOUS
  <2>2. QED BY <1>7, <1>9, <2>1, SeqMonotonic
<1> HIDE DEF dense
<1>11. /\ search'.pc = pc /\ search'.query = search.query /\ search'.mode = search.mode
       /\ search'.k = search.k /\ search'.start = search.start /\ search'.dense = dense
       /\ search'.sparse = search.sparse /\ search'.sim = sim /\ search'.queries = queries
       /\ search'.missed = search.missed \cup missed
       /\ ~search'.fused /\ ~search'.kept
  BY <1>1, <1>2 DEF SInv, SearchSet
<1>12. search' \in SearchSet
  <2>1. sim \in UNION {[D -> Int] : D \in SUBSET Nat}
    BY <1>8, <1>10
  <2>2. search.missed \cup missed \in RowSets
    BY DEF SInv, SearchSet, RowSets
  <2>3. QED BY <1>1, <1>3, <1>10, <2>1, <2>2 DEF SInv, SearchSet
<1>13. ListsSound'
  BY <1>1, <1>2, <1>7, <1>9, <1>11 DEF SInv, ListsSound
<1>14. AnswersRight'
  BY <1>11 DEF AnswersRight
<1>15. Covering'
  <2>4. /\ Near(search.query)' = Near(search.query) /\ Limit' = Limit
        /\ \A i : AsNear(search.query, i)' = AsNear(search.query, i)
    BY <1>1, <1>11 DEF Near, AsNear, Limit
  <2>5. FirstN(search'.dense, Recalled(search'.k)) = FirstN(seen, Recalled(search.k))
    BY <1>9, <1>11
  <2> SUFFICES ASSUME NEW i \in 1..search.start, i \in Near(search.query)
               PROVE  \/ i \in ToSet(FirstN(seen, Recalled(search.k)))
                      \/ i \in search.missed \cup missed
                      \/ Cardinality(AsNear(search.query, i)) >= Limit
    BY <1>11, <2>4, <2>5 DEF Covering
  <2>1. CASE search.queries[1] = search.query /\ search.dense = <<>>
    <3>1. i \in ToSet(hits) \/ i \in missed \/ Cardinality(AsNear(search.query, i)) >= Limit
      BY <1>1, <1>3, <1>5, <2>1 DEF SInv, Covers, Limit
    <3>2. \A c : c \notin ToSet(search.dense)
      BY <2>1, NoSearchIs
    <3>3. ToSet(seen) = ToSet(hits)
      BY <1>6, <3>2
    <3>4. Len(seen) <= Len(hits)
      BY <1>5, <1>6, <3>3, DistinctWithin
    <3>5. FirstN(seen, Recalled(search.k)) = seen
      <4>1. Len(seen) \in Nat /\ Len(hits) \in Nat
        BY <1>5, <1>6
      <4>2. Len(seen) <= Recalled(search.k)
        BY <1>4, <1>5, <3>4, <4>1
      <4>3. QED BY <1>4, <1>6, <4>2, FirstNIs
    <3>6. QED BY <3>1, <3>3, <3>5
  <2>2. CASE Covering
    <3>1. ASSUME i \in ToSet(FirstN(search.dense, Recalled(search.k)))
          PROVE  i \in ToSet(FirstN(seen, Recalled(search.k)))
      <4>1. PICK u, v : u = FirstN(search.dense, Recalled(search.k)) /\ v = FirstN(seen, Recalled(search.k))
        OBVIOUS
      <4>2. /\ u \in Seq(1..Len(rows))
            /\ Len(u) = IF Recalled(search.k) < Len(search.dense) THEN Recalled(search.k) ELSE Len(search.dense)
            /\ \A n \in 1..Len(u) : n \in 1..Len(search.dense) /\ u[n] = search.dense[n]
        <5>1. search.dense \in Seq(1..Len(rows)) /\ Recalled(search.k) \in Nat
          BY <1>2, <1>4
        <5>2. QED BY <4>1, <5>1, FirstNIs
      <4>3. /\ v \in Seq(1..Len(rows))
            /\ Len(v) = IF Recalled(search.k) < Len(seen) THEN Recalled(search.k) ELSE Len(seen)
            /\ \A n \in 1..Len(v) : n \in 1..Len(seen) /\ v[n] = seen[n]
        <5>1. seen \in Seq(1..Len(rows)) /\ Recalled(search.k) \in Nat
          BY <1>4, <1>6
        <5>2. QED BY <4>1, <5>1, FirstNIs
      <4>4. PICK n \in 1..Len(u) : u[n] = i
        <5>1. i \in ToSet(u) /\ u \in Seq(1..Len(rows))
          BY <3>1, <4>1, <4>2
        <5>2. QED BY <5>1, ToSetIs
      <4>5. n \in 1..Len(v) /\ seen[n] = search.dense[n]
        <5>1. Len(search.dense) \in Nat /\ Len(seen) \in Nat /\ Len(search.dense) <= Len(seen)
          BY <1>2, <1>6
        <5>2. n \in 1..Len(v)
          BY <1>4, <4>2, <4>3, <5>1
        <5>3. n \in 1..Len(search.dense)
          BY <4>2
        <5>4. QED BY <1>6, <5>2, <5>3
      <4>6. v[n] = i
        BY <4>2, <4>3, <4>4, <4>5
      <4>7. QED BY <4>1, <4>3, <4>5, <4>6, ToSetIs
    <3>2. QED BY <2>2, <3>1 DEF Covering
  <2>3. QED BY <1>1, <2>1, <2>2 DEF SInv, Covers
<1>16. Covers'
  <2>1. pc = "multi" => queries # <<>>
    <3>1. pc = "multi" => Len(queries) # 0
      BY <1>3
    <3>2. QED BY <3>1, EmptySeq
  <2>2. search.mode = "multi"
    BY <1>1 DEF SInv, Covers
  <2>3. QED BY <1>11, <1>15, <2>1, <2>2 DEF Covers
<1>17. QED BY <1>1, <1>12, <1>13, <1>14, <1>16 DEF SInv

(* A search is answered, or its answer is being counted.                   *)
LEMMA Answers ==
    ASSUME SInv, rows' = rows, NEW pc \in {"record", "done"}, NEW fused \in BOOLEAN, NEW kept \in BOOLEAN,
           NEW results \in Seq(Nat),
           search' = [search EXCEPT !.pc = pc, !.fused = fused, !.kept = kept, !.results = results],
           search.pc # "idle", pc = "record" => search.mode = "memory",
           fused => pc = "done" /\ results = FirstN(Fused(search.dense, search.sparse), search.k),
           kept => Len(results) = Len(FirstN(Candidates, search.k))
    PROVE  SInv'
<1>1. /\ search'.pc = pc /\ search'.query = search.query /\ search'.mode = search.mode
      /\ search'.k = search.k /\ search'.start = search.start /\ search'.dense = search.dense
      /\ search'.sparse = search.sparse /\ search'.fused = fused /\ search'.kept = kept
      /\ search'.results = results
  BY DEF SInv, SearchSet
<1>2. search' \in SearchSet
  BY DEF SInv, SearchSet
<1>3. ListsSound'
  BY <1>1 DEF SInv, ListsSound
<1>4. AnswersRight'
  BY <1>1 DEF AnswersRight, Candidates
<1>5. Covers'
  BY <1>1 DEF Covers
<1>6. QED BY <1>2, <1>3, <1>4, <1>5 DEF SInv

LEMMA RankFusedKeeps ==
    ASSUME SInv, RankFused
    PROVE  SInv'
<1> DEFINE all == Fused(search.dense, search.sparse)
           results == FirstN(all, search.k)
<1>1. /\ search.pc = "rank" /\ rows' = rows
      /\ search' = [search EXCEPT !.pc = "done", !.fused = TRUE, !.results = results]
  BY DEF RankFused
<1>2. /\ search.k \in Nat /\ search.dense \in Seq(Nat) /\ search.sparse \in Seq(Nat) /\ ~search.kept
      /\ Distinct(search.dense) /\ Distinct(search.sparse)
  BY <1>1, SearchFields DEF SInv, ListsSound, AnswersRight
<1>3. all \in Seq(Nat)
  <2> DEFINE u == Union(search.dense, search.sparse)
             score == [c \in ToSet(u) |-> Share(search.dense, c) + Share(search.sparse, c)]
  <2>1. u \in Seq(Nat)
    BY <1>2, UnionIs
  <2>2. all = ByScore(u, score)
    BY Zenon DEF Fused
  <2> HIDE DEF u
  <2>3. \A c : Share(search.dense, c) \in Nat /\ Share(search.sparse, c) \in Nat
    BY <1>2, ShareIs
  <2>4. \A c \in ToSet(u) : score[c] \in Int
    BY <2>3
  <2> HIDE DEF score
  <2>5. Scored(u, score)
    BY <2>1, <2>4, ToSetIs DEF Scored
  <2>6. ByScore(u, score) \in Seq(Nat)
    BY <2>1, <2>5, ByScoreKeeps
  <2>7. QED BY <2>2, <2>6
<1> HIDE DEF all
<1>4. results \in Seq(Nat)
  BY <1>2, <1>3, FirstNIs
<1>5. results = FirstN(Fused(search.dense, search.sparse), search.k)
  BY DEF all
<1> HIDE DEF results
<1>6. search' = [search EXCEPT !.pc = "done", !.fused = TRUE, !.kept = FALSE, !.results = results]
  BY <1>1, <1>2 DEF SInv, SearchSet
<1>7. QED BY <1>1, <1>4, <1>5, <1>6, Answers

LEMMA RankSimilarKeeps ==
    ASSUME SInv, RankSimilar
    PROVE  SInv'
<1> DEFINE results == FirstN(ByScore(search.dense, search.sim), search.k)
<1>1. /\ search.pc = "rank" /\ rows' = rows
      /\ search' = [search EXCEPT !.pc = "done", !.results = results]
  BY DEF RankSimilar
<1>2. /\ search.k \in Nat /\ search.dense \in Seq(Nat) /\ ~search.kept /\ ~search.fused
      /\ \A c \in ToSet(search.dense) : search.sim[c] \in Int
  BY <1>1, SearchFields DEF SInv, ListsSound, AnswersRight
<1>3. Scored(search.dense, search.sim)
  BY <1>2, ToSetIs DEF Scored
<1>4. ByScore(search.dense, search.sim) \in Seq(Nat)
  BY <1>2, <1>3, ByScoreKeeps
<1>5. results \in Seq(Nat)
  BY <1>2, <1>4, FirstNIs
<1> HIDE DEF results
<1>6. search' = [search EXCEPT !.pc = "done", !.fused = FALSE, !.kept = FALSE, !.results = results]
  BY <1>1, <1>2 DEF SInv, SearchSet
<1>7. QED BY <1>1, <1>5, <1>6, Answers

LEMMA RankLLMKeeps ==
    ASSUME SInv, NEW score \in [ToSet(Candidates) -> Scores \cup {NoScore}], RankLLM(score)
    PROVE  SInv'
<1> DEFINE results == RerankedBy(Candidates, score, search.k, SimilarityOf)
           kept == \A c \in ToSet(Candidates) : score[c] = NoScore
<1>1. /\ search.pc = "rank" /\ rows' = rows
      /\ search' = [search EXCEPT !.pc = "done", !.kept = kept, !.results = results]
  BY Zenon DEF RankLLM
<1>2. /\ search.k \in Nat /\ search.dense \in Seq(Nat) /\ search.sparse \in Seq(Nat) /\ ~search.fused
      /\ \A c \in ToSet(search.dense) : search.sim[c] \in Int
  BY <1>1, SearchFields DEF SInv, ListsSound, AnswersRight
<1>3. Candidates \in Seq(Nat)
  BY <1>2, UnionIs DEF Candidates
<1>4. \A c \in ToSet(Candidates) : score[c] \in Int
  BY DocumentsAssumption DEF Scores, NoScore
<1>5. \A c \in ToSet(Candidates) : SimilarityOf[c] \in Int
  BY <1>2 DEF SimilarityOf
<1>6. /\ results \in Seq(Nat)
      /\ kept => Len(results) = Len(FirstN(Candidates, search.k))
  BY <1>2, <1>3, <1>4, <1>5, RerankedIs
<1> HIDE DEF results, kept
<1>7. search' = [search EXCEPT !.pc = "done", !.fused = FALSE, !.kept = kept, !.results = results]
  BY <1>1, <1>2 DEF SInv, SearchSet
<1>8. kept \in BOOLEAN
  BY DEF kept
<1>9. QED BY <1>1, <1>6, <1>7, <1>8, Answers

LEMMA ReadMemoriesKeeps ==
    ASSUME SInv, NEW missed, ReadMemories(missed)
    PROVE  SInv'
<1> DEFINE sim == [i \in DOMAIN Summaries |-> Similarity(search.query, Summaries[i])]
           close == NearMemories(search.query) \ missed
           near == Places(Summaries, close)
           found == FirstN(ByScore(near, sim), Recalled(search.k))
           pc == IF found = <<>> THEN "done" ELSE "rank_memories"
<1>1. /\ search.pc = "memories" /\ rows' = rows
      /\ search' = [search EXCEPT !.pc = pc, !.dense = found]
  BY Zenon DEF ReadMemories
<1>2. /\ search.query \in Queries /\ search.k \in Nat /\ search.mode = "memory"
      /\ search.sparse = <<>> /\ ~search.fused /\ ~search.kept
  BY <1>1, SearchFields DEF SInv, ListsSound, AnswersRight
<1>3. /\ Summaries \in Seq(ToSet(Summaries)) /\ DOMAIN Summaries = 1..Len(Summaries) /\ Len(Summaries) \in Nat
  BY DocumentsAssumption, LenProperties
<1>4. \A i \in 1..Len(Summaries) : sim[i] \in Int
  <2> SUFFICES ASSUME NEW i \in 1..Len(Summaries) PROVE Similarity(search.query, Summaries[i]) \in Int
    BY <1>3
  <2>1. Summaries[i] \in ToSet(Summaries)
    BY <1>3
  <2>2. Summaries[i] \in Contents
    BY <2>1 DEF Contents
  <2>3. QED BY <1>2, <2>2, SimilarityAssumption
<1> HIDE DEF sim, close
<1>5. near \in Seq(1..Len(Summaries)) /\ Distinct(near)
  BY <1>3, PlacesIs
<1> HIDE DEF near
<1>6. Scored(near, sim)
  BY <1>4, <1>5 DEF Scored
<1>7. ByScore(near, sim) \in Seq(1..Len(Summaries)) /\ Distinct(ByScore(near, sim))
  BY <1>5, <1>6, ByScoreKeeps
<1>8. found \in Seq(1..Len(Summaries)) /\ Distinct(found)
  BY <1>2, <1>7, RecalledIs, FirstNIs
<1>9. found \in Seq(Nat)
  <2>1. 1..Len(Summaries) \subseteq Nat
    BY <1>3
  <2>2. QED BY <1>8, <2>1, SeqMonotonic
<1> HIDE DEF found
<1>10. /\ search'.pc = pc /\ search'.query = search.query /\ search'.mode = search.mode
       /\ search'.k = search.k /\ search'.start = search.start /\ search'.dense = found
       /\ search'.sparse = search.sparse /\ ~search'.fused /\ ~search'.kept
  BY <1>1, <1>2 DEF SInv, SearchSet
<1>11. search' \in SearchSet
  BY <1>1, <1>9 DEF SInv, SearchSet
<1>12. ListsSound'
  BY <1>1, <1>2, <1>8, <1>10 DEF SInv, ListsSound
<1>13. AnswersRight' /\ Covers'
  BY <1>10 DEF AnswersRight, Covers
<1>14. QED BY <1>1, <1>11, <1>12, <1>13 DEF SInv

LEMMA UnionEmpty == ASSUME NEW R, NEW a \in Seq(R) PROVE Union(a, <<>>) = a
<1> DEFINE none == <<>>
           keep == {i \in DOMAIN none : none[i] \notin ToSet(a)}
           c == Chosen(none, keep)
<1>1. none \in Seq(R) /\ Len(none) = 0
  BY EmptySeq
<1>2. Union(a, none) = a \o c
  BY DEF Union
<1> HIDE DEF none, keep
<1>3. c \in Seq(R) /\ \A i \in 1..Len(c) : \E m \in 1..Len(none) : m \in keep /\ c[i] = none[m]
  <2>1. PICK n \in Seq(R) : n = none
    BY <1>1
  <2>2. PICK at : at = keep
    OBVIOUS
  <2>3. /\ Chosen(n, at) \in Seq(R)
        /\ \A i \in 1..Len(Chosen(n, at)) : \E m \in 1..Len(n) : m \in at /\ Chosen(n, at)[i] = n[m]
        /\ \A m \in 1..Len(n) : m \in at => \E i \in 1..Len(Chosen(n, at)) : Chosen(n, at)[i] = n[m]
    BY ChosenIs
  <2>4. QED BY <2>1, <2>2, <2>3
<1> HIDE DEF c
<1>4. c = <<>>
  <2>1. Len(c) \in Nat
    BY <1>3
  <2>2. Len(c) = 0
    BY <1>1, <1>3, <2>1
  <2>3. QED BY <1>3, <2>2, EmptySeq
<1>5. a \o <<>> = a
  BY ConcatEmptySeq
<1>6. QED BY <1>2, <1>4, <1>5 DEF none

LEMMA RankMemoriesKeeps ==
    ASSUME SInv, NEW llm \in BOOLEAN, NEW cross \in BOOLEAN,
           NEW score \in [ToSet(search.dense) -> Scores \cup {NoScore}], RankMemories(llm, cross, score)
    PROVE  SInv'
<1> DEFINE results == Surviving(llm, cross, score)
           kept == ~llm \/ RankedZone(llm, cross, score) = <<>>
<1>1. /\ search.pc = "rank_memories" /\ rows' = rows
      /\ search' = [search EXCEPT !.pc = "record", !.kept = kept, !.results = results]
  BY Zenon DEF RankMemories
<1>2. /\ search.k \in Nat /\ search.dense \in Seq(Nat) /\ search.sparse = <<>> /\ ~search.fused
      /\ search.mode = "memory"
  BY <1>1, SearchFields DEF SInv, ListsSound, AnswersRight
<1>3. Candidates = search.dense
  BY <1>2, UnionEmpty DEF Candidates
<1>4. \A c \in ToSet(search.dense) : score[c] \in Int
  BY DocumentsAssumption DEF Scores, NoScore
<1>5. /\ results \in Seq(Nat)
      /\ kept => Len(results) = Len(FirstN(Candidates, search.k))
  BY <1>2, <1>3, <1>4, SurvivingIs
<1>6. kept \in BOOLEAN
  OBVIOUS
<1> HIDE DEF results, kept
<1>7. search' = [search EXCEPT !.pc = "record", !.fused = FALSE, !.kept = kept, !.results = results]
  BY <1>1, <1>2 DEF SInv, SearchSet
<1>8. QED BY <1>1, <1>2, <1>5, <1>6, <1>7, Answers

LEMMA RecordRecallsKeeps ==
    ASSUME SInv, RecordRecalls
    PROVE  SInv'
<1>1. search.pc = "record" /\ rows' = rows /\ search' = [search EXCEPT !.pc = "done"]
  BY DEF RecordRecalls
<1>2. /\ ~search.fused /\ search.kept \in BOOLEAN /\ search.results \in Seq(Nat)
      /\ search.kept => Len(search.results) = Len(FirstN(Candidates, search.k))
  BY <1>1, SearchFields DEF SInv, AnswersRight
<1>3. search' = [search EXCEPT !.pc = "done", !.fused = FALSE, !.kept = search.kept, !.results = search.results]
  BY <1>1, <1>2 DEF SInv, SearchSet
<1>4. QED BY <1>1, <1>2, <1>3, Answers

(***************************************************************************)
(* Slices of a text.                                                       *)
(***************************************************************************)
Slice(s, a, b) == SubSeq(s, a + 1, b)

LEMMA SliceIs ==
    ASSUME NEW A, NEW s \in Seq(A), NEW a \in 0..Len(s), NEW b \in a..Len(s)
    PROVE  /\ Slice(s, a, b) \in Seq(A) /\ Len(Slice(s, a, b)) = b - a
           /\ \A i \in 1..(b - a) : Slice(s, a, b)[i] = s[a + i]
<1>1. Len(s) \in Nat
  OBVIOUS
<1>2. a \in Nat /\ b \in Nat /\ a <= b /\ b <= Len(s)
  BY <1>1
<1>3. \A i \in (a + 1)..b : s[i] \in A
  BY <1>1, <1>2
<1>4. /\ SubSeq(s, a + 1, b) \in Seq(A)
      /\ Len(SubSeq(s, a + 1, b)) = IF a + 1 <= b THEN b - (a + 1) + 1 ELSE 0
      /\ \A i \in 1..(b - (a + 1) + 1) : SubSeq(s, a + 1, b)[i] = s[a + 1 + i - 1]
  BY <1>2, <1>3, SubSeqProperties
<1> DEFINE t == SubSeq(s, a + 1, b)
<1> HIDE DEF t
<1>5. t \in Seq(A) /\ Len(t) = b - a
  BY <1>2, <1>4 DEF t
<1>6. \A i \in 1..(b - a) : t[i] = s[a + i]
  <2> SUFFICES ASSUME NEW i \in 1..(b - a) PROVE t[i] = s[a + i]
    OBVIOUS
  <2>1. i \in 1..(b - (a + 1) + 1) /\ a + 1 + i - 1 = a + i
    BY <1>2
  <2>2. QED BY <1>4, <2>1 DEF t
<1>7. QED BY <1>5, <1>6 DEF t, Slice

LEMMA SliceAll == ASSUME NEW A, NEW s \in Seq(A) PROVE Slice(s, 0, Len(s)) = s
BY SubSeqFull DEF Slice

LEMMA SliceJoins ==
    ASSUME NEW A, NEW s \in Seq(A), NEW a \in 0..Len(s), NEW b \in a..Len(s), NEW c \in b..Len(s)
    PROVE  Slice(s, a, b) \o Slice(s, b, c) = Slice(s, a, c)
<1>1. a + 1 \in 1..(Len(s) + 1) /\ b \in (a + 1 - 1)..Len(s) /\ Len(s) \in Nat
  OBVIOUS
<1>2. SubSeq(s, a + 1, b) \o SubSeq(s, b + 1, c) = SubSeq(s, a + 1, c)
  BY <1>1, ConcatAdjacentSubSeq
<1>3. QED BY <1>2 DEF Slice

LEMMA SliceOfFirst ==
    ASSUME NEW A, NEW s \in Seq(A), NEW t \in Seq(A), NEW a \in 0..Len(s), NEW b \in a..Len(s)
    PROVE  Slice(s \o t, a, b) = Slice(s, a, b)
<1>1. Len(s) \in Nat /\ Len(t) \in Nat
  OBVIOUS
<1>2. /\ s \o t \in Seq(A) /\ Len(s \o t) = Len(s) + Len(t)
      /\ \A i \in 1..(Len(s) + Len(t)) : (s \o t)[i] = IF i <= Len(s) THEN s[i] ELSE t[i - Len(s)]
  BY ConcatProperties
<1> DEFINE u == s \o t
<1> HIDE DEF u
<1>3. a \in 0..Len(u) /\ b \in a..Len(u) /\ u \in Seq(A)
  BY <1>1, <1>2 DEF u
<1>4. /\ Slice(u, a, b) \in Seq(A) /\ Len(Slice(u, a, b)) = b - a
      /\ \A i \in 1..(b - a) : Slice(u, a, b)[i] = u[a + i]
  BY <1>3, SliceIs
<1>5. /\ Slice(s, a, b) \in Seq(A) /\ Len(Slice(s, a, b)) = b - a
      /\ \A i \in 1..(b - a) : Slice(s, a, b)[i] = s[a + i]
  BY SliceIs
<1>6. \A i \in 1..(b - a) : u[a + i] = s[a + i]
  <2> SUFFICES ASSUME NEW i \in 1..(b - a) PROVE u[a + i] = s[a + i]
    OBVIOUS
  <2>1. a + i \in 1..(Len(s) + Len(t)) /\ a + i <= Len(s)
    BY <1>1
  <2>2. QED BY <1>2, <2>1 DEF u
<1>7. Slice(u, a, b) = Slice(s, a, b)
  <2>1. \A i \in 1..Len(Slice(u, a, b)) : Slice(u, a, b)[i] = Slice(s, a, b)[i]
    BY <1>4, <1>5, <1>6
  <2>2. QED BY <1>4, <1>5, <2>1, SeqEqual
<1>8. QED BY <1>7 DEF u

LEMMA SliceOfSecond ==
    ASSUME NEW A, NEW s \in Seq(A), NEW t \in Seq(A), NEW a \in 0..Len(t), NEW b \in a..Len(t)
    PROVE  Slice(s \o t, Len(s) + a, Len(s) + b) = Slice(t, a, b)
<1>1. Len(s) \in Nat /\ Len(t) \in Nat
  OBVIOUS
<1>2. /\ s \o t \in Seq(A) /\ Len(s \o t) = Len(s) + Len(t)
      /\ \A i \in 1..(Len(s) + Len(t)) : (s \o t)[i] = IF i <= Len(s) THEN s[i] ELSE t[i - Len(s)]
  BY ConcatProperties
<1> DEFINE u == s \o t
<1> HIDE DEF u
<1>3. PICK m, n : m = Len(s) + a /\ n = Len(s) + b
  OBVIOUS
<1>4. m \in 0..Len(u) /\ n \in m..Len(u) /\ u \in Seq(A) /\ n - m = b - a
  BY <1>1, <1>2, <1>3 DEF u
<1>5. /\ Slice(u, m, n) \in Seq(A) /\ Len(Slice(u, m, n)) = b - a
      /\ \A i \in 1..(b - a) : Slice(u, m, n)[i] = u[m + i]
  <2>1. /\ Slice(u, m, n) \in Seq(A) /\ Len(Slice(u, m, n)) = n - m
        /\ \A i \in 1..(n - m) : Slice(u, m, n)[i] = u[m + i]
    BY <1>4, SliceIs
  <2>2. QED BY <1>4, <2>1
<1>6. /\ Slice(t, a, b) \in Seq(A) /\ Len(Slice(t, a, b)) = b - a
      /\ \A i \in 1..(b - a) : Slice(t, a, b)[i] = t[a + i]
  BY SliceIs
<1>7. \A i \in 1..(b - a) : u[m + i] = t[a + i]
  <2> SUFFICES ASSUME NEW i \in 1..(b - a) PROVE u[m + i] = t[a + i]
    OBVIOUS
  <2>1. m + i \in 1..(Len(s) + Len(t)) /\ ~(m + i <= Len(s)) /\ (m + i) - Len(s) = a + i
    BY <1>1, <1>3
  <2>2. QED BY <1>2, <2>1 DEF u
<1>8. Slice(u, m, n) = Slice(t, a, b)
  <2>1. \A i \in 1..Len(Slice(u, m, n)) : Slice(u, m, n)[i] = Slice(t, a, b)[i]
    BY <1>5, <1>6, <1>7
  <2>2. QED BY <1>5, <1>6, <2>1, SeqEqual
<1>9. QED BY <1>3, <1>8 DEF u

(***************************************************************************)
(* Chunks spell a text if each is, or at least ends with, the next slice   *)
(* of it.                                                                  *)
(***************************************************************************)
Says(c, t, exact) == IF exact THEN c = t ELSE EndsWith(c, t)

EndsAt(p, c, s, exact) ==
    /\ p \in [0..Len(c) -> 0..Len(s)] /\ p[0] = 0 /\ p[Len(c)] = Len(s)
    /\ \A i \in 1..Len(c) : p[i - 1] <= p[i] /\ Says(c[i], Slice(s, p[i - 1], p[i]), exact)

Spells(c, s, A, exact) == c \in Seq(Seq(A)) /\ s \in Seq(A) /\ \E p : EndsAt(p, c, s, exact)

LEMMA SpellsNothing == ASSUME NEW A, NEW exact PROVE Spells(<<>>, <<>>, A, exact)
<1>1. PICK none : none = <<>>
  OBVIOUS
<1>2. none \in Seq(A) /\ none \in Seq(Seq(A)) /\ Len(none) = 0
  BY <1>1, EmptySeq
<1>3. EndsAt([i \in 0..0 |-> 0], none, none, exact)
  BY <1>2 DEF EndsAt
<1>4. QED BY <1>1, <1>2, <1>3 DEF Spells

LEMMA SpellsOne ==
    ASSUME NEW A, NEW exact, NEW c \in Seq(A), NEW s \in Seq(A), Says(c, s, exact)
    PROVE  Spells(<<c>>, s, A, exact)
<1>1. PICK one : one = <<c>>
  OBVIOUS
<1>2. one \in Seq(Seq(A)) /\ Len(one) = 1 /\ one[1] = c
  BY <1>1
<1>3. PICK p : p = [i \in 0..1 |-> IF i = 0 THEN 0 ELSE Len(s)]
  OBVIOUS
<1>4. p \in [0..1 -> 0..Len(s)] /\ p[0] = 0 /\ p[1] = Len(s) /\ Len(s) \in Nat
  BY <1>3
<1>5. Says(one[1], Slice(s, p[1 - 1], p[1]), exact)
  <2>1. Slice(s, p[1 - 1], p[1]) = s
    BY <1>4, SliceAll
  <2>2. QED BY <1>2, <2>1
<1>6. EndsAt(p, one, s, exact)
  <2>1. ASSUME NEW i \in 1..1 PROVE p[i - 1] <= p[i] /\ Says(one[i], Slice(s, p[i - 1], p[i]), exact)
    <3>1. i = 1
      OBVIOUS
    <3>2. p[1 - 1] <= p[1]
      BY <1>4
    <3>3. QED BY <1>5, <3>1, <3>2
  <2>2. QED BY <1>2, <1>4, <2>1 DEF EndsAt
<1>7. QED BY <1>1, <1>2, <1>6 DEF Spells

LEMMA SpellsMore ==
    ASSUME NEW A, NEW exact, NEW c, NEW s, NEW d, NEW t, Spells(c, s, A, exact), Spells(d, t, A, exact)
    PROVE  Spells(c \o d, s \o t, A, exact)
<1> DEFINE e == c \o d
           u == s \o t
<1>1. /\ c \in Seq(Seq(A)) /\ d \in Seq(Seq(A)) /\ s \in Seq(A) /\ t \in Seq(A)
      /\ Len(c) \in Nat /\ Len(d) \in Nat /\ Len(s) \in Nat /\ Len(t) \in Nat
  BY DEF Spells
<1>2. /\ e \in Seq(Seq(A)) /\ Len(e) = Len(c) + Len(d)
      /\ \A i \in 1..(Len(c) + Len(d)) : e[i] = IF i <= Len(c) THEN c[i] ELSE d[i - Len(c)]
  BY <1>1, ConcatProperties
<1>3. u \in Seq(A) /\ Len(u) = Len(s) + Len(t)
  BY <1>1, ConcatProperties
<1>4. PICK p : EndsAt(p, c, s, exact)
  BY DEF Spells
<1>5. PICK q : EndsAt(q, d, t, exact)
  BY DEF Spells
<1>6. PICK r : r = [i \in 0..Len(e) |-> IF i <= Len(c) THEN p[i] ELSE Len(s) + q[i - Len(c)]]
  OBVIOUS
<1> HIDE DEF e
<1>7. /\ p \in [0..Len(c) -> 0..Len(s)] /\ p[0] = 0 /\ p[Len(c)] = Len(s)
      /\ q \in [0..Len(d) -> 0..Len(t)] /\ q[0] = 0 /\ q[Len(d)] = Len(t)
  BY <1>4, <1>5 DEF EndsAt
<1>8. \A i \in 0..Len(c) : i \in 0..Len(e) /\ r[i] = p[i] /\ p[i] \in 0..Len(s)
  <2> SUFFICES ASSUME NEW i \in 0..Len(c) PROVE i \in 0..Len(e) /\ r[i] = p[i] /\ p[i] \in 0..Len(s)
    OBVIOUS
  <2>1. i \in 0..Len(e) /\ i <= Len(c)
    BY <1>1, <1>2
  <2>2. p[i] \in 0..Len(s)
    BY <1>7
  <2>3. QED BY <1>6, <2>1, <2>2
<1>9. \A j \in 0..Len(d) : Len(c) + j \in 0..Len(e) /\ r[Len(c) + j] = Len(s) + q[j] /\ q[j] \in 0..Len(t)
  <2> SUFFICES ASSUME NEW j \in 0..Len(d)
               PROVE  Len(c) + j \in 0..Len(e) /\ r[Len(c) + j] = Len(s) + q[j] /\ q[j] \in 0..Len(t)
    OBVIOUS
  <2>0. q[j] \in 0..Len(t)
    BY <1>7
  <2>1. Len(c) + j \in 0..Len(e) /\ q[j] \in 0..Len(t)
    BY <1>1, <1>2, <2>0
  <2>2. CASE j = 0
    <3>1. r[Len(c)] = p[Len(c)] /\ Len(c) + j = Len(c)
      BY <1>1, <1>8, <2>2
    <3>2. QED BY <1>1, <1>7, <2>1, <2>2, <3>1
  <2>3. CASE j # 0
    <3>1. ~(Len(c) + j <= Len(c)) /\ (Len(c) + j) - Len(c) = j
      BY <1>1, <2>3
    <3>2. QED BY <1>6, <2>1, <3>1
  <2>4. QED BY <2>2, <2>3
<1>10. r \in [0..Len(e) -> 0..Len(u)]
  <2>1. ASSUME NEW i \in 0..Len(e) PROVE r[i] \in 0..Len(u)
    <3>1. CASE i <= Len(c)
      <4>1. i \in 0..Len(c)
        BY <1>1, <1>2, <3>1
      <4>2. r[i] \in 0..Len(s)
        BY <1>8, <4>1
      <4>3. QED BY <1>1, <1>3, <4>2
    <3>2. CASE ~(i <= Len(c))
      <4>1. PICK j \in 0..Len(d) : i = Len(c) + j
        <5>1. i - Len(c) \in 0..Len(d) /\ i = Len(c) + (i - Len(c))
          BY <1>1, <1>2, <3>2
        <5>2. QED BY <5>1
      <4>2. r[i] = Len(s) + q[j] /\ q[j] \in 0..Len(t)
        BY <1>9, <4>1
      <4>3. QED BY <1>1, <1>3, <4>2
    <3>3. QED BY <3>1, <3>2
  <2>2. QED BY <1>6, <2>1
<1>11. r[0] = 0 /\ r[Len(e)] = Len(u)
  <2>1. 0 \in 0..Len(c) /\ Len(d) \in 0..Len(d)
    BY <1>1
  <2>2. QED BY <1>2, <1>3, <1>7, <1>8, <1>9, <2>1
<1>12. ASSUME NEW i \in 1..Len(e) PROVE r[i - 1] <= r[i] /\ Says(e[i], Slice(u, r[i - 1], r[i]), exact)
  <2>1. CASE i <= Len(c)
    <3>1. i \in 1..Len(c) /\ i - 1 \in 0..Len(c) /\ i \in 0..Len(c)
      BY <1>1, <1>2, <2>1
    <3>2. r[i] = p[i] /\ r[i - 1] = p[i - 1] /\ e[i] = c[i] /\ p[i - 1] \in 0..Len(s) /\ p[i] \in 0..Len(s)
      BY <1>1, <1>2, <1>8, <2>1, <3>1
    <3>3. p[i - 1] <= p[i] /\ Says(c[i], Slice(s, p[i - 1], p[i]), exact)
      BY <1>4, <3>1 DEF EndsAt
    <3>4. p[i] \in p[i - 1]..Len(s)
      BY <1>1, <3>2, <3>3
    <3>5. Slice(u, p[i - 1], p[i]) = Slice(s, p[i - 1], p[i])
      BY <1>1, <3>2, <3>4, SliceOfFirst
    <3>6. QED BY <3>2, <3>3, <3>5
  <2>2. CASE ~(i <= Len(c))
    <3>1. PICK j \in 1..Len(d) : i = Len(c) + j
      <4>1. i - Len(c) \in 1..Len(d) /\ i = Len(c) + (i - Len(c))
        BY <1>1, <1>2, <2>2
      <4>2. QED BY <4>1
    <3>2. j \in 0..Len(d) /\ j - 1 \in 0..Len(d) /\ i - 1 = Len(c) + (j - 1) /\ i - Len(c) = j
      BY <1>1, <3>1
    <3>3. r[i] = Len(s) + q[j] /\ r[i - 1] = Len(s) + q[j - 1] /\ q[j] \in 0..Len(t) /\ q[j - 1] \in 0..Len(t)
      BY <1>9, <3>1, <3>2
    <3>4. e[i] = d[j]
      BY <1>2, <2>2, <3>2
    <3>5. q[j - 1] <= q[j] /\ Says(d[j], Slice(t, q[j - 1], q[j]), exact)
      BY <1>5, <3>1 DEF EndsAt
    <3>6. q[j] \in q[j - 1]..Len(t)
      BY <1>1, <3>3, <3>5
    <3>7. Slice(u, Len(s) + q[j - 1], Len(s) + q[j]) = Slice(t, q[j - 1], q[j])
      BY <1>1, <3>3, <3>6, SliceOfSecond
    <3>8. r[i - 1] <= r[i]
      <4>1. PICK a \in 0..Len(t), b \in 0..Len(t) : a = q[j - 1] /\ b = q[j] /\ a <= b
        BY <3>3, <3>5
      <4>2. Len(s) + a <= Len(s) + b
        BY <1>1, <4>1
      <4>3. QED BY <3>3, <4>1, <4>2
    <3>9. QED BY <3>3, <3>4, <3>5, <3>7, <3>8
  <2>3. QED BY <2>1, <2>2
<1> HIDE DEF u
<1>13. EndsAt(r, e, u, exact)
  BY <1>10, <1>11, <1>12 DEF EndsAt
<1>14. Spells(e, u, A, exact)
  BY <1>2, <1>3, <1>13 DEF Spells, u
<1>15. QED BY <1>14 DEF e, u

LEMMA EndsWithIs ==
    ASSUME NEW A, NEW c \in Seq(A), NEW t \in Seq(A)
    PROVE  EndsWith(c, t) <=> Len(t) <= Len(c) /\ Slice(c, Len(c) - Len(t), Len(c)) = t
BY DEF EndsWith, Slice

LEMMA EndsWithSelf == ASSUME NEW A, NEW c \in Seq(A) PROVE EndsWith(c, c)
<1>1. Len(c) \in Nat /\ Len(c) - Len(c) = 0
  OBVIOUS
<1>2. Slice(c, 0, Len(c)) = c
  BY SliceAll
<1>3. QED BY <1>1, <1>2, EndsWithIs

(* A text that is spelled exactly spells, loosely, whatever it ends with.  *)
LEMMA SpellsTheEnd ==
    ASSUME NEW A, NEW c, NEW s, NEW t \in Seq(A), Spells(c, s, A, TRUE), EndsWith(s, t)
    PROVE  Spells(c, t, A, FALSE)
<1>1. /\ c \in Seq(Seq(A)) /\ s \in Seq(A) /\ Len(c) \in Nat /\ Len(s) \in Nat /\ Len(t) \in Nat
  BY DEF Spells
<1>2. PICK p : EndsAt(p, c, s, TRUE)
  BY DEF Spells
<1>3. PICK k : k = Len(s) - Len(t)
  OBVIOUS
<1>4. k \in Nat /\ Len(s) = k + Len(t) /\ Slice(s, k, Len(s)) = t
  BY <1>1, <1>3, EndsWithIs
<1>5. p \in [0..Len(c) -> 0..Len(s)] /\ p[0] = 0 /\ p[Len(c)] = Len(s)
  BY <1>2 DEF EndsAt
<1>6. PICK q : q = [i \in 0..Len(c) |-> IF p[i] <= k THEN 0 ELSE p[i] - k]
  OBVIOUS
<1>7. \A i \in 0..Len(c) : p[i] \in 0..Len(s)
  BY <1>5
<1>8. q \in [0..Len(c) -> 0..Len(t)]
  <2>1. ASSUME NEW i \in 0..Len(c) PROVE q[i] \in 0..Len(t)
    <3>1. p[i] \in 0..Len(s)
      BY <1>7
    <3>2. (IF p[i] <= k THEN 0 ELSE p[i] - k) \in 0..Len(t)
      BY <1>1, <1>4, <3>1
    <3>3. QED BY <1>6, <3>2
  <2>2. QED BY <1>6, <2>1
<1>9. q[0] = 0 /\ q[Len(c)] = Len(t)
  <2>1. 0 \in 0..Len(c) /\ Len(c) \in 0..Len(c)
    BY <1>1
  <2>2. q[0] = 0
    BY <1>4, <1>5, <1>6, <2>1
  <2>3. (IF Len(s) <= k THEN 0 ELSE Len(s) - k) = Len(t)
    BY <1>1, <1>4
  <2>4. QED BY <1>5, <1>6, <2>1, <2>2, <2>3
<1>10. ASSUME NEW i \in 1..Len(c)
       PROVE  q[i - 1] <= q[i] /\ Says(c[i], Slice(t, q[i - 1], q[i]), FALSE)
  <2>1. i \in 0..Len(c) /\ i - 1 \in 0..Len(c)
    BY <1>1
  <2>2. PICK a \in 0..Len(s), b \in 0..Len(s) : a = p[i - 1] /\ b = p[i]
    BY <1>7, <2>1
  <2>3. a <= b /\ c[i] = Slice(s, a, b)
    BY <1>2, <2>2 DEF EndsAt, Says
  <2>4. PICK x, y : x = q[i - 1] /\ y = q[i]
    OBVIOUS
  <2>5. x = (IF a <= k THEN 0 ELSE a - k) /\ y = (IF b <= k THEN 0 ELSE b - k)
    BY <1>6, <2>1, <2>2, <2>4
  <2>6. x \in 0..Len(t) /\ y \in x..Len(t) /\ y - x <= b - a /\ (y > x => b = k + y)
    BY <1>1, <1>4, <2>3, <2>5
  <2>7. b \in a..Len(s)
    BY <1>1, <2>3
  <2>8. /\ Slice(s, a, b) \in Seq(A) /\ Len(Slice(s, a, b)) = b - a
        /\ \A j \in 1..(b - a) : Slice(s, a, b)[j] = s[a + j]
    BY <1>1, <2>7, SliceIs
  <2>9. /\ Slice(t, x, y) \in Seq(A) /\ Len(Slice(t, x, y)) = y - x
        /\ \A j \in 1..(y - x) : Slice(t, x, y)[j] = t[x + j]
    BY <2>6, SliceIs
  <2>10. \A j \in 1..Len(t) : t[j] = s[k + j]
    <3>1. k \in 0..Len(s) /\ Len(s) \in k..Len(s) /\ Len(s) - k = Len(t)
      BY <1>1, <1>4
    <3>2. \A j \in 1..(Len(s) - k) : Slice(s, k, Len(s))[j] = s[k + j]
      BY <1>1, <3>1, SliceIs
    <3>3. QED BY <1>4, <3>1, <3>2
  <2>11. PICK g, h : g = Slice(s, a, b) /\ h = Slice(t, x, y)
    OBVIOUS
  <2>12. PICK m : m = (b - a) - (y - x)
    OBVIOUS
  <2>13. m \in 0..Len(g) /\ Len(g) \in m..Len(g) /\ Len(g) - m = Len(h) /\ g \in Seq(A) /\ h \in Seq(A)
         /\ Len(g) - Len(h) = m /\ Len(h) <= Len(g) /\ Len(h) = y - x
    <3>1. g \in Seq(A) /\ h \in Seq(A) /\ Len(g) = b - a /\ Len(h) = y - x
      BY <2>8, <2>9, <2>11
    <3>2. a \in Nat /\ b \in Nat /\ x \in Nat /\ y \in Nat /\ x <= y /\ a <= b /\ y - x <= b - a
      BY <1>1, <2>3, <2>6
    <3>3. m \in 0..(b - a) /\ (b - a) \in m..(b - a) /\ (b - a) - m = y - x /\ (b - a) - (y - x) = m
      BY <2>12, <3>2
    <3>4. PICK lg, lh : lg = b - a /\ lh = y - x
      OBVIOUS
    <3>5. Len(g) = lg /\ Len(h) = lh /\ m \in 0..lg /\ lg \in m..lg /\ lg - m = lh /\ lg - lh = m /\ lh <= lg
      BY <3>1, <3>2, <3>3, <3>4
    <3>6. QED BY <3>1, <3>5
  <2>14. /\ Slice(g, m, Len(g)) \in Seq(A) /\ Len(Slice(g, m, Len(g))) = Len(g) - m
         /\ \A j \in 1..(Len(g) - m) : Slice(g, m, Len(g))[j] = g[m + j]
    BY <2>13, SliceIs
  <2>15. \A j \in 1..Len(h) : g[m + j] = h[j]
    <3> SUFFICES ASSUME NEW j \in 1..Len(h) PROVE g[m + j] = h[j]
      OBVIOUS
    <3>1. j \in 1..(y - x) /\ y > x
      BY <2>6, <2>13
    <3>2. m + j \in 1..(b - a) /\ a + (m + j) = k + (x + j) /\ x + j \in 1..Len(t)
      <4>1. a \in Nat /\ b \in Nat /\ x \in Nat /\ y \in Nat /\ k \in Nat /\ x <= y /\ a <= b /\ y - x <= b - a
            /\ y <= Len(t) /\ Len(t) \in Nat
        BY <1>1, <1>4, <2>3, <2>6
      <4>2. b = k + y
        BY <2>6, <3>1
      <4>3. QED BY <2>12, <3>1, <4>1, <4>2
    <3>3. g[m + j] = s[a + (m + j)]
      BY <2>8, <2>11, <3>2
    <3>4. h[j] = t[x + j]
      BY <2>9, <2>11, <3>1
    <3>5. t[x + j] = s[k + (x + j)]
      BY <2>10, <3>2
    <3>6. QED BY <3>2, <3>3, <3>4, <3>5
  <2>16. Slice(g, m, Len(g)) = h
    <3>1. Len(Slice(g, m, Len(g))) = Len(h)
      BY <2>13, <2>14
    <3>2. \A j \in 1..Len(Slice(g, m, Len(g))) : Slice(g, m, Len(g))[j] = h[j]
      BY <2>13, <2>14, <2>15
    <3>3. QED BY <2>13, <2>14, <3>1, <3>2, SeqEqual
  <2>17. EndsWith(g, h)
    BY <2>13, <2>16, EndsWithIs
  <2>18. Says(c[i], Slice(t, q[i - 1], q[i]), FALSE)
    BY <2>3, <2>4, <2>11, <2>17 DEF Says
  <2>19. q[i - 1] <= q[i]
    BY <2>4, <2>6
  <2>20. QED BY <2>18, <2>19
<1>11. EndsAt(q, c, t, FALSE)
  BY <1>8, <1>9, <1>10 DEF EndsAt
<1>12. QED BY <1>1, <1>11 DEF Spells

LEMMA SpellsLoosely ==
    ASSUME NEW A, NEW c, NEW s, NEW exact \in BOOLEAN, Spells(c, s, A, TRUE)
    PROVE  Spells(c, s, A, exact)
<1>1. s \in Seq(A)
  BY DEF Spells
<1>2. EndsWith(s, s)
  BY <1>1, EndsWithSelf
<1>3. Spells(c, s, A, FALSE)
  BY <1>1, <1>2, SpellsTheEnd
<1>4. QED BY <1>3

LEMMA SpellsWidely ==
    ASSUME NEW A, NEW B, A \subseteq B, NEW c, NEW s, NEW exact, Spells(c, s, A, exact)
    PROVE  Spells(c, s, B, exact)
<1>1. \A r : r \in Seq(A) => r \in Seq(B)
  OBVIOUS
<1>2. Seq(A) \subseteq Seq(B)
  BY <1>1
<1>3. c \in Seq(Seq(A)) /\ s \in Seq(A)
  BY DEF Spells
<1>4. PICK R : R = Seq(A)
  OBVIOUS
<1>5. PICK Q : Q = Seq(B)
  OBVIOUS
<1>6. R \subseteq Q /\ c \in Seq(R)
  BY <1>2, <1>3, <1>4, <1>5
<1>7. c \in Seq(Q)
  BY <1>6
<1>8. QED BY <1>1, <1>3, <1>5, <1>7 DEF Spells

LEMMA FitsMore ==
    ASSUME NEW A, NEW c \in Seq(Seq(A)), NEW d \in Seq(Seq(A)), NEW max, Fits(c, max), Fits(d, max)
    PROVE  Fits(c \o d, max)
<1>1. /\ c \o d \in Seq(Seq(A)) /\ Len(c \o d) = Len(c) + Len(d) /\ Len(c) \in Nat /\ Len(d) \in Nat
      /\ \A i \in 1..(Len(c) + Len(d)) : (c \o d)[i] = IF i <= Len(c) THEN c[i] ELSE d[i - Len(c)]
  BY ConcatProperties
<1>2. DOMAIN (c \o d) = 1..(Len(c) + Len(d)) /\ DOMAIN c = 1..Len(c) /\ DOMAIN d = 1..Len(d)
  BY <1>1
<1>3. ASSUME NEW i \in 1..(Len(c) + Len(d)) PROVE Len((c \o d)[i]) <= max
  <2>1. CASE i <= Len(c)
    <3>1. i \in 1..Len(c)
      BY <1>1, <2>1
    <3>2. QED BY <1>1, <1>2, <2>1, <3>1 DEF Fits
  <2>2. CASE ~(i <= Len(c))
    <3>1. i - Len(c) \in 1..Len(d)
      BY <1>1, <2>2
    <3>2. QED BY <1>1, <1>2, <2>2, <3>1 DEF Fits
  <2>3. QED BY <2>1, <2>2
<1>4. QED BY <1>2, <1>3 DEF Fits

(* Chunks that spell a text and are not too long.                          *)
Good(c, s, A, max, exact) == Spells(c, s, A, exact) /\ Fits(c, max)

LEMMA GoodNothing == ASSUME NEW A, NEW max, NEW exact PROVE Good(<<>>, <<>>, A, max, exact)
BY SpellsNothing DEF Good, Fits

LEMMA GoodMore ==
    ASSUME NEW A, NEW max, NEW exact, NEW c, NEW s, NEW d, NEW t, Good(c, s, A, max, exact), Good(d, t, A, max, exact)
    PROVE  Good(c \o d, s \o t, A, max, exact)
<1>1. c \in Seq(Seq(A)) /\ d \in Seq(Seq(A))
  BY DEF Good, Spells
<1>2. Fits(c \o d, max)
  BY <1>1, FitsMore DEF Good
<1>3. Spells(c \o d, s \o t, A, exact)
  BY SpellsMore DEF Good
<1>4. QED BY <1>2, <1>3 DEF Good

(* The end of the i-th piece of a text of length len.                      *)
PieceEnd(i, max, len) == IF i * max < len THEN i * max ELSE len

ArePieces(n, max, len) ==
    /\ n \in Nat /\ PieceEnd(0, max, len) = 0 /\ PieceEnd(n, max, len) = len
    /\ \A i \in 0..n : PieceEnd(i, max, len) \in 0..len
    /\ \A i \in 1..n : /\ PieceEnd(i - 1, max, len) = (i - 1) * max
                       /\ PieceEnd(i - 1, max, len) <= PieceEnd(i, max, len)
                       /\ PieceEnd(i, max, len) - PieceEnd(i - 1, max, len) <= max

LEMMA PieceEnds ==
    ASSUME NEW max \in Nat \ {0}, NEW len \in Nat, NEW n, n = (len + max - 1) \div max
    PROVE  ArePieces(n, max, len)
<1>1. len + max - 1 \in Nat
  OBVIOUS
<1>2. n \in Nat /\ max * n <= len + max - 1 /\ len + max - 1 < max * n + max
  BY <1>1, QuotientBounds
<1>3. \A i \in Nat : i * max \in Nat
  OBVIOUS
<1>4. n * max = max * n
  BY <1>2
<1>5. n * max <= len + max - 1 /\ len <= n * max
  BY <1>2, <1>3, <1>4
<1>6. PieceEnd(0, max, len) = 0 /\ PieceEnd(n, max, len) = len
  BY <1>2, <1>3, <1>5 DEF PieceEnd
<1>7. \A i \in 0..n : PieceEnd(i, max, len) \in 0..len
  BY <1>2, <1>3 DEF PieceEnd
<1>8. ASSUME NEW i \in 1..n
      PROVE  /\ PieceEnd(i - 1, max, len) = (i - 1) * max
             /\ PieceEnd(i - 1, max, len) <= PieceEnd(i, max, len)
             /\ PieceEnd(i, max, len) - PieceEnd(i - 1, max, len) <= max
  <2>1. PICK j \in Nat : i = j + 1 /\ j = i - 1
    <3>1. i - 1 \in Nat /\ i = (i - 1) + 1
      BY <1>2
    <3>2. QED BY <3>1
  <2>2. PICK a \in Nat : a = j * max
    BY <1>3
  <2>3. (j + 1) * max = j * max + max
    OBVIOUS
  <2>4. i * max = a + max
    BY <2>1, <2>2, <2>3
  <2>5. i * max <= n * max
    BY <1>2, TimesGrows
  <2>6. a < len
    BY <1>5, <2>4, <2>5
  <2>7. PieceEnd(j, max, len) = a
    BY <2>2, <2>6 DEF PieceEnd
  <2>8. PieceEnd(i, max, len) = IF a + max < len THEN a + max ELSE len
    BY <2>4 DEF PieceEnd
  <2>9. QED BY <2>1, <2>2, <2>6, <2>7, <2>8
<1>9. QED BY <1>2, <1>6, <1>7, <1>8 DEF ArePieces

LEMMA HardSplitGood ==
    ASSUME NEW A, NEW s \in Seq(A), NEW max \in Nat \ {0}, NEW exact \in BOOLEAN
    PROVE  Good(HardSplit(s, max), s, A, max, exact)
<1>1. PICK len \in Nat : len = Len(s)
  OBVIOUS
<1>2. PICK n : n = (len + max - 1) \div max
  OBVIOUS
<1>3. /\ n \in Nat /\ PieceEnd(0, max, len) = 0 /\ PieceEnd(n, max, len) = len
      /\ \A i \in 0..n : PieceEnd(i, max, len) \in 0..len
      /\ \A i \in 1..n : /\ PieceEnd(i - 1, max, len) = (i - 1) * max
                         /\ PieceEnd(i - 1, max, len) <= PieceEnd(i, max, len)
                         /\ PieceEnd(i, max, len) - PieceEnd(i - 1, max, len) <= max
  <2>1. ArePieces(n, max, len)
    BY <1>2, PieceEnds
  <2>2. QED BY <2>1 DEF ArePieces
<1>4. PICK p : p = [i \in 0..n |-> PieceEnd(i, max, len)]
  OBVIOUS
<1>5. p \in [0..n -> 0..len] /\ p[0] = 0 /\ p[n] = len
  <2>1. 0 \in 0..n /\ n \in 0..n
    BY <1>3
  <2>2. QED BY <1>3, <1>4, <2>1
<1>6. PICK h : h = HardSplit(s, max)
  OBVIOUS
<1>7. h = [i \in 1..n |-> SubSeq(s, (i - 1) * max + 1, PieceEnd(i, max, len))]
  BY <1>1, <1>2, <1>6 DEF HardSplit, PieceEnd
<1>8. ASSUME NEW i \in 1..n
      PROVE  /\ h[i] = Slice(s, p[i - 1], p[i]) /\ h[i] \in Seq(A) /\ Len(h[i]) <= max
             /\ p[i - 1] <= p[i]
  <2>1. i \in 0..n /\ i - 1 \in 0..n
    BY <1>3
  <2>2. p[i - 1] = (i - 1) * max /\ p[i - 1] <= p[i] /\ p[i] - p[i - 1] <= max /\ p[i] = PieceEnd(i, max, len)
    BY <1>3, <1>4, <2>1
  <2>3. h[i] = Slice(s, p[i - 1], p[i])
    BY <1>7, <2>2 DEF Slice
  <2>4. PICK a \in 0..len, b \in 0..len : a = p[i - 1] /\ b = p[i]
    BY <1>5, <2>1
  <2>5. b \in a..Len(s) /\ a \in 0..Len(s)
    BY <1>1, <2>2, <2>4
  <2>6. Slice(s, a, b) \in Seq(A) /\ Len(Slice(s, a, b)) = b - a
    BY <2>5, SliceIs
  <2>7. QED BY <2>2, <2>3, <2>4, <2>6
<1>9. h \in [1..n -> Seq(A)]
  BY <1>7, <1>8
<1>10. h \in Seq(Seq(A)) /\ Len(h) = n
  <2>1. PICK R : R = Seq(A)
    OBVIOUS
  <2>2. h \in Seq(R) /\ Len(h) = n
    BY <1>3, <1>9, <2>1, FunctionIsSeq
  <2>3. QED BY <2>1, <2>2
<1>11. EndsAt(p, h, s, TRUE)
  BY <1>1, <1>5, <1>8, <1>10 DEF EndsAt, Says
<1>12. Spells(h, s, A, exact)
  <2>1. Spells(h, s, A, TRUE)
    BY <1>10, <1>11 DEF Spells
  <2>2. QED BY <2>1, SpellsLoosely
<1>13. Fits(h, max)
  <2>1. DOMAIN h = 1..n
    BY <1>7
  <2>2. QED BY <1>8, <2>1 DEF Fits
<1>14. QED BY <1>6, <1>12, <1>13 DEF Good

LEMMA PartsExact ==
    ASSUME NEW A, NEW s \in Seq(A), NEW k
    PROVE  Spells(Parts(s, k), s, A, TRUE)
<1>1. PICK len \in Nat : len = Len(s)
  OBVIOUS
<1>2. PICK all : all = [i \in 1..(len + 1) |-> i]
  OBVIOUS
<1>3. PICK keep : keep = {p + 1 : p \in Cuts(s, k) \cup {0, len}}
  OBVIOUS
<1>4. 1 \in keep /\ len + 1 \in keep
  <2>1. 0 + 1 \in keep /\ len + 1 \in keep
    BY <1>3
  <2>2. QED BY <2>1
<1>5. all \in Seq(Nat) /\ Len(all) = len + 1
  BY <1>2
<1>6. PICK at : at = Places(all, keep)
  OBVIOUS
<1>7. /\ at \in Seq(1..(len + 1)) /\ Len(at) \in Nat /\ Increases(at, Len(at))
      /\ \A m \in 1..(len + 1) : m \in keep => \E i \in 1..Len(at) : at[i] = m
  <2>1. all \in Seq(Nat)
    BY <1>5
  <2>2. /\ Places(all, keep) \in Seq(1..Len(all)) /\ Len(Places(all, keep)) \in Nat
        /\ \A i \in 1..Len(Places(all, keep)) :
                Places(all, keep)[i] \in keep /\ Places(all, keep)[i] \in 1..Len(all)
        /\ Increases(Places(all, keep), Len(Places(all, keep)))
        /\ \A m \in 1..Len(all) : m \in keep =>
                \E i \in 1..Len(Places(all, keep)) : Places(all, keep)[i] = m
    BY <2>1, PlacesSelect
  <2>3. QED BY <1>5, <1>6, <2>2
<1>8. \A i \in 1..Len(at) : at[i] \in 1..(len + 1)
  BY <1>7
<1>9. PICK i \in 1..Len(at) : at[i] = 1
  BY <1>4, <1>7
<1>10. PICK j \in 1..Len(at) : at[j] = len + 1
  <2>1. len + 1 \in 1..(len + 1)
    OBVIOUS
  <2>2. QED BY <1>4, <1>7, <2>1
<1>11. i = 1
  <2>1. 1 \in 1..Len(at) /\ at[1] >= 1 /\ at[1] \in Int
    BY <1>7, <1>8, <1>9
  <2>2. 1 < i => at[1] < at[i]
    BY <1>7, <2>1 DEF Increases
  <2>3. QED BY <1>7, <1>9, <2>1, <2>2
<1>12. j = Len(at)
  <2>1. Len(at) \in 1..Len(at)
    BY <1>7, <1>9
  <2>2. at[Len(at)] \in 1..(len + 1)
    BY <1>8, <2>1
  <2>3. j < Len(at) => at[j] < at[Len(at)]
    BY <1>7, <2>1 DEF Increases
  <2>4. QED BY <1>7, <1>10, <2>2, <2>3
<1>13. PICK n \in Nat : Len(at) = n + 1 /\ n = Len(at) - 1
  <2>1. Len(at) - 1 \in Nat /\ Len(at) = (Len(at) - 1) + 1
    BY <1>7, <1>9
  <2>2. QED BY <2>1
<1>14. PICK p : p = [m \in 0..n |-> at[m + 1] - 1]
  OBVIOUS
<1>15. \A m \in 0..n : m + 1 \in 1..Len(at)
  BY <1>13
<1>16. p \in [0..n -> 0..len]
  <2>1. ASSUME NEW m \in 0..n PROVE p[m] \in 0..len
    <3>1. at[m + 1] \in 1..(len + 1)
      BY <1>8, <1>15
    <3>2. at[m + 1] - 1 \in 0..len
      BY <3>1
    <3>3. QED BY <1>14, <3>2
  <2>2. QED BY <1>14, <2>1
<1>17. p[0] = 0 /\ p[n] = len
  <2>1. 0 \in 0..n /\ n \in 0..n /\ 0 + 1 = 1
    OBVIOUS
  <2>2. at[0 + 1] - 1 = 0 /\ at[n + 1] - 1 = len
    BY <1>9, <1>10, <1>11, <1>12, <1>13, <2>1
  <2>3. QED BY <1>14, <2>1, <2>2
<1>18. PICK h : h = Parts(s, k)
  OBVIOUS
<1>19. h = [m \in 1..n |-> SubSeq(s, at[m], at[m + 1] - 1)]
  <2>1. h = [m \in 1..(Len(at) - 1) |-> SubSeq(s, at[m], at[m + 1] - 1)]
    BY Zenon, <1>1, <1>2, <1>3, <1>6, <1>18 DEF Parts
  <2>2. QED BY <1>13, <2>1
<1>20. ASSUME NEW m \in 1..n
       PROVE  p[m - 1] <= p[m] /\ h[m] = Slice(s, p[m - 1], p[m]) /\ h[m] \in Seq(A)
  <2>1. m - 1 \in 0..n /\ m \in 0..n /\ (m - 1) + 1 = m /\ m \in 1..Len(at) /\ m + 1 \in 1..Len(at)
    BY <1>13
  <2>2. at[m] \in 1..(len + 1) /\ at[m + 1] \in 1..(len + 1)
    BY <1>8, <2>1
  <2>3. at[m] < at[m + 1]
    <3>1. m < m + 1
      OBVIOUS
    <3>2. QED BY <1>7, <2>1, <3>1 DEF Increases
  <2>4. p[m - 1] = at[m] - 1 /\ p[m] = at[m + 1] - 1
    BY <1>14, <2>1
  <2>5. p[m - 1] + 1 = at[m] /\ p[m - 1] <= p[m]
    BY <2>2, <2>3, <2>4
  <2>6. h[m] = Slice(s, p[m - 1], p[m])
    BY <1>19, <2>4, <2>5 DEF Slice
  <2>7. PICK a \in 0..len, b \in 0..len : a = p[m - 1] /\ b = p[m]
    BY <1>16, <2>1
  <2>8. a \in 0..Len(s) /\ b \in a..Len(s)
    BY <1>1, <2>5, <2>7
  <2>9. Slice(s, a, b) \in Seq(A)
    BY <2>8, SliceIs
  <2>10. QED BY <2>5, <2>6, <2>7, <2>9
<1>21. h \in Seq(Seq(A)) /\ Len(h) = n
  <2>1. PICK R : R = Seq(A)
    OBVIOUS
  <2>2. h \in [1..n -> R]
    BY <1>19, <1>20, <2>1
  <2>3. h \in Seq(R) /\ Len(h) = n
    BY <2>2, FunctionIsSeq
  <2>4. QED BY <2>1, <2>3
<1>22. EndsAt(p, h, s, TRUE)
  BY <1>1, <1>16, <1>17, <1>20, <1>21 DEF EndsAt, Says
<1>23. QED BY <1>18, <1>21, <1>22 DEF Spells

(***************************************************************************)
(* What is built step by step from values of one kind is of that kind.     *)
(***************************************************************************)
LEMMA Stays ==
    ASSUME NEW N \in Nat, NEW g, NEW X, g[0] \in X[0], \A n \in 1..N : g[n - 1] \in X[n - 1] => g[n] \in X[n]
    PROVE  \A n \in 0..N : g[n] \in X[n]
<1> DEFINE S == {n \in Nat : n <= N => g[n] \in X[n]}
<1>1. 0 \in S
  OBVIOUS
<1>2. ASSUME NEW n \in Nat, n \in S PROVE n + 1 \in S
  <2> SUFFICES ASSUME n + 1 <= N PROVE g[n + 1] \in X[n + 1]
    OBVIOUS
  <2>1. n + 1 \in 1..N /\ (n + 1) - 1 = n /\ n <= N
    OBVIOUS
  <2>2. QED BY <1>2, <2>1
<1>3. Nat \subseteq S
  <2> HIDE DEF S
  <2>1. QED BY <1>1, <1>2, NatInSet
<1>4. QED BY <1>3

Steps(f, a, step, top) == f = [n \in 0..top |-> IF n = 0 THEN a ELSE step[n][f[n - 1]]]

LEMMA Recursion ==
    ASSUME NEW N \in Nat, NEW X, NEW a, NEW step, a \in X[0],
           \A n \in 1..N : \A x \in X[n - 1] : step[n][x] \in X[n]
    PROVE  \E f : Steps(f, a, step, N) /\ \A n \in 0..N : f[n] \in X[n]
<1> DEFINE S == {n \in Nat : \E f : Steps(f, a, step, n)}
<1>1. 0 \in S
  <2>1. Steps([n \in 0..0 |-> a], a, step, 0)
    BY DEF Steps
  <2>2. QED BY <2>1
<1>2. ASSUME NEW n \in Nat, n \in S PROVE n + 1 \in S
  <2>1. PICK f : Steps(f, a, step, n)
    BY <1>2
  <2> DEFINE g == [m \in 0..(n + 1) |-> IF m <= n THEN f[m] ELSE step[m][f[n]]]
  <2>2. ASSUME NEW m \in 0..(n + 1) PROVE g[m] = IF m = 0 THEN a ELSE step[m][g[m - 1]]
    <3>1. CASE m <= n
      <4>1. f[m] = IF m = 0 THEN a ELSE step[m][f[m - 1]]
        <5>1. m \in 0..n
          BY <3>1
        <5>2. QED BY <2>1, <5>1 DEF Steps
      <4>2. QED BY <3>1, <4>1
    <3>2. CASE m = n + 1
      BY <3>2
    <3>3. QED BY <3>1, <3>2
  <2>3. Steps(g, a, step, n + 1)
    BY <2>2 DEF Steps
  <2> HIDE DEF g
  <2>4. QED BY <2>3
<1>3. N \in S
  <2> HIDE DEF S
  <2>1. Nat \subseteq S
    BY <1>1, <1>2, NatInSet
  <2>2. QED BY <2>1
<1>4. PICK f : Steps(f, a, step, N)
  BY <1>3
<1>5. f[0] \in X[0]
  BY <1>4 DEF Steps
<1>6. ASSUME NEW n \in 1..N, f[n - 1] \in X[n - 1] PROVE f[n] \in X[n]
  <2>1. n \in 0..N /\ n # 0
    OBVIOUS
  <2>2. f[n] = step[n][f[n - 1]]
    BY <1>4, <2>1 DEF Steps
  <2>3. QED BY <1>6, <2>2
<1>7. \A n \in 0..N : f[n] \in X[n]
  BY <1>5, <1>6, Stays
<1>8. QED BY <1>4, <1>7

(***************************************************************************)
(* What is gathered from the parts of a text spells it, if what is left to *)
(* something finer does.                                                   *)
(***************************************************************************)
Finer(finer, A, max, exact) == \A t \in Seq(A) : Good(finer[t], t, A, max, exact)

Accs(A) == [chunks : Seq(Seq(A)), buf : Seq(A)]
Holds(acc, t, A, max, exact) == acc \in Accs(A) /\ \E u \in Seq(A) : Good(acc.chunks, u, A, max, exact) /\ u \o acc.buf = t

LEMMA AddHolds ==
    ASSUME NEW A, NEW max, NEW exact, NEW finer, Finer(finer, A, max, exact),
           NEW acc, NEW t \in Seq(A), NEW part \in Seq(A), Holds(acc, t, A, max, exact)
    PROVE  Holds(Add(acc, part, finer, max), t \o part, A, max, exact)
<1>1. PICK chunks, buf : chunks \in Seq(Seq(A)) /\ buf \in Seq(A) /\ acc = [chunks |-> chunks, buf |-> buf]
  <2>1. acc.chunks \in Seq(Seq(A)) /\ acc.buf \in Seq(A) /\ acc = [chunks |-> acc.chunks, buf |-> acc.buf]
    BY DEF Holds, Accs
  <2>2. QED BY <2>1
<1>2. PICK u \in Seq(A) : Good(chunks, u, A, max, exact) /\ u \o buf = t
  BY <1>1 DEF Holds
<1>3. buf \in Seq(A) /\ part \in Seq(A)
  BY <1>1
<1>4. PICK fb, fp : fb = finer[buf] /\ fp = finer[part]
  OBVIOUS
<1>5. Good(fb, buf, A, max, exact) /\ Good(fp, part, A, max, exact)
  BY <1>3, <1>4 DEF Finer
<1>6. Good(chunks \o fb, t, A, max, exact)
  BY <1>2, <1>5, GoodMore
<1>7. Good((chunks \o fb) \o fp, t \o part, A, max, exact)
  BY <1>5, <1>6, GoodMore
<1>8. t \o part \in Seq(A)
  BY ConcatProperties
<1>9. PICK none : none = <<>> /\ none \in Seq(A)
  BY EmptySeq
<1>10. Add(acc, part, finer, max) =
        IF Len(buf) + Len(part) <= max THEN [chunks |-> chunks, buf |-> buf \o part]
        ELSE IF Len(part) > max THEN [chunks |-> (chunks \o fb) \o fp, buf |-> none]
        ELSE [chunks |-> chunks \o fb, buf |-> part]
  <2>1. acc.chunks = chunks /\ acc.buf = buf
    BY <1>1
  <2>2. QED BY <1>4, <1>9, <2>1 DEF Add
<1>11. PICK v : v = buf \o part /\ v \in Seq(A)
  BY <1>3, ConcatProperties
<1>12. u \o v = t \o part
  <2>1. (u \o buf) \o part = u \o (buf \o part)
    BY <1>3, ConcatAssociative
  <2>2. QED BY <1>2, <1>11, <2>1
<1>13. (t \o part) \o none = t \o part
  BY <1>8, <1>9, ConcatEmptySeq
<1>14. PICK both, one : both = (chunks \o fb) \o fp /\ one = chunks \o fb
  OBVIOUS
<1>15. both \in Seq(Seq(A)) /\ one \in Seq(Seq(A))
  BY <1>6, <1>7, <1>14 DEF Good, Spells
<1>16. Holds([chunks |-> chunks, buf |-> v], t \o part, A, max, exact)
  BY <1>1, <1>2, <1>11, <1>12 DEF Holds, Accs
<1>17. Holds([chunks |-> both, buf |-> none], t \o part, A, max, exact)
  BY <1>7, <1>8, <1>9, <1>13, <1>14, <1>15 DEF Holds, Accs
<1>18. Holds([chunks |-> one, buf |-> part], t \o part, A, max, exact)
  BY <1>6, <1>14, <1>15 DEF Holds, Accs
<1>19. QED BY <1>10, <1>11, <1>14, <1>16, <1>17, <1>18

GatherSteps(f, parts, finer, max) ==
    f = [n \in 0..Len(parts) |->
            IF n = 0 THEN [chunks |-> <<>>, buf |-> <<>>] ELSE Add(f[n - 1], parts[n], finer, max)]
GatheredUpTo(parts, finer, max) == CHOOSE f : GatherSteps(f, parts, finer, max)

LEMMA GatheredIs ==
    \A parts, finer, max :
        Gathered(parts, finer, max) = GatheredUpTo(parts, finer, max)[Len(parts)].chunks
                                        \o HardSplit(GatheredUpTo(parts, finer, max)[Len(parts)].buf, max)
BY Zenon DEF Gathered, GatheredUpTo, GatherSteps

LEMMA GatheredGood ==
    ASSUME NEW A, NEW max \in Nat \ {0}, NEW exact \in BOOLEAN, NEW finer, Finer(finer, A, max, exact),
           NEW s, NEW parts, Spells(parts, s, A, TRUE)
    PROVE  Good(Gathered(parts, finer, max), s, A, max, exact)
<1>1. /\ parts \in Seq(Seq(A)) /\ s \in Seq(A) /\ Len(s) \in Nat
  BY DEF Spells
<1>2. PICK N \in Nat : N = Len(parts)
  BY <1>1
<1>3. PICK p : EndsAt(p, parts, s, TRUE)
  BY DEF Spells
<1>4. p \in [0..N -> 0..Len(s)] /\ p[0] = 0 /\ p[N] = Len(s)
  BY <1>2, <1>3 DEF EndsAt
<1>5. \A n \in 0..N : p[n] \in 0..Len(s)
  BY <1>4
<1>6. PICK X : X = [n \in 0..N |-> {acc \in Accs(A) : Holds(acc, Slice(s, 0, p[n]), A, max, exact)}]
  OBVIOUS
<1>7. \A n \in 0..N : \A acc : acc \in X[n] <=> Holds(acc, Slice(s, 0, p[n]), A, max, exact)
  BY <1>6 DEF Holds
<1>8. ASSUME NEW n \in 1..N, NEW acc \in X[n - 1] PROVE Add(acc, parts[n], finer, max) \in X[n]
  <2>1. n - 1 \in 0..N /\ n \in 0..N
    OBVIOUS
  <2>2. Holds(acc, Slice(s, 0, p[n - 1]), A, max, exact)
    BY <1>7, <2>1
  <2>3. PICK a \in 0..Len(s), b \in 0..Len(s) : a = p[n - 1] /\ b = p[n]
    BY <1>5, <2>1
  <2>4. a <= b /\ parts[n] = Slice(s, a, b)
    BY <1>2, <1>3, <2>3 DEF EndsAt, Says
  <2>5. 0 \in 0..Len(s) /\ a \in 0..Len(s) /\ b \in a..Len(s) /\ a \in 0..Len(s)
    BY <1>1, <2>4
  <2>6. Slice(s, 0, a) \in Seq(A) /\ Slice(s, a, b) \in Seq(A)
    BY <1>1, <2>5, SliceIs
  <2>7. Slice(s, 0, a) \o Slice(s, a, b) = Slice(s, 0, b)
    BY <1>1, <2>5, SliceJoins
  <2>8. Holds(Add(acc, parts[n], finer, max), Slice(s, 0, a) \o Slice(s, a, b), A, max, exact)
    BY <2>2, <2>3, <2>4, <2>6, AddHolds
  <2>9. QED BY <1>7, <2>1, <2>3, <2>7, <2>8
<1>9. PICK nil : nil = [chunks |-> <<>>, buf |-> <<>>]
  OBVIOUS
<1>10. nil \in X[0]
  <2>1. PICK none : none = <<>> /\ none \in Seq(A) /\ none \in Seq(Seq(A)) /\ Len(none) = 0
    BY EmptySeq
  <2>2. Slice(s, 0, 0) = none
    <3>1. 0 \in 0..Len(s) /\ 0 \in 0..0
      BY <1>1
    <3>2. Slice(s, 0, 0) \in Seq(A) /\ Len(Slice(s, 0, 0)) = 0 - 0
      BY <1>1, <3>1, SliceIs
    <3>3. Len(Slice(s, 0, 0)) = 0
      BY <3>2
    <3>4. QED BY <2>1, <3>2, <3>3, EmptySeq
  <2>3. none \o none = none
    BY <2>1, ConcatEmptySeq
  <2>4. Good(none, none, A, max, exact)
    BY <2>1, GoodNothing
  <2>5. nil = [chunks |-> none, buf |-> none]
    BY <1>9, <2>1
  <2>6. Holds(nil, none, A, max, exact)
    BY <2>1, <2>3, <2>4, <2>5 DEF Holds, Accs
  <2>7. 0 \in 0..N
    OBVIOUS
  <2>8. QED BY <1>4, <1>7, <2>2, <2>6, <2>7
<1>11. \E f : GatherSteps(f, parts, finer, max)
  <2>1. PICK step : step = [n \in 1..N |-> [x \in X[n - 1] |-> Add(x, parts[n], finer, max)]]
    OBVIOUS
  <2>2. \A n \in 1..N : \A x \in X[n - 1] : step[n][x] = Add(x, parts[n], finer, max)
    BY <2>1
  <2>3. \A n \in 1..N : \A x \in X[n - 1] : step[n][x] \in X[n]
    BY <1>8, <2>2
  <2>4. PICK f : Steps(f, nil, step, N) /\ \A n \in 0..N : f[n] \in X[n]
    BY <1>10, <2>3, Recursion
  <2>5. ASSUME NEW n \in 0..N
        PROVE  f[n] = IF n = 0 THEN nil ELSE Add(f[n - 1], parts[n], finer, max)
    <3>1. CASE n = 0
      BY <2>4, <3>1 DEF Steps
    <3>2. CASE n # 0
      <4>1. n \in 1..N /\ n - 1 \in 0..N
        BY <3>2
      <4>2. f[n - 1] \in X[n - 1]
        BY <2>4, <4>1
      <4>3. f[n] = step[n][f[n - 1]]
        BY <2>4, <3>2 DEF Steps
      <4>4. QED BY <2>2, <3>2, <4>1, <4>2, <4>3
    <3>3. QED BY <3>1, <3>2
  <2>6. f = [n \in 0..N |-> IF n = 0 THEN nil ELSE Add(f[n - 1], parts[n], finer, max)]
    <3>1. f = [n \in 0..N |-> f[n]]
      BY <2>4 DEF Steps
    <3>2. QED BY <2>5, <3>1
  <2>7. QED BY <1>2, <1>9, <2>6 DEF GatherSteps
<1>12. PICK g : g = GatheredUpTo(parts, finer, max)
  OBVIOUS
<1>13. GatherSteps(g, parts, finer, max)
  BY Zenon, <1>11, <1>12 DEF GatheredUpTo
<1>14. g[0] = nil /\ \A n \in 1..N : g[n] = Add(g[n - 1], parts[n], finer, max)
  <2>1. g = [n \in 0..N |-> IF n = 0 THEN nil ELSE Add(g[n - 1], parts[n], finer, max)]
    BY <1>2, <1>9, <1>13 DEF GatherSteps
  <2>2. 0 \in 0..N /\ \A n \in 1..N : n \in 0..N /\ n # 0
    OBVIOUS
  <2>3. QED BY <2>1, <2>2
<1>15. \A n \in 0..N : g[n] \in X[n]
  <2>1. g[0] \in X[0] /\ \A n \in 1..N : g[n - 1] \in X[n - 1] => g[n] \in X[n]
    BY <1>8, <1>10, <1>14
  <2>2. QED BY <2>1, Stays
<1>16. Holds(g[N], s, A, max, exact)
  <2>1. N \in 0..N
    OBVIOUS
  <2>2. Slice(s, 0, p[N]) = s
    BY <1>1, <1>4, SliceAll
  <2>3. QED BY <1>7, <1>15, <2>1, <2>2
<1>17. PICK chunks, buf : chunks = g[N].chunks /\ buf = g[N].buf
  OBVIOUS
<1>18. chunks \in Seq(Seq(A)) /\ buf \in Seq(A)
  BY <1>16, <1>17 DEF Holds, Accs
<1>19. PICK u \in Seq(A) : Good(chunks, u, A, max, exact) /\ u \o buf = s
  BY <1>16, <1>17 DEF Holds
<1>20. Good(HardSplit(buf, max), buf, A, max, exact)
  BY <1>18, HardSplitGood
<1>21. Good(chunks \o HardSplit(buf, max), s, A, max, exact)
  BY <1>19, <1>20, GoodMore
<1>22. Gathered(parts, finer, max) = chunks \o HardSplit(buf, max)
  BY <1>2, <1>12, <1>17, GatheredIs
<1>23. QED BY <1>21, <1>22

LEMMA OwnElements == ASSUME NEW A, NEW s \in Seq(A) PROVE s \in Seq(ToSet(s)) /\ ToSet(s) \subseteq A
<1>1. Len(s) \in Nat /\ s = [i \in 1..Len(s) |-> s[i]] /\ DOMAIN s = 1..Len(s)
  OBVIOUS
<1>2. s \in [1..Len(s) -> ToSet(s)]
  BY <1>1 DEF ToSet
<1>3. s \in Seq(ToSet(s))
  BY <1>1, <1>2, FunctionIsSeq
<1>4. QED BY <1>3, ToSetIs

LEMMA ResplitGood ==
    ASSUME NEW A, NEW s \in Seq(A), NEW max \in Nat \ {0}
    PROVE  Good(Resplit(s, max), s, A, max, TRUE)
<1>1. CASE Len(s) > max
  <2>1. PICK B : B = ToSet(s)
    OBVIOUS
  <2>2. s \in Seq(B) /\ B \subseteq A
    BY <2>1, OwnElements
  <2>3. PICK hard : hard = [t \in Seq(B) |-> HardSplit(t, max)]
    OBVIOUS
  <2>4. Finer(hard, B, max, TRUE)
    BY <2>3, HardSplitGood DEF Finer
  <2>5. Spells(Parts(s, Separators), s, B, TRUE)
    BY <2>2, PartsExact
  <2>6. Good(Gathered(Parts(s, Separators), hard, max), s, B, max, TRUE)
    BY <2>4, <2>5, GatheredGood
  <2>7. Resplit(s, max) = Gathered(Parts(s, Separators), hard, max)
    BY <1>1, <2>1, <2>3 DEF Resplit
  <2>8. QED BY <2>2, <2>6, <2>7, SpellsWidely DEF Good
<1>2. CASE ~(Len(s) > max)
  <2>1. PICK one : one = <<s>>
    OBVIOUS
  <2>2. Spells(one, s, A, TRUE)
    BY <2>1, SpellsOne DEF Says
  <2>3. DOMAIN one = 1..1 /\ one[1] = s
    BY <2>1
  <2>4. Len(s) \in Nat
    OBVIOUS
  <2>5. Len(s) <= max
    BY <1>2, <2>4
  <2>6. Fits(one, max)
    BY <2>3, <2>5 DEF Fits
  <2>7. Resplit(s, max) = one
    BY <1>2, <2>1 DEF Resplit
  <2>8. QED BY <2>2, <2>6, <2>7 DEF Good
<1>3. QED BY <1>1, <1>2

LEMMA EndsWithMore ==
    ASSUME NEW A, NEW e \in Seq(A), NEW c \in Seq(A), NEW t \in Seq(A), EndsWith(c, t)
    PROVE  EndsWith(e \o c, t)
<1>1. Len(e) \in Nat /\ Len(c) \in Nat /\ Len(t) \in Nat
  OBVIOUS
<1>2. Len(t) <= Len(c) /\ Slice(c, Len(c) - Len(t), Len(c)) = t
  BY EndsWithIs
<1>3. PICK k \in Nat : k = Len(c) - Len(t)
  BY <1>1, <1>2
<1>4. k \in 0..Len(c) /\ Len(c) \in k..Len(c)
  BY <1>1, <1>2, <1>3
<1>5. Slice(e \o c, Len(e) + k, Len(e) + Len(c)) = Slice(c, k, Len(c))
  BY <1>4, SliceOfSecond
<1>6. e \o c \in Seq(A) /\ Len(e \o c) = Len(e) + Len(c)
  BY ConcatProperties
<1>7. PICK u : u = e \o c
  OBVIOUS
<1>8. u \in Seq(A) /\ Len(u) = Len(e) + Len(c) /\ Len(u) - Len(t) = Len(e) + k /\ Len(t) <= Len(u)
  BY <1>1, <1>2, <1>3, <1>6, <1>7
<1>9. Slice(u, Len(u) - Len(t), Len(u)) = t
  BY <1>2, <1>3, <1>5, <1>7, <1>8
<1>10. EndsWith(u, t)
  BY <1>8, <1>9, EndsWithIs
<1>11. QED BY <1>7, <1>10

LEMMA TailOfType ==
    ASSUME NEW A, NEW prev \in Seq(A), NEW overlap \in Nat
    PROVE  TailOf(prev, overlap) \in Seq(A)
<1>1. CASE Len(prev) > overlap
  <2>1. PICK k \in Nat : k = Len(prev) - overlap
    BY <1>1
  <2>2. k \in 0..Len(prev) /\ Len(prev) \in k..Len(prev)
    BY <1>1, <2>1
  <2>3. Slice(prev, k, Len(prev)) \in Seq(A)
    BY <2>2, SliceIs
  <2>4. QED BY <1>1, <2>1, <2>3 DEF TailOf, Slice
<1>2. CASE ~(Len(prev) > overlap)
  BY <1>2, EmptySeq DEF TailOf
<1>3. QED BY <1>1, <1>2

(* What an overlap adds to a chunk stands before it.                       *)
Overlaps(done, u, A, max) == Good(done, u, A, max, FALSE) /\ done # <<>>

LEMMA AddOverlappedGood ==
    ASSUME NEW A, NEW max \in Nat \ {0}, NEW overlap \in Nat, NEW done, NEW u, Overlaps(done, u, A, max),
           NEW chunk \in Seq(A), NEW t \in Seq(A), EndsWith(chunk, t)
    PROVE  Overlaps(AddOverlapped(done, chunk, max, overlap), u \o t, A, max)
<1>1. done \in Seq(Seq(A)) /\ done # <<>>
  BY DEF Overlaps, Good, Spells
<1>2. Len(done) \in Nat /\ Len(done) # 0
  BY <1>1, EmptySeq
<1>3. Last(done) \in Seq(A)
  BY <1>1, <1>2 DEF Last
<1>4. PICK e \in Seq(A) : e = TailOf(Last(done), overlap)
  BY <1>3, TailOfType
<1>5. PICK both : both = e \o chunk
  OBVIOUS
<1>6. both \in Seq(A) /\ EndsWith(both, t)
  BY <1>5, ConcatProperties, EndsWithMore
<1>7. PICK more : more = Resplit(both, max)
  OBVIOUS
<1>8. Good(more, both, A, max, TRUE)
  BY <1>6, <1>7, ResplitGood
<1>9. Good(more, t, A, max, FALSE)
  BY <1>6, <1>8, SpellsTheEnd DEF Good
<1>10. Good(done \o more, u \o t, A, max, FALSE)
  BY <1>9, GoodMore DEF Overlaps
<1>11. more \in Seq(Seq(A))
  BY <1>9 DEF Good, Spells
<1>12. done \o more # <<>>
  <2>1. Len(done \o more) = Len(done) + Len(more) /\ Len(more) \in Nat
    BY <1>1, <1>11, ConcatProperties
  <2>2. Len(done \o more) # 0
    BY <1>2, <2>1
  <2>3. PICK none : none = <<>> /\ Len(none) = 0
    OBVIOUS
  <2>4. QED BY <2>2, <2>3
<1>13. AddOverlapped(done, chunk, max, overlap) = done \o more
  BY <1>4, <1>5, <1>7 DEF AddOverlapped
<1>14. QED BY <1>10, <1>12, <1>13 DEF Overlaps

OverlapSteps(f, chunks, max, overlap) ==
    f = [n \in 0..(Len(chunks) - 1) |->
            IF n = 0 THEN <<chunks[1]>> ELSE AddOverlapped(f[n - 1], chunks[n + 1], max, overlap)]
OverlappedUpTo(chunks, max, overlap) == CHOOSE f : OverlapSteps(f, chunks, max, overlap)

LEMMA OverlappedIs ==
    \A chunks, max, overlap :
        Overlapped(chunks, max, overlap) =
            IF overlap = 0 \/ Len(chunks) <= 1 THEN chunks
            ELSE OverlappedUpTo(chunks, max, overlap)[Len(chunks) - 1]
BY Zenon DEF Overlapped, OverlappedUpTo, OverlapSteps

LEMMA OverlappedGood ==
    ASSUME NEW A, NEW max \in Nat \ {0}, NEW overlap \in Nat, NEW s, NEW chunks, Good(chunks, s, A, max, FALSE)
    PROVE  Good(Overlapped(chunks, max, overlap), s, A, max, FALSE)
<1>1. /\ chunks \in Seq(Seq(A)) /\ s \in Seq(A) /\ Len(s) \in Nat /\ Len(chunks) \in Nat
  BY DEF Good, Spells
<1>2. CASE overlap = 0 \/ Len(chunks) <= 1
  BY <1>2, OverlappedIs
<1>3. CASE ~(overlap = 0 \/ Len(chunks) <= 1)
  <2>1. PICK N \in Nat : N = Len(chunks) - 1 /\ Len(chunks) = N + 1
    <3>1. Len(chunks) - 1 \in Nat /\ Len(chunks) = (Len(chunks) - 1) + 1
      BY <1>1, <1>3
    <3>2. QED BY <3>1
  <2>2. PICK p : EndsAt(p, chunks, s, FALSE)
    BY DEF Good, Spells
  <2>3. p \in [0..(N + 1) -> 0..Len(s)] /\ p[0] = 0 /\ p[N + 1] = Len(s)
    BY <2>1, <2>2 DEF EndsAt
  <2>4. \A n \in 0..(N + 1) : p[n] \in 0..Len(s)
    BY <2>3
  <2>5. ASSUME NEW n \in 1..(N + 1)
        PROVE  \E a \in 0..Len(s), b \in 0..Len(s) :
                  /\ a = p[n - 1] /\ b = p[n] /\ a <= b /\ chunks[n] \in Seq(A)
                  /\ Slice(s, a, b) \in Seq(A) /\ EndsWith(chunks[n], Slice(s, a, b))
                  /\ Slice(s, 0, a) \in Seq(A)
                  /\ Slice(s, 0, a) \o Slice(s, a, b) = Slice(s, 0, b)
    <3>1. n - 1 \in 0..(N + 1) /\ n \in 0..(N + 1) /\ n \in 1..Len(chunks)
      BY <2>1
    <3>2. PICK a \in 0..Len(s), b \in 0..Len(s) : a = p[n - 1] /\ b = p[n]
      BY <2>4, <3>1
    <3>3. a <= b /\ EndsWith(chunks[n], Slice(s, a, b))
      BY <2>2, <3>1, <3>2 DEF EndsAt, Says
    <3>4. 0 \in 0..Len(s) /\ a \in 0..Len(s) /\ b \in a..Len(s)
      BY <1>1, <3>3
    <3>5. Slice(s, a, b) \in Seq(A) /\ Slice(s, 0, a) \in Seq(A)
      BY <1>1, <3>4, SliceIs
    <3>6. Slice(s, 0, a) \o Slice(s, a, b) = Slice(s, 0, b)
      BY <1>1, <3>4, SliceJoins
    <3>7. chunks[n] \in Seq(A)
      BY <1>1, <3>1
    <3>8. QED BY <3>2, <3>3, <3>5, <3>6, <3>7
  <2>6. PICK X : X = [n \in 0..N |-> {done \in Seq(Seq(A)) : Overlaps(done, Slice(s, 0, p[n + 1]), A, max)}]
    OBVIOUS
  <2>7. \A n \in 0..N : \A done : done \in X[n] <=> Overlaps(done, Slice(s, 0, p[n + 1]), A, max)
    BY <2>6 DEF Overlaps, Good, Spells
  <2>8. PICK one : one = <<chunks[1]>>
    OBVIOUS
  <2>9. one \in X[0]
    <3>1. 1 \in 1..(N + 1) /\ 1 - 1 = 0 /\ 0 \in 0..N /\ 0 + 1 = 1
      OBVIOUS
    <3>2. PICK b \in 0..Len(s) : /\ b = p[1] /\ chunks[1] \in Seq(A)
                                 /\ Slice(s, 0, b) \in Seq(A) /\ EndsWith(chunks[1], Slice(s, 0, b))
      BY <2>3, <2>5, <3>1
    <3>3. Spells(one, Slice(s, 0, b), A, FALSE)
      BY <2>8, <3>2, SpellsOne DEF Says
    <3>4. Fits(one, max)
      <4>1. DOMAIN one = 1..1 /\ one[1] = chunks[1]
        BY <2>8
      <4>2. 1 \in DOMAIN chunks
        BY <1>1, <2>1
      <4>3. Len(chunks[1]) <= max
        BY <4>2 DEF Good, Fits
      <4>4. QED BY <4>1, <4>3 DEF Fits
    <3>5. one # <<>>
      BY <2>8
    <3>6. QED BY <2>7, <3>1, <3>2, <3>3, <3>4, <3>5 DEF Overlaps, Good
  <2>10. ASSUME NEW n \in 1..N, NEW done \in X[n - 1] PROVE AddOverlapped(done, chunks[n + 1], max, overlap) \in X[n]
    <3>1. n - 1 \in 0..N /\ n \in 0..N /\ (n - 1) + 1 = n /\ n + 1 \in 1..(N + 1) /\ (n + 1) - 1 = n
      OBVIOUS
    <3>2. PICK a \in 0..Len(s), b \in 0..Len(s) :
             /\ a = p[n] /\ b = p[n + 1] /\ chunks[n + 1] \in Seq(A)
             /\ Slice(s, a, b) \in Seq(A) /\ EndsWith(chunks[n + 1], Slice(s, a, b))
             /\ Slice(s, 0, a) \o Slice(s, a, b) = Slice(s, 0, b)
      <4>1. PICK m \in 1..(N + 1) : m = n + 1 /\ m - 1 = n
        BY <3>1
      <4>2. PICK a \in 0..Len(s), b \in 0..Len(s) :
               /\ a = p[m - 1] /\ b = p[m] /\ chunks[m] \in Seq(A)
               /\ Slice(s, a, b) \in Seq(A) /\ EndsWith(chunks[m], Slice(s, a, b))
               /\ Slice(s, 0, a) \o Slice(s, a, b) = Slice(s, 0, b)
        BY <2>5
      <4>3. a = p[n] /\ b = p[n + 1] /\ chunks[m] = chunks[n + 1]
        BY <4>1, <4>2
      <4>4. QED BY <4>2, <4>3
    <3>3. Overlaps(done, Slice(s, 0, a), A, max)
      BY <2>7, <3>1, <3>2
    <3>4. Overlaps(AddOverlapped(done, chunks[n + 1], max, overlap), Slice(s, 0, a) \o Slice(s, a, b), A, max)
      BY <3>2, <3>3, AddOverlappedGood
    <3>5. QED BY <2>7, <3>1, <3>2, <3>4
  <2>11. \E f : OverlapSteps(f, chunks, max, overlap)
    <3>1. PICK step : step = [n \in 1..N |-> [x \in X[n - 1] |-> AddOverlapped(x, chunks[n + 1], max, overlap)]]
      OBVIOUS
    <3>2. \A n \in 1..N : \A x \in X[n - 1] : step[n][x] = AddOverlapped(x, chunks[n + 1], max, overlap)
      BY <3>1
    <3>3. \A n \in 1..N : \A x \in X[n - 1] : step[n][x] \in X[n]
      BY <2>10, <3>2
    <3>4. PICK f : Steps(f, one, step, N) /\ \A n \in 0..N : f[n] \in X[n]
      BY <2>9, <3>3, Recursion
    <3>5. ASSUME NEW n \in 0..N
          PROVE  f[n] = IF n = 0 THEN one ELSE AddOverlapped(f[n - 1], chunks[n + 1], max, overlap)
      <4>1. CASE n = 0
        BY <3>4, <4>1 DEF Steps
      <4>2. CASE n # 0
        <5>1. n \in 1..N /\ n - 1 \in 0..N
          BY <4>2
        <5>2. f[n - 1] \in X[n - 1]
          BY <3>4, <5>1
        <5>3. f[n] = step[n][f[n - 1]]
          BY <3>4, <4>2 DEF Steps
        <5>4. QED BY <3>2, <4>2, <5>1, <5>2, <5>3
      <4>3. QED BY <4>1, <4>2
    <3>6. f = [n \in 0..N |-> IF n = 0 THEN one ELSE AddOverlapped(f[n - 1], chunks[n + 1], max, overlap)]
      <4>1. f = [n \in 0..N |-> f[n]]
        BY <3>4 DEF Steps
      <4>2. QED BY <3>5, <4>1
    <3>7. QED BY <2>1, <2>8, <3>6 DEF OverlapSteps
  <2>12. PICK g : g = OverlappedUpTo(chunks, max, overlap)
    OBVIOUS
  <2>13. OverlapSteps(g, chunks, max, overlap)
    BY Zenon, <2>11, <2>12 DEF OverlappedUpTo
  <2>14. g[0] = one /\ \A n \in 1..N : g[n] = AddOverlapped(g[n - 1], chunks[n + 1], max, overlap)
    <3>1. g = [n \in 0..N |-> IF n = 0 THEN one ELSE AddOverlapped(g[n - 1], chunks[n + 1], max, overlap)]
      BY <2>1, <2>8, <2>13 DEF OverlapSteps
    <3>2. 0 \in 0..N /\ \A n \in 1..N : n \in 0..N /\ n # 0
      OBVIOUS
    <3>3. QED BY <3>1, <3>2
  <2>15. \A n \in 0..N : g[n] \in X[n]
    <3>1. g[0] \in X[0] /\ \A n \in 1..N : g[n - 1] \in X[n - 1] => g[n] \in X[n]
      BY <2>9, <2>10, <2>14
    <3>2. QED BY <3>1, Stays
  <2>16. Overlaps(g[N], s, A, max)
    <3>1. N \in 0..N
      OBVIOUS
    <3>2. Slice(s, 0, p[N + 1]) = s
      BY <1>1, <2>3, SliceAll
    <3>3. QED BY <2>7, <2>15, <3>1, <3>2
  <2>17. Overlapped(chunks, max, overlap) = g[N]
    BY <1>3, <2>1, <2>12, OverlappedIs
  <2>18. QED BY <2>16, <2>17 DEF Overlaps
<1>4. QED BY <1>2, <1>3

SplitSteps(f, s, max, overlap) ==
    f = [n \in 0..Separators |->
            IF n = 0 THEN [t \in Seq(ToSet(s)) |-> HardSplit(t, max)]
            ELSE [t \in Seq(ToSet(s)) |->
                    Overlapped(Gathered(Parts(t, Separators + 1 - n), f[n - 1], max), max, overlap)]]
SplitWith(s, max, overlap) == CHOOSE f : SplitSteps(f, s, max, overlap)

LEMMA SplitRecursiveIs ==
    \A s, max, overlap : SplitRecursive(s, max, overlap) = SplitWith(s, max, overlap)[Separators][s]
BY Zenon DEF SplitRecursive, SplitWith, SplitSteps

LEMMA SplitRecursiveGood ==
    ASSUME NEW R, NEW s \in Seq(R), NEW max \in Nat \ {0}, NEW overlap \in Nat
    PROVE  Good(SplitRecursive(s, max, overlap), s, R, max, FALSE)
<1>1. PICK A : A = ToSet(s)
  OBVIOUS
<1>2. s \in Seq(A) /\ A \subseteq R
  BY <1>1, OwnElements
<1>3. PICK N \in Nat : N = Separators /\ N = 6
  BY DEF Separators
<1>4. PICK F : F = {f \in [Seq(A) -> Seq(Seq(A))] : Finer(f, A, max, FALSE)}
  OBVIOUS
<1>5. PICK X : X = [n \in 0..N |-> F]
  OBVIOUS
<1>6. \A n \in 0..N : X[n] = F
  BY <1>5
<1>7. ASSUME NEW f, \A t \in Seq(A) : Good(f[t], t, A, max, FALSE), f = [t \in Seq(A) |-> f[t]] PROVE f \in F
  <2>1. \A t \in Seq(A) : f[t] \in Seq(Seq(A))
    BY <1>7 DEF Good, Spells
  <2>2. f \in [Seq(A) -> Seq(Seq(A))]
    BY <1>7, <2>1
  <2>3. QED BY <1>4, <1>7, <2>2 DEF Finer
<1>8. PICK hard : hard = [t \in Seq(A) |-> HardSplit(t, max)]
  OBVIOUS
<1>9. hard \in F
  <2>1. \A t \in Seq(A) : Good(hard[t], t, A, max, FALSE)
    BY <1>8, HardSplitGood
  <2>2. hard = [t \in Seq(A) |-> hard[t]]
    BY <1>8
  <2>3. QED BY <1>7, <2>1, <2>2
<1>10. PICK next : next = [n \in 1..N |-> [f \in F |->
            [t \in Seq(A) |-> Overlapped(Gathered(Parts(t, N + 1 - n), f, max), max, overlap)]]]
  OBVIOUS
<1>11. \A n \in 1..N : \A f \in F :
            next[n][f] = [t \in Seq(A) |-> Overlapped(Gathered(Parts(t, N + 1 - n), f, max), max, overlap)]
  BY <1>10
<1>12. ASSUME NEW n \in 1..N, NEW f \in F PROVE next[n][f] \in F
  <2>1. PICK g : g = next[n][f]
    OBVIOUS
  <2>2. g = [t \in Seq(A) |-> Overlapped(Gathered(Parts(t, N + 1 - n), f, max), max, overlap)]
    BY <1>11, <2>1
  <2>3. Finer(f, A, max, FALSE)
    BY <1>4
  <2>4. ASSUME NEW t \in Seq(A) PROVE Good(g[t], t, A, max, FALSE)
    <3>1. PICK k : k = N + 1 - n
      OBVIOUS
    <3>2. Spells(Parts(t, k), t, A, TRUE)
      BY PartsExact
    <3>3. Good(Gathered(Parts(t, k), f, max), t, A, max, FALSE)
      BY <2>3, <3>2, GatheredGood
    <3>4. Good(Overlapped(Gathered(Parts(t, k), f, max), max, overlap), t, A, max, FALSE)
      BY <3>3, OverlappedGood
    <3>5. QED BY <2>2, <3>1, <3>4
  <2>5. g = [t \in Seq(A) |-> g[t]]
    BY <2>2
  <2>6. QED BY <1>7, <2>1, <2>4, <2>5
<1>13. \E f : SplitSteps(f, s, max, overlap)
  <2>1. hard \in X[0] /\ \A n \in 1..N : \A f \in X[n - 1] : next[n][f] \in X[n]
    <3>1. 0 \in 0..N /\ \A n \in 1..N : n \in 0..N /\ n - 1 \in 0..N
      OBVIOUS
    <3>2. QED BY <1>6, <1>9, <1>12, <3>1
  <2>2. PICK f : Steps(f, hard, next, N) /\ \A n \in 0..N : f[n] \in X[n]
    BY <2>1, Recursion
  <2>3. ASSUME NEW n \in 0..N
        PROVE  f[n] = IF n = 0 THEN hard
                      ELSE [t \in Seq(A) |-> Overlapped(Gathered(Parts(t, N + 1 - n), f[n - 1], max), max, overlap)]
    <3>1. CASE n = 0
      BY <2>2, <3>1 DEF Steps
    <3>2. CASE n # 0
      <4>1. n \in 1..N /\ n - 1 \in 0..N
        BY <3>2
      <4>2. f[n - 1] \in F
        BY <1>6, <2>2, <4>1
      <4>3. f[n] = next[n][f[n - 1]]
        BY <2>2, <3>2 DEF Steps
      <4>4. QED BY <1>11, <3>2, <4>1, <4>2, <4>3
    <3>3. QED BY <3>1, <3>2
  <2>4. f = [n \in 0..N |-> IF n = 0 THEN hard
             ELSE [t \in Seq(A) |-> Overlapped(Gathered(Parts(t, N + 1 - n), f[n - 1], max), max, overlap)]]
    <3>1. f = [n \in 0..N |-> f[n]]
      BY <2>2 DEF Steps
    <3>2. QED BY <2>3, <3>1
  <2>5. SplitSteps(f, s, max, overlap)
    BY Zenon, <1>1, <1>3, <1>8, <2>4 DEF SplitSteps
  <2>6. QED BY <2>5
<1>14. PICK g : g = SplitWith(s, max, overlap)
  OBVIOUS
<1>15. SplitSteps(g, s, max, overlap)
  BY Zenon, <1>13, <1>14 DEF SplitWith
<1>16. g = [n \in 0..N |-> IF n = 0 THEN hard
             ELSE [t \in Seq(A) |-> Overlapped(Gathered(Parts(t, N + 1 - n), g[n - 1], max), max, overlap)]]
  BY <1>1, <1>3, <1>8, <1>15 DEF SplitSteps
<1>17. \A n \in 0..N : g[n] \in X[n]
  <2>1. g[0] \in X[0]
    <3>1. 0 \in 0..N
      OBVIOUS
    <3>2. g[0] = hard
      BY <1>16, <3>1
    <3>3. QED BY <1>6, <1>9, <3>1, <3>2
  <2>2. ASSUME NEW n \in 1..N, g[n - 1] \in X[n - 1] PROVE g[n] \in X[n]
    <3>1. n \in 0..N /\ n # 0 /\ n - 1 \in 0..N
      OBVIOUS
    <3>2. g[n - 1] \in F
      BY <1>6, <2>2, <3>1
    <3>3. g[n] = [t \in Seq(A) |-> Overlapped(Gathered(Parts(t, N + 1 - n), g[n - 1], max), max, overlap)]
      BY <1>16, <3>1
    <3>4. g[n] = next[n][g[n - 1]]
      BY <1>11, <3>2, <3>3
    <3>5. QED BY <1>6, <1>12, <3>1, <3>2, <3>4
  <2>3. QED BY <2>1, <2>2, Stays
<1>18. Good(g[N][s], s, A, max, FALSE)
  <2>1. N \in 0..N
    OBVIOUS
  <2>2. g[N] \in F
    BY <1>6, <1>17, <2>1
  <2>3. QED BY <1>2, <1>4, <2>2 DEF Finer
<1>19. SplitRecursive(s, max, overlap) = g[N][s]
  BY <1>3, <1>14, SplitRecursiveIs
<1>20. QED BY <1>2, <1>18, <1>19, SpellsWidely DEF Good

(***************************************************************************)
(* Chunks that spell a text: it can be read off them.                      *)
(***************************************************************************)
ReadSteps(f, chunks, s) == f = [n \in 0..Len(chunks) |-> IF n = 0 THEN {0} ELSE From(f[n - 1], chunks[n], s)]
ReadTo(chunks, s) == CHOOSE f : ReadSteps(f, chunks, s)

LEMMA ReadUpToIs == \A chunks, s : ReadUpTo(chunks, s) = ReadTo(chunks, s)[Len(chunks)]
BY Zenon DEF ReadUpTo, ReadTo, ReadSteps

LEMMA SpelledIsRead ==
    ASSUME NEW A, NEW c, NEW s, Spells(c, s, A, FALSE)
    PROVE  Reassembles(c, s)
<1>1. /\ c \in Seq(Seq(A)) /\ s \in Seq(A) /\ Len(s) \in Nat
  BY DEF Spells
<1>2. PICK N \in Nat : N = Len(c)
  BY <1>1
<1>3. PICK p : EndsAt(p, c, s, FALSE)
  BY DEF Spells
<1>4. p \in [0..N -> 0..Len(s)] /\ p[0] = 0 /\ p[N] = Len(s)
  BY <1>2, <1>3 DEF EndsAt
<1>5. PICK X : X = [n \in 0..N |-> {reached \in SUBSET (0..Len(s)) : p[n] \in reached}]
  OBVIOUS
<1>6. \A n \in 0..N : \A reached : reached \in X[n] <=> reached \subseteq 0..Len(s) /\ p[n] \in reached
  BY <1>5
<1>7. ASSUME NEW n \in 1..N, NEW reached \in X[n - 1] PROVE From(reached, c[n], s) \in X[n]
  <2>1. n - 1 \in 0..N /\ n \in 0..N /\ n \in 1..Len(c)
    BY <1>2
  <2>2. p[n - 1] \in reached /\ p[n] \in 0..Len(s)
    BY <1>4, <1>6, <2>1
  <2>3. p[n - 1] <= p[n] /\ EndsWith(c[n], SubSeq(s, p[n - 1] + 1, p[n]))
    BY <1>3, <2>1 DEF EndsAt, Says, Slice
  <2>4. p[n] \in From(reached, c[n], s) /\ From(reached, c[n], s) \subseteq 0..Len(s)
    BY <2>2, <2>3 DEF From
  <2>5. QED BY <1>6, <2>1, <2>4
<1>8. PICK zero : zero = {0}
  OBVIOUS
<1>9. zero \in X[0]
  <2>1. 0 \in 0..N /\ 0 \in 0..Len(s)
    BY <1>1
  <2>2. QED BY <1>4, <1>6, <1>8, <2>1
<1>10. \E f : ReadSteps(f, c, s)
  <2>1. PICK next : next = [n \in 1..N |-> [x \in X[n - 1] |-> From(x, c[n], s)]]
    OBVIOUS
  <2>2. \A n \in 1..N : \A x \in X[n - 1] : next[n][x] = From(x, c[n], s)
    BY <2>1
  <2>3. \A n \in 1..N : \A x \in X[n - 1] : next[n][x] \in X[n]
    BY <1>7, <2>2
  <2>4. PICK f : Steps(f, zero, next, N) /\ \A n \in 0..N : f[n] \in X[n]
    BY <1>9, <2>3, Recursion
  <2>5. ASSUME NEW n \in 0..N PROVE f[n] = IF n = 0 THEN zero ELSE From(f[n - 1], c[n], s)
    <3>1. CASE n = 0
      BY <2>4, <3>1 DEF Steps
    <3>2. CASE n # 0
      <4>1. n \in 1..N /\ n - 1 \in 0..N
        BY <3>2
      <4>2. f[n - 1] \in X[n - 1]
        BY <2>4, <4>1
      <4>3. f[n] = next[n][f[n - 1]]
        BY <2>4, <3>2 DEF Steps
      <4>4. QED BY <2>2, <3>2, <4>1, <4>2, <4>3
    <3>3. QED BY <3>1, <3>2
  <2>6. f = [n \in 0..N |-> IF n = 0 THEN zero ELSE From(f[n - 1], c[n], s)]
    <3>1. f = [n \in 0..N |-> f[n]]
      BY <2>4 DEF Steps
    <3>2. QED BY <2>5, <3>1
  <2>7. QED BY <1>2, <1>8, <2>6 DEF ReadSteps
<1>11. PICK g : g = ReadTo(c, s)
  OBVIOUS
<1>12. ReadSteps(g, c, s)
  BY Zenon, <1>10, <1>11 DEF ReadTo
<1>13. g[0] = zero /\ \A n \in 1..N : g[n] = From(g[n - 1], c[n], s)
  <2>1. g = [n \in 0..N |-> IF n = 0 THEN zero ELSE From(g[n - 1], c[n], s)]
    BY <1>2, <1>8, <1>12 DEF ReadSteps
  <2>2. 0 \in 0..N /\ \A n \in 1..N : n \in 0..N /\ n # 0
    OBVIOUS
  <2>3. QED BY <2>1, <2>2
<1>14. \A n \in 0..N : g[n] \in X[n]
  <2>1. g[0] \in X[0] /\ \A n \in 1..N : g[n - 1] \in X[n - 1] => g[n] \in X[n]
    BY <1>7, <1>9, <1>13
  <2>2. QED BY <2>1, Stays
<1>15. Len(s) \in g[N]
  <2>1. N \in 0..N
    OBVIOUS
  <2>2. QED BY <1>4, <1>6, <1>14, <2>1
<1>16. QED BY <1>2, <1>11, <1>15, ReadUpToIs DEF Reassembles

LEMMA NoneListed == \A R : <<>> \in Seq(R)
BY EmptySeq

(* Whatever the chunk size and the overlap, no chunk of a text is longer   *)
(* than a chunk, and a text that is not blank can be read off its chunks   *)
(* (chunk_text).                                                           *)
THEOREM EveryTextKept ==
    ASSUME NEW R, NEW s \in Seq(R), NEW max \in Nat \ {0}, NEW overlap \in Nat
    PROVE  /\ ChunkText(s, max, overlap) \in Seq(Seq(R)) /\ Fits(ChunkText(s, max, overlap), max)
           /\ IF \A i \in DOMAIN s : IsSpace(s[i]) THEN ChunkText(s, max, overlap) = <<>>
              ELSE Reassembles(ChunkText(s, max, overlap), s)
<1>1. CASE \A i \in DOMAIN s : IsSpace(s[i])
  <2>1. ChunkText(s, max, overlap) = <<>>
    BY <1>1 DEF ChunkText
  <2>2. PICK none : none = <<>> /\ none \in Seq(Seq(R)) /\ DOMAIN none = {}
    <3>1. <<>> \in Seq(Seq(R)) /\ DOMAIN <<>> = {}
      BY NoneListed
    <3>2. QED BY <3>1
  <2>3. Fits(none, max)
    BY <2>2 DEF Fits
  <2>4. QED BY <1>1, <2>1, <2>2, <2>3
<1>2. CASE ~ \A i \in DOMAIN s : IsSpace(s[i])
  <2>1. PICK c : c = ChunkText(s, max, overlap) /\ c = SplitRecursive(s, max, overlap)
    BY <1>2 DEF ChunkText
  <2>2. Good(c, s, R, max, FALSE)
    BY <2>1, SplitRecursiveGood
  <2>3. Reassembles(c, s)
    BY <2>2, SpelledIsRead DEF Good
  <2>4. c \in Seq(Seq(R)) /\ Fits(c, max)
    BY <2>2 DEF Good, Spells
  <2>5. QED BY <1>2, <2>1, <2>3, <2>4
<1>3. QED BY <1>1, <1>2

(***************************************************************************)
(* Code: the lines that the chunks hold.                                   *)
(***************************************************************************)
Seen(chunks) == UNION {ToSet(c) : c \in ToSet(chunks)}

LEMMA ToSetMore ==
    ASSUME NEW R, NEW s \in Seq(R), NEW t \in Seq(R)
    PROVE  s \o t \in Seq(R) /\ ToSet(s \o t) = ToSet(s) \cup ToSet(t)
<1>1. /\ s \o t \in Seq(R) /\ Len(s \o t) = Len(s) + Len(t) /\ Len(s) \in Nat /\ Len(t) \in Nat
      /\ \A i \in 1..(Len(s) + Len(t)) : (s \o t)[i] = IF i <= Len(s) THEN s[i] ELSE t[i - Len(s)]
  BY ConcatProperties
<1>2. PICK u : u = s \o t
  OBVIOUS
<1>3. u \in Seq(R) /\ Len(u) = Len(s) + Len(t)
  BY <1>1, <1>2
<1>4. ASSUME NEW x \in ToSet(u) PROVE x \in ToSet(s) \cup ToSet(t)
  <2>1. PICK i \in 1..Len(u) : u[i] = x
    BY <1>3, <1>4, ToSetIs
  <2>2. CASE i <= Len(s)
    <3>1. i \in 1..Len(s) /\ x = s[i]
      BY <1>1, <1>2, <1>3, <2>1, <2>2
    <3>2. QED BY <3>1, ToSetIs
  <2>3. CASE ~(i <= Len(s))
    <3>1. PICK j \in 1..Len(t) : j = i - Len(s)
      BY <1>1, <1>3, <2>3
    <3>2. x = t[j]
      BY <1>1, <1>2, <1>3, <2>1, <2>3, <3>1
    <3>3. QED BY <3>2, ToSetIs
  <2>4. QED BY <2>2, <2>3
<1>5. ASSUME NEW x \in ToSet(s) PROVE x \in ToSet(u)
  <2>1. PICK i \in 1..Len(s) : s[i] = x
    BY <1>5, ToSetIs
  <2>2. i \in 1..Len(u) /\ u[i] = x
    BY <1>1, <1>2, <1>3, <2>1
  <2>3. QED BY <1>3, <2>2, ToSetIs
<1>6. ASSUME NEW x \in ToSet(t) PROVE x \in ToSet(u)
  <2>1. PICK j \in 1..Len(t) : t[j] = x
    BY <1>6, ToSetIs
  <2>2. PICK i : i = Len(s) + j
    OBVIOUS
  <2>3. i \in 1..Len(u) /\ ~(i <= Len(s)) /\ i - Len(s) = j
    BY <1>1, <1>3, <2>2
  <2>4. u[i] = x
    BY <1>1, <1>2, <1>3, <2>1, <2>3
  <2>5. QED BY <1>3, <2>3, <2>4, ToSetIs
<1>7. QED BY <1>1, <1>2, <1>4, <1>5, <1>6

LEMMA SeenMore ==
    ASSUME NEW A, NEW c \in Seq(Seq(A)), NEW d \in Seq(Seq(A))
    PROVE  c \o d \in Seq(Seq(A)) /\ Seen(c \o d) = Seen(c) \cup Seen(d)
<1>1. PICK R : R = Seq(A)
  OBVIOUS
<1>2. c \in Seq(R) /\ d \in Seq(R)
  BY <1>1
<1>3. c \o d \in Seq(R) /\ ToSet(c \o d) = ToSet(c) \cup ToSet(d)
  BY <1>2, ToSetMore
<1>4. QED BY <1>1, <1>3 DEF Seen

LEMMA SeenOne ==
    ASSUME NEW A, NEW c \in Seq(A)
    PROVE  <<c>> \in Seq(Seq(A)) /\ Seen(<<c>>) = ToSet(c)
<1>1. PICK one : one = <<c>>
  OBVIOUS
<1>2. one \in Seq(Seq(A)) /\ DOMAIN one = {1} /\ one[1] = c
  BY <1>1
<1>3. ToSet(one) = {c}
  BY <1>2 DEF ToSet
<1>4. Seen(one) = ToSet(c)
  BY <1>3 DEF Seen
<1>5. QED BY <1>1, <1>2, <1>4

LEMMA ToSetEmpty == ToSet(<<>>) = {} /\ Seen(<<>>) = {}
<1>1. PICK none : none = <<>> /\ DOMAIN none = {}
  OBVIOUS
<1>2. ToSet(none) = {}
  BY <1>1 DEF ToSet
<1>3. Seen(none) = {}
  BY <1>2 DEF Seen
<1>4. QED BY <1>1, <1>2, <1>3

LEMMA SeenWithin == ASSUME NEW A, NEW c \in Seq(Seq(A)) PROVE Seen(c) \subseteq A
<1>1. PICK R : R = Seq(A)
  OBVIOUS
<1>2. c \in Seq(R)
  BY <1>1
<1>3. ToSet(c) \subseteq R
  BY <1>2, ToSetIs
<1>4. ASSUME NEW e \in ToSet(c) PROVE ToSet(e) \subseteq A
  <2>1. e \in Seq(A)
    BY <1>1, <1>3
  <2>2. QED BY <2>1, ToSetIs
<1>5. QED BY <1>4 DEF Seen

(* The pieces of a text hold all of it.                                    *)
LEMMA HardSplitSeen ==
    ASSUME NEW A, NEW s \in Seq(A), NEW max \in Nat \ {0}
    PROVE  HardSplit(s, max) \in Seq(Seq(A)) /\ Seen(HardSplit(s, max)) = ToSet(s)
<1>1. PICK c : c = HardSplit(s, max)
  OBVIOUS
<1>2. Spells(c, s, A, TRUE)
  BY <1>1, HardSplitGood DEF Good
<1>3. c \in Seq(Seq(A)) /\ Len(c) \in Nat /\ Len(s) \in Nat
  BY <1>2 DEF Spells
<1>4. PICK B : B = ToSet(s) /\ s \in Seq(B)
  BY OwnElements
<1>5. Seen(c) \subseteq B
  <2>1. Spells(c, s, B, TRUE)
    BY <1>1, <1>4, HardSplitGood DEF Good
  <2>2. QED BY <2>1, SeenWithin DEF Spells
<1>6. PICK p : EndsAt(p, c, s, TRUE)
  BY <1>2 DEF Spells
<1>7. p \in [0..Len(c) -> 0..Len(s)] /\ p[0] = 0 /\ p[Len(c)] = Len(s)
  BY <1>6 DEF EndsAt
<1>8. ASSUME NEW x \in B PROVE x \in Seen(c)
  <2>1. PICK i \in 1..Len(s) : s[i] = x
    BY <1>4, <1>8, ToSetIs
  <2>2. PICK T : T = {n \in 1..Len(c) : i <= p[n]}
    OBVIOUS
  <2>3. Len(c) \in T
    <3>1. Len(c) # 0
      BY <1>7, <2>1
    <3>2. Len(c) \in 1..Len(c) /\ i <= Len(s)
      BY <1>3, <3>1
    <3>3. QED BY <1>7, <2>2, <3>2
  <2>4. T \subseteq Nat /\ T # {}
    BY <2>2, <2>3
  <2>5. PICK n \in T : \A m \in T : ~(m < n)
    BY <2>4, LeastNumber
  <2>6. n \in 1..Len(c) /\ n - 1 \in 0..Len(c) /\ n \in 0..Len(c) /\ n - 1 < n
    BY <1>3, <2>2
  <2>7. PICK a \in 0..Len(s), b \in 0..Len(s) : a = p[n - 1] /\ b = p[n]
    BY <1>7, <2>6
  <2>8. a < i
    <3>1. CASE n - 1 = 0
      BY <1>7, <2>7, <3>1
    <3>2. CASE n - 1 # 0
      <4>1. n - 1 \in 1..Len(c)
        BY <2>6, <3>2
      <4>2. n - 1 \notin T
        BY <2>5, <2>6
      <4>3. QED BY <2>2, <2>7, <4>1, <4>2
    <3>3. QED BY <3>1, <3>2
  <2>9. i <= b /\ a <= b /\ c[n] = Slice(s, a, b)
    BY <1>6, <2>2, <2>6, <2>7 DEF EndsAt, Says
  <2>10. a \in 0..Len(s) /\ b \in a..Len(s)
    BY <1>3, <2>9
  <2>11. /\ c[n] \in Seq(A) /\ Len(c[n]) = b - a /\ \A j \in 1..(b - a) : c[n][j] = s[a + j]
    <3>1. /\ Slice(s, a, b) \in Seq(A) /\ Len(Slice(s, a, b)) = b - a
          /\ \A j \in 1..(b - a) : Slice(s, a, b)[j] = s[a + j]
      BY <2>10, SliceIs
    <3>2. QED BY <2>9, <3>1
  <2>12. PICK j : j = i - a
    OBVIOUS
  <2>13. j \in 1..(b - a) /\ a + j = i
    BY <2>8, <2>9, <2>12
  <2>14. c[n][j] = x
    BY <2>1, <2>11, <2>13
  <2>15. x \in ToSet(c[n])
    BY <2>11, <2>13, <2>14, ToSetIs
  <2>16. c[n] \in ToSet(c)
    BY <1>3, <2>6 DEF ToSet
  <2>17. QED BY <2>15, <2>16 DEF Seen
<1>9. QED BY <1>1, <1>3, <1>4, <1>5, <1>8

CodeAccs(A) == [chunks : Seq(Seq(A)), current : Seq(A)]
AccSeen(acc) == Seen(acc.chunks) \cup ToSet(acc.current)

LEMMA RoomKeeps ==
    ASSUME NEW A, NEW acc \in CodeAccs(A), NEW ls, NEW max
    PROVE  Room(acc, ls, max) \in CodeAccs(A) /\ AccSeen(Room(acc, ls, max)) = AccSeen(acc)
<1>1. CASE Len(acc.current) + Len(ls) > max /\ acc.current # <<>>
  <2>1. PICK c, e : c = acc.chunks /\ e = acc.current
    OBVIOUS
  <2>2. c \in Seq(Seq(A)) /\ e \in Seq(A)
    BY <2>1 DEF CodeAccs
  <2>3. <<e>> \in Seq(Seq(A)) /\ Seen(<<e>>) = ToSet(e)
    BY <2>2, SeenOne
  <2>4. c \o <<e>> \in Seq(Seq(A)) /\ Seen(c \o <<e>>) = Seen(c) \cup ToSet(e)
    <3>1. PICK one : one = <<e>>
      OBVIOUS
    <3>2. one \in Seq(Seq(A)) /\ Seen(one) = ToSet(e)
      BY <2>3, <3>1
    <3>3. c \o one \in Seq(Seq(A)) /\ Seen(c \o one) = Seen(c) \cup Seen(one)
      BY <2>2, <3>2, SeenMore
    <3>4. QED BY <3>1, <3>2, <3>3
  <2>5. Append(c, e) = c \o <<e>>
    <3>1. PICK R : R = Seq(A)
      OBVIOUS
    <3>2. c \in Seq(R) /\ e \in R
      BY <2>2, <3>1
    <3>3. QED BY <3>2, AppendIsConcat
  <2>6. PICK d : d = Append(c, e)
    OBVIOUS
  <2>7. PICK none : none = <<>> /\ none \in Seq(A) /\ ToSet(none) = {}
    BY EmptySeq, ToSetEmpty
  <2>8. Room(acc, ls, max) = [chunks |-> d, current |-> none]
    BY <1>1, <2>1, <2>6, <2>7 DEF Room
  <2>9. d \in Seq(Seq(A)) /\ Seen(d) = Seen(c) \cup ToSet(e)
    BY <2>4, <2>5, <2>6
  <2>10. QED BY <2>1, <2>7, <2>8, <2>9 DEF CodeAccs, AccSeen
<1>2. CASE ~(Len(acc.current) + Len(ls) > max /\ acc.current # <<>>)
  BY <1>2 DEF Room
<1>3. QED BY <1>1, <1>2

LEMMA AddGapKeeps ==
    ASSUME NEW A, NEW acc \in CodeAccs(A), NEW gap \in Seq(A), NEW max
    PROVE  AddGap(acc, gap, max) \in CodeAccs(A) /\ AccSeen(AddGap(acc, gap, max)) = AccSeen(acc) \cup ToSet(gap)
<1>1. CASE gap = <<>>
  BY <1>1, ToSetEmpty DEF AddGap
<1>2. CASE gap # <<>>
  <2>1. PICK made : made = Room(acc, gap, max)
    OBVIOUS
  <2>2. made \in CodeAccs(A) /\ AccSeen(made) = AccSeen(acc)
    BY <2>1, RoomKeeps
  <2>3. PICK c, e : c = made.chunks /\ e = made.current
    OBVIOUS
  <2>4. c \in Seq(Seq(A)) /\ e \in Seq(A)
    BY <2>2, <2>3 DEF CodeAccs
  <2>5. e \o gap \in Seq(A) /\ ToSet(e \o gap) = ToSet(e) \cup ToSet(gap)
    BY <2>4, ToSetMore
  <2>6. PICK f : f = e \o gap
    OBVIOUS
  <2>7. AddGap(acc, gap, max) = [chunks |-> c, current |-> f]
    BY <1>2, <2>1, <2>3, <2>6 DEF AddGap
  <2>8. QED BY <2>2, <2>3, <2>4, <2>5, <2>6, <2>7 DEF CodeAccs, AccSeen
<1>3. QED BY <1>1, <1>2

LEMMA AddNodeKeeps ==
    ASSUME NEW A, NEW acc \in CodeAccs(A), NEW ls \in Seq(A), NEW max \in Nat \ {0}
    PROVE  AddNode(acc, ls, max) \in CodeAccs(A) /\ AccSeen(AddNode(acc, ls, max)) = AccSeen(acc) \cup ToSet(ls)
<1>1. PICK made : made = Room(acc, ls, max)
  OBVIOUS
<1>2. made \in CodeAccs(A) /\ AccSeen(made) = AccSeen(acc)
  BY <1>1, RoomKeeps
<1>3. PICK c, e : c = made.chunks /\ e = made.current
  OBVIOUS
<1>4. c \in Seq(Seq(A)) /\ e \in Seq(A)
  BY <1>2, <1>3 DEF CodeAccs
<1>5. CASE Len(ls) <= max
  <2>1. e \o ls \in Seq(A) /\ ToSet(e \o ls) = ToSet(e) \cup ToSet(ls)
    BY <1>4, ToSetMore
  <2>2. PICK f : f = e \o ls
    OBVIOUS
  <2>3. AddNode(acc, ls, max) = [chunks |-> c, current |-> f]
    BY <1>1, <1>3, <1>5, <2>2 DEF AddNode
  <2>4. QED BY <1>2, <1>3, <1>4, <2>1, <2>2, <2>3 DEF CodeAccs, AccSeen
<1>6. CASE ~(Len(ls) <= max)
  <2>1. PICK held : held = IF e = <<>> THEN <<>> ELSE <<e>>
    OBVIOUS
  <2>2. held \in Seq(Seq(A)) /\ Seen(held) = ToSet(e)
    <3>1. CASE e = <<>>
      <4>1. PICK none : none = <<>> /\ none \in Seq(Seq(A)) /\ Seen(none) = {} /\ ToSet(none) = {}
        BY EmptySeq, ToSetEmpty
      <4>2. QED BY <2>1, <3>1, <4>1
    <3>2. CASE e # <<>>
      BY <1>4, <2>1, <3>2, SeenOne
    <3>3. QED BY <3>1, <3>2
  <2>3. PICK h : h = ChunkByLines(ls, max)
    OBVIOUS
  <2>4. h \in Seq(Seq(A)) /\ Seen(h) = ToSet(ls)
    BY <2>3, HardSplitSeen DEF ChunkByLines
  <2>5. PICK d : d = c \o held
    OBVIOUS
  <2>6. d \in Seq(Seq(A)) /\ Seen(d) = Seen(c) \cup ToSet(e)
    BY <1>4, <2>2, <2>5, SeenMore
  <2>7. PICK f : f = d \o h
    OBVIOUS
  <2>8. f \in Seq(Seq(A)) /\ Seen(f) = (Seen(c) \cup ToSet(e)) \cup ToSet(ls)
    BY <2>4, <2>6, <2>7, SeenMore
  <2>9. PICK none : none = <<>> /\ none \in Seq(A) /\ ToSet(none) = {}
    BY EmptySeq, ToSetEmpty
  <2>10. AddNode(acc, ls, max) = [chunks |-> f, current |-> none]
    BY <1>1, <1>3, <1>6, <2>1, <2>3, <2>5, <2>7, <2>9 DEF AddNode
  <2>11. QED BY <1>2, <1>3, <2>8, <2>9, <2>10 DEF CodeAccs, AccSeen
<1>7. QED BY <1>5, <1>6

(* The lines of a range, none if it is turned round.                       *)
LEMMA RangeIs ==
    ASSUME NEW A, NEW lines \in Seq(A), NEW a \in 0..Len(lines), NEW b \in 0..Len(lines)
    PROVE  /\ SubSeq(lines, a + 1, b) \in Seq(A)
           /\ \A i \in 1..Len(lines) : a < i /\ i <= b => lines[i] \in ToSet(SubSeq(lines, a + 1, b))
<1>1. Len(lines) \in Nat /\ a \in Nat /\ b \in Nat
  OBVIOUS
<1>2. CASE a <= b
  <2>1. a \in 0..Len(lines) /\ b \in a..Len(lines)
    BY <1>1, <1>2
  <2>2. PICK ls : ls = Slice(lines, a, b)
    OBVIOUS
  <2>3. ls \in Seq(A) /\ Len(ls) = b - a /\ \A j \in 1..(b - a) : ls[j] = lines[a + j]
    BY <2>1, <2>2, SliceIs
  <2>4. ASSUME NEW i \in 1..Len(lines), a < i, i <= b PROVE lines[i] \in ToSet(ls)
    <3>1. PICK j \in 1..(b - a) : a + j = i
      <4>1. i - a \in 1..(b - a) /\ a + (i - a) = i
        BY <1>1, <2>4
      <4>2. QED BY <4>1
    <3>2. ls[j] = lines[i] /\ j \in 1..Len(ls)
      BY <2>3, <3>1
    <3>3. QED BY <2>3, <3>2, ToSetIs
  <2>5. QED BY <2>2, <2>3, <2>4 DEF Slice
<1>3. CASE ~(a <= b)
  <2>1. SubSeq(lines, a + 1, b) = <<>>
    <3>1. a + 1 > b
      BY <1>1, <1>3
    <3>2. \A j \in (a + 1)..b : lines[j] \in A
      BY <1>1, <3>1
    <3>3. a + 1 \in Nat
      BY <1>1
    <3>4. /\ SubSeq(lines, a + 1, b) \in Seq(A)
          /\ Len(SubSeq(lines, a + 1, b)) = IF a + 1 <= b THEN b - (a + 1) + 1 ELSE 0
      BY <1>1, <3>2, <3>3, SubSeqProperties
    <3>5. Len(SubSeq(lines, a + 1, b)) = 0
      BY <1>1, <3>1, <3>4
    <3>6. QED BY <3>4, <3>5, EmptySeq
  <2>2. <<>> \in Seq(A)
    BY EmptySeq
  <2>3. \A i \in 1..Len(lines) : ~(a < i /\ i <= b)
    BY <1>1, <1>3
  <2>4. QED BY <2>1, <2>2, <2>3
<1>4. QED BY <1>1, <1>2, <1>3

NodeEnd(nodes, n) == IF n = 0 THEN 0 ELSE nodes[n][2]

CodeStep(acc, lines, nodes, n, max) ==
    AddNode(AddGap(acc, SubSeq(lines, NodeEnd(nodes, n - 1) + 1, nodes[n][1]), max),
            SubSeq(lines, nodes[n][1] + 1, nodes[n][2]), max)
CodeSteps(f, lines, nodes, max) ==
    f = [n \in 0..Len(nodes) |->
            IF n = 0 THEN [chunks |-> <<>>, current |-> <<>>] ELSE CodeStep(f[n - 1], lines, nodes, n, max)]
SweptTo(lines, nodes, max) == CHOOSE f : CodeSteps(f, lines, nodes, max)
Swept(lines, nodes, max) ==
    AddGap(SweptTo(lines, nodes, max)[Len(nodes)],
           SubSeq(lines, NodeEnd(nodes, Len(nodes)) + 1, Len(lines)), max)

LEMMA ChunkCodeIs ==
    \A lines, nodes, max : ChunkCode(lines, nodes, max) = Flushed(Swept(lines, nodes, max))
BY Zenon DEF ChunkCode, Swept, SweptTo, CodeSteps, CodeStep, NodeEnd

IsRanges(nodes, lines) == nodes \in Seq((0..Len(lines)) \X (0..Len(lines)))

(* Every line up to the end of the n-th statement is in a chunk or kept.   *)
Sweeps(acc, lines, nodes, n) ==
    \A i \in 1..Len(lines) : i <= NodeEnd(nodes, n) => lines[i] \in AccSeen(acc)

LEMMA CodeStepSweeps ==
    ASSUME NEW A, NEW lines \in Seq(A), NEW nodes, IsRanges(nodes, lines), NEW max \in Nat \ {0},
           NEW n \in 1..Len(nodes), NEW acc \in CodeAccs(A), Sweeps(acc, lines, nodes, n - 1)
    PROVE  CodeStep(acc, lines, nodes, n, max) \in CodeAccs(A) /\ Sweeps(CodeStep(acc, lines, nodes, n, max), lines, nodes, n)
<1>1. Len(lines) \in Nat /\ Len(nodes) \in Nat
  BY DEF IsRanges
<1>2. ASSUME NEW m \in 1..Len(nodes) PROVE nodes[m][1] \in 0..Len(lines) /\ nodes[m][2] \in 0..Len(lines)
  <2>1. nodes[m] \in (0..Len(lines)) \X (0..Len(lines))
    BY DEF IsRanges
  <2>2. QED BY <2>1
<1>3. PICK a \in 0..Len(lines) : a = NodeEnd(nodes, n - 1)
  <2>1. CASE n - 1 = 0
    BY <1>1, <2>1 DEF NodeEnd
  <2>2. CASE n - 1 # 0
    <3>1. n - 1 \in 1..Len(nodes)
      BY <1>1, <2>2
    <3>2. QED BY <1>2, <2>2, <3>1 DEF NodeEnd
  <2>3. QED BY <2>1, <2>2
<1>4. PICK b \in 0..Len(lines), c \in 0..Len(lines) : b = nodes[n][1] /\ c = nodes[n][2]
  BY <1>2
<1>5. c = NodeEnd(nodes, n)
  BY <1>4 DEF NodeEnd
<1>6. PICK gap, ls : gap = SubSeq(lines, a + 1, b) /\ ls = SubSeq(lines, b + 1, c)
  OBVIOUS
<1>7. /\ gap \in Seq(A) /\ ls \in Seq(A)
      /\ \A i \in 1..Len(lines) : a < i /\ i <= b => lines[i] \in ToSet(gap)
      /\ \A i \in 1..Len(lines) : b < i /\ i <= c => lines[i] \in ToSet(ls)
  BY <1>6, RangeIs
<1>8. PICK mid : mid = AddGap(acc, gap, max)
  OBVIOUS
<1>9. mid \in CodeAccs(A) /\ AccSeen(mid) = AccSeen(acc) \cup ToSet(gap)
  BY <1>7, <1>8, AddGapKeeps
<1>10. PICK new : new = AddNode(mid, ls, max)
  OBVIOUS
<1>11. new \in CodeAccs(A) /\ AccSeen(new) = AccSeen(mid) \cup ToSet(ls)
  BY <1>7, <1>9, <1>10, AddNodeKeeps
<1>12. ASSUME NEW i \in 1..Len(lines), i <= c PROVE lines[i] \in AccSeen(new)
  <2>1. i <= a \/ (a < i /\ i <= b) \/ (b < i /\ i <= c)
    BY <1>1, <1>12
  <2>2. i <= a => lines[i] \in AccSeen(acc)
    BY <1>3 DEF Sweeps
  <2>3. QED BY <1>7, <1>9, <1>11, <2>1, <2>2
<1>13. CodeStep(acc, lines, nodes, n, max) = new
  BY <1>3, <1>4, <1>6, <1>8, <1>10 DEF CodeStep
<1>14. QED BY <1>5, <1>11, <1>12, <1>13 DEF Sweeps

(* Whatever ranges the parser reports, the chunks hold the lines of the    *)
(* code and no others (chunk_code).                                        *)
THEOREM EveryLineKept ==
    ASSUME NEW R, NEW lines \in Seq(R), NEW nodes, IsRanges(nodes, lines), NEW max \in Nat \ {0}
    PROVE  ChunkCode(lines, nodes, max) \in Seq(Seq(R)) /\ Seen(ChunkCode(lines, nodes, max)) = ToSet(lines)
<1>1. PICK A : A = ToSet(lines)
  OBVIOUS
<1>2. lines \in Seq(A) /\ A \subseteq R
  BY <1>1, OwnElements
<1>3. PICK N \in Nat : N = Len(nodes)
  BY DEF IsRanges
<1>4. PICK X : X = [n \in 0..N |-> {acc \in CodeAccs(A) : Sweeps(acc, lines, nodes, n)}]
  OBVIOUS
<1>5. \A n \in 0..N : \A acc : acc \in X[n] <=> acc \in CodeAccs(A) /\ Sweeps(acc, lines, nodes, n)
  BY <1>4
<1>6. ASSUME NEW n \in 1..N, NEW acc \in X[n - 1] PROVE CodeStep(acc, lines, nodes, n, max) \in X[n]
  <2>1. n - 1 \in 0..N /\ n \in 0..N /\ n \in 1..Len(nodes)
    BY <1>3
  <2>2. acc \in CodeAccs(A) /\ Sweeps(acc, lines, nodes, n - 1)
    BY <1>5, <2>1
  <2>3. QED BY <1>2, <1>5, <2>1, <2>2, CodeStepSweeps
<1>7. PICK nil : nil = [chunks |-> <<>>, current |-> <<>>]
  OBVIOUS
<1>8. nil \in X[0]
  <2>1. PICK none : none = <<>> /\ none \in Seq(A) /\ none \in Seq(Seq(A))
    BY NoneListed
  <2>2. nil = [chunks |-> none, current |-> none]
    BY <1>7, <2>1
  <2>3. nil \in CodeAccs(A)
    BY <2>1, <2>2 DEF CodeAccs
  <2>4. 0 \in 0..N /\ \A i \in 1..Len(lines) : ~(i <= 0)
    OBVIOUS
  <2>5. QED BY <1>5, <2>3, <2>4 DEF Sweeps, NodeEnd
<1>9. \E f : CodeSteps(f, lines, nodes, max)
  <2>1. PICK next : next = [n \in 1..N |-> [x \in X[n - 1] |-> CodeStep(x, lines, nodes, n, max)]]
    OBVIOUS
  <2>2. \A n \in 1..N : \A x \in X[n - 1] : next[n][x] = CodeStep(x, lines, nodes, n, max)
    BY <2>1
  <2>3. \A n \in 1..N : \A x \in X[n - 1] : next[n][x] \in X[n]
    BY <1>6, <2>2
  <2>4. PICK f : Steps(f, nil, next, N) /\ \A n \in 0..N : f[n] \in X[n]
    BY <1>8, <2>3, Recursion
  <2>5. ASSUME NEW n \in 0..N PROVE f[n] = IF n = 0 THEN nil ELSE CodeStep(f[n - 1], lines, nodes, n, max)
    <3>1. CASE n = 0
      BY <2>4, <3>1 DEF Steps
    <3>2. CASE n # 0
      <4>1. n \in 1..N /\ n - 1 \in 0..N
        BY <3>2
      <4>2. f[n - 1] \in X[n - 1]
        BY <2>4, <4>1
      <4>3. f[n] = next[n][f[n - 1]]
        BY <2>4, <3>2 DEF Steps
      <4>4. QED BY <2>2, <3>2, <4>1, <4>2, <4>3
    <3>3. QED BY <3>1, <3>2
  <2>6. f = [n \in 0..N |-> IF n = 0 THEN nil ELSE CodeStep(f[n - 1], lines, nodes, n, max)]
    <3>1. f = [n \in 0..N |-> f[n]]
      BY <2>4 DEF Steps
    <3>2. QED BY <2>5, <3>1
  <2>7. QED BY <1>3, <1>7, <2>6 DEF CodeSteps
<1>10. PICK g : g = SweptTo(lines, nodes, max)
  OBVIOUS
<1>11. CodeSteps(g, lines, nodes, max)
  BY Zenon, <1>9, <1>10 DEF SweptTo
<1>12. g[0] = nil /\ \A n \in 1..N : g[n] = CodeStep(g[n - 1], lines, nodes, n, max)
  <2>1. g = [n \in 0..N |-> IF n = 0 THEN nil ELSE CodeStep(g[n - 1], lines, nodes, n, max)]
    BY <1>3, <1>7, <1>11 DEF CodeSteps
  <2>2. 0 \in 0..N /\ \A n \in 1..N : n \in 0..N /\ n # 0
    OBVIOUS
  <2>3. QED BY <2>1, <2>2
<1>13. \A n \in 0..N : g[n] \in X[n]
  <2>1. g[0] \in X[0] /\ \A n \in 1..N : g[n - 1] \in X[n - 1] => g[n] \in X[n]
    BY <1>6, <1>8, <1>12
  <2>2. QED BY <2>1, Stays
<1>14. g[N] \in CodeAccs(A) /\ Sweeps(g[N], lines, nodes, N)
  <2>1. N \in 0..N
    OBVIOUS
  <2>2. QED BY <1>5, <1>13, <2>1
<1>15. PICK a \in 0..Len(lines) : a = NodeEnd(nodes, N)
  <2>1. CASE N = 0
    BY <1>2, <2>1 DEF NodeEnd
  <2>2. CASE N # 0
    <3>1. N \in 1..Len(nodes)
      BY <1>3, <2>2
    <3>2. nodes[N][2] \in 0..Len(lines)
      BY <3>1 DEF IsRanges
    <3>3. QED BY <2>2, <3>2 DEF NodeEnd
  <2>3. QED BY <2>1, <2>2
<1>16. PICK gap : gap = SubSeq(lines, a + 1, Len(lines))
  OBVIOUS
<1>17. gap \in Seq(A) /\ \A i \in 1..Len(lines) : a < i => lines[i] \in ToSet(gap)
  <2>1. Len(lines) \in 0..Len(lines) /\ \A i \in 1..Len(lines) : i <= Len(lines)
    BY <1>2
  <2>2. /\ SubSeq(lines, a + 1, Len(lines)) \in Seq(A)
        /\ \A i \in 1..Len(lines) : a < i /\ i <= Len(lines) => lines[i] \in ToSet(SubSeq(lines, a + 1, Len(lines)))
    BY <1>2, <2>1, RangeIs
  <2>3. QED BY <1>16, <2>1, <2>2
<1>18. PICK all : all = AddGap(g[N], gap, max)
  OBVIOUS
<1>19. all \in CodeAccs(A) /\ AccSeen(all) = AccSeen(g[N]) \cup ToSet(gap)
  BY <1>14, <1>17, <1>18, AddGapKeeps
<1>20. \A i \in 1..Len(lines) : lines[i] \in AccSeen(all)
  <2> SUFFICES ASSUME NEW i \in 1..Len(lines) PROVE lines[i] \in AccSeen(all)
    OBVIOUS
  <2>1. i <= a \/ a < i
    OBVIOUS
  <2>2. i <= a => lines[i] \in AccSeen(g[N])
    BY <1>14, <1>15 DEF Sweeps
  <2>3. QED BY <1>17, <1>19, <2>1, <2>2
<1>21. PICK c, e : c = all.chunks /\ e = all.current
  OBVIOUS
<1>22. c \in Seq(Seq(A)) /\ e \in Seq(A) /\ AccSeen(all) = Seen(c) \cup ToSet(e)
  BY <1>19, <1>21 DEF CodeAccs, AccSeen
<1>23. PICK last : last = IF e = <<>> THEN <<>> ELSE <<e>>
  OBVIOUS
<1>24. last \in Seq(Seq(A)) /\ Seen(last) = ToSet(e)
  <2>1. CASE e = <<>>
    <3>1. PICK none : none = <<>> /\ none \in Seq(Seq(A)) /\ Seen(none) = {} /\ ToSet(none) = {}
      BY NoneListed, ToSetEmpty
    <3>2. QED BY <1>23, <2>1, <3>1
  <2>2. CASE e # <<>>
    BY <1>22, <1>23, <2>2, SeenOne
  <2>3. QED BY <2>1, <2>2
<1>25. PICK out : out = c \o last
  OBVIOUS
<1>26. out \in Seq(Seq(A)) /\ Seen(out) = AccSeen(all)
  BY <1>22, <1>24, <1>25, SeenMore
<1>27. Seen(out) = A
  <2>1. Seen(out) \subseteq A
    BY <1>26, SeenWithin
  <2>2. ASSUME NEW x \in A PROVE x \in Seen(out)
    <3>1. PICK i \in 1..Len(lines) : lines[i] = x
      BY <1>1, <2>2, ToSetIs
    <3>2. QED BY <1>20, <1>26, <3>1
  <2>3. QED BY <2>1, <2>2
<1>28. Swept(lines, nodes, max) = all
  BY <1>3, <1>10, <1>15, <1>16, <1>18 DEF Swept
<1>29. ChunkCode(lines, nodes, max) = out
  BY <1>21, <1>23, <1>25, <1>28, ChunkCodeIs DEF Flushed
<1>30. out \in Seq(Seq(R))
  <2>1. \A r : r \in Seq(A) => r \in Seq(R)
    BY <1>2
  <2>2. PICK S, T : S = Seq(A) /\ T = Seq(R)
    OBVIOUS
  <2>3. out \in Seq(S) /\ S \subseteq T
    BY <1>26, <2>1, <2>2
  <2>4. out \in Seq(T)
    BY <2>3
  <2>5. QED BY <2>2, <2>4
<1>31. QED BY <1>1, <1>27, <1>29, <1>30

(***************************************************************************)
(* What a document holds, in chunks.                                       *)
(***************************************************************************)
LEMMA SourceIs ==
    ASSUME NEW src \in Sources
    PROVE  /\ src.kind \in {"text", "python", "unparsed"} /\ src.body \in Seq(ToSet(src.body))
           /\ src.kind = "python" => IsRanges(src.nodes, src.body)
BY DocumentsAssumption DEF IsSource, IsRanges

LEMMA ChunkSizesAre == ChunkSize \in Nat \ {0} /\ MaxLines \in Nat \ {0} /\ Overlap \in Nat
BY DocumentsAssumption

LEMMA ChunksAre ==
    ASSUME NEW src \in Sources
    PROVE  /\ Chunks(src) \in Seq(Seq(ToSet(src.body)))
           /\ src.kind # "text" => Seen(Chunks(src)) = ToSet(src.body)
<1>1. PICK B, body : B = ToSet(src.body) /\ body = src.body /\ body \in Seq(B) /\ ToSet(body) = B
  BY SourceIs
<1>2. CASE src.kind = "text"
  <2>1. ChunkText(body, ChunkSize, Overlap) \in Seq(Seq(B))
    BY <1>1, ChunkSizesAre, EveryTextKept
  <2>2. Chunks(src) = ChunkText(body, ChunkSize, Overlap)
    BY <1>1, <1>2 DEF Chunks
  <2>3. QED BY <1>1, <1>2, <2>1, <2>2
<1>3. CASE src.kind = "python"
  <2>1. PICK nodes : nodes = src.nodes /\ IsRanges(nodes, body)
    BY <1>1, <1>3, SourceIs
  <2>2. ChunkCode(body, nodes, MaxLines) \in Seq(Seq(B)) /\ Seen(ChunkCode(body, nodes, MaxLines)) = ToSet(body)
    BY <1>1, <2>1, ChunkSizesAre, EveryLineKept
  <2>3. Chunks(src) = ChunkCode(body, nodes, MaxLines)
    BY <1>1, <1>3, <2>1 DEF Chunks
  <2>4. QED BY <1>1, <2>2, <2>3
<1>4. CASE src.kind = "unparsed"
  <2>1. ChunkByLines(body, MaxLines) \in Seq(Seq(B)) /\ Seen(ChunkByLines(body, MaxLines)) = ToSet(body)
    BY <1>1, ChunkSizesAre, HardSplitSeen DEF ChunkByLines
  <2>2. Chunks(src) = ChunkByLines(body, MaxLines)
    BY <1>1, <1>4 DEF Chunks
  <2>3. QED BY <1>1, <2>1, <2>2
<1>5. QED BY <1>2, <1>3, <1>4, SourceIs

LEMMA ChunksListed == ASSUME NEW src \in Sources PROVE Chunks(src) \in Seq(Contents)
<1>1. PICK R : R = Seq(ToSet(src.body))
  OBVIOUS
<1>2. PICK c : c = Chunks(src)
  OBVIOUS
<1>3. c \in Seq(R)
  BY <1>1, <1>2, ChunksAre
<1>4. c \in Seq(ToSet(c))
  BY <1>3, OwnElements
<1>5. ToSet(c) \subseteq Contents
  BY <1>2 DEF Contents
<1>6. PICK S, T : S = ToSet(c) /\ T = Contents
  OBVIOUS
<1>7. c \in Seq(T)
  <2>1. c \in Seq(S) /\ S \subseteq T
    BY <1>4, <1>5, <1>6
  <2>2. QED BY <2>1
<1>8. QED BY <1>2, <1>6, <1>7

(* Every text can be read off its chunks, whatever its length, and every   *)
(* line of the code is in one of its chunks.                               *)
LEMMA ChunksAlwaysFaithful == ChunksFaithful
<1>1. ASSUME NEW s \in ShortTexts
      PROVE  Fits(ChunksOf(s), ChunkSize) /\ (Reassembles(ChunksOf(s), s) \/ ChunksOf(s) = <<>>)
  <2>1. PICK R : R = {"n", " ", ".", ";", "a"}
    OBVIOUS
  <2>2. PICK n \in 1..5 : s \in [1..n -> R]
    BY <2>1 DEF ShortTexts
  <2>3. s \in Seq(R)
    <3>1. n \in Nat
      OBVIOUS
    <3>2. QED BY <2>2, <3>1, FunctionIsSeq
  <2>4. /\ Fits(ChunkText(s, ChunkSize, Overlap), ChunkSize)
        /\ IF \A i \in DOMAIN s : IsSpace(s[i]) THEN ChunkText(s, ChunkSize, Overlap) = <<>>
           ELSE Reassembles(ChunkText(s, ChunkSize, Overlap), s)
    BY <2>3, ChunkSizesAre, EveryTextKept
  <2>5. QED BY <2>4 DEF ChunksOf
<1>2. ASSUME NEW src \in Sources, src.kind # "text"
      PROVE  ToSet(src.body) = UNION {ToSet(c) : c \in ToSet(Chunks(src))}
  BY <1>2, ChunksAre DEF Seen
<1>3. QED BY <1>1, <1>2 DEF ChunksFaithful, TextsKept, LinesKept

-----------------------------------------------------------------------------
(* The invariant of the table and of the ingestions: a document holds no   *)
(* content twice, and a chunk of its text is in the table or on its way.   *)
IngestSet ==
    [pc : {"idle", "embed", "failed", "done"}, doc : Docs \cup {"-"}, src : Sources \cup {NoSource},
     new : Seq(RowType), count : Nat]

NoneTwice ==
    \A i, j \in 1..Len(rows) :
        rows[i].doc = rows[j].doc /\ rows[i].content = rows[j].content => i = j

Gathers(g) ==
    /\ g.pc # "idle" => g.doc \in Docs /\ g.src \in Sources
    /\ g.pc = "embed" =>
          /\ \A i \in 1..Len(g.new) : g.new[i].doc = g.doc
          /\ \A c \in ToSet(Chunks(g.src)) :
                c \in Held(rows, g.doc) \/ \E i \in 1..Len(g.new) : g.new[i].content = c
    /\ g.pc = "done" => ToSet(Chunks(g.src)) \subseteq Held(rows, g.doc)

RInv ==
    /\ source \in [Docs -> Sources] /\ rows \in Seq(RowType) /\ NoneTwice
    /\ ingest \in [Writers -> IngestSet]
    /\ \A w \in Writers : Gathers(ingest[w])

LEMMA HeldIs ==
    ASSUME NEW rs \in Seq(RowType), NEW d
    PROVE  \A c : c \in Held(rs, d) <=> \E i \in 1..Len(rs) : rs[i].doc = d /\ rs[i].content = c
<1>1. DOMAIN rs = 1..Len(rs)
  OBVIOUS
<1>2. QED BY <1>1 DEF Held

LEMMA HeldGrows == ASSUME RInv, RowsGrow, NEW d PROVE Held(rows, d) \subseteq Held(rows', d)
<1>1. /\ rows \in Seq(RowType) /\ rows' \in Seq(RowType) /\ Len(rows) \in Nat /\ Len(rows') \in Nat
      /\ Len(rows) <= Len(rows')
  BY DEF RInv, RowsGrow
<1>2. ASSUME NEW c \in Held(rows, d) PROVE c \in Held(rows', d)
  <2>1. PICK i \in 1..Len(rows) : rows[i].doc = d /\ rows[i].content = c
    BY <1>1, <1>2, HeldIs
  <2>2. i \in 1..Len(rows') /\ rows'[i] = rows[i]
    BY <1>1 DEF RowsGrow
  <2>3. QED BY <1>1, <2>1, <2>2, HeldIs
<1>3. QED BY <1>2

LEMMA GathersStill ==
    ASSUME RInv, RowsGrow, NEW g \in IngestSet, Gathers(g)
    PROVE  Gathers(g)'
BY HeldGrows DEF Gathers

LEMMA NewChunksAre ==
    ASSUME RInv, NEW d \in Docs, NEW src \in Sources
    PROVE  /\ NewChunks(d, Chunks(src)) \in Seq(RowType)
           /\ \A i \in 1..Len(NewChunks(d, Chunks(src))) : NewChunks(d, Chunks(src))[i].doc = d
           /\ \A c \in ToSet(Chunks(src)) :
                c \in Held(rows, d) \/ \E i \in 1..Len(NewChunks(d, Chunks(src))) :
                                        NewChunks(d, Chunks(src))[i].content = c
<1>1. PICK chunks \in Seq(Contents) : chunks = Chunks(src)
  BY ChunksListed
<1> DEFINE all == [i \in DOMAIN chunks |-> Row(d, chunks[i], i - 1)]
           keep == {i \in DOMAIN all : all[i].content \notin Held(rows, d)}
           new == Chosen(all, keep)
<1>2. Len(chunks) \in Nat /\ DOMAIN chunks = 1..Len(chunks)
  OBVIOUS
<1>3. \A i \in 1..Len(chunks) : Row(d, chunks[i], i - 1) \in RowType
  BY DEF Row, RowType
<1>4. all \in Seq(RowType) /\ Len(all) = Len(chunks)
  <2>1. all \in [1..Len(chunks) -> RowType]
    BY <1>2, <1>3
  <2> HIDE DEF all
  <2>2. QED BY <1>2, <2>1, FunctionIsSeq
<1>5. \A i \in 1..Len(chunks) : all[i].doc = d /\ all[i].content = chunks[i]
  BY <1>2 DEF Row
<1>6. NewChunks(d, chunks) = new
  BY Zenon DEF NewChunks
<1>7. \A i \in 1..Len(chunks) : i \in keep <=> chunks[i] \notin Held(rows, d)
  BY <1>2, <1>5
<1> HIDE DEF all, keep
<1>8. /\ new \in Seq(RowType)
      /\ \A i \in 1..Len(new) : \E m \in 1..Len(all) : m \in keep /\ new[i] = all[m]
      /\ \A m \in 1..Len(all) : m \in keep => \E i \in 1..Len(new) : new[i] = all[m]
  <2>1. new \in Seq(RowType) /\ Selects(new, all, keep, Len(all))
    BY <1>4, ChosenSelects
  <2> HIDE DEF new
  <2>2. QED BY <2>1 DEF Selects
<1> HIDE DEF new
<1>9. \A i \in 1..Len(new) : new[i].doc = d
  BY <1>4, <1>5, <1>8
<1>10. ASSUME NEW c \in ToSet(chunks), c \notin Held(rows, d) PROVE \E i \in 1..Len(new) : new[i].content = c
  <2>1. PICK m \in 1..Len(chunks) : chunks[m] = c
    BY <1>10, ToSetIs
  <2>2. PICK i \in 1..Len(new) : new[i] = all[m]
    BY <1>4, <1>7, <1>8, <1>10, <2>1
  <2>3. QED BY <1>5, <2>1, <2>2
<1>11. QED BY <1>1, <1>6, <1>8, <1>9, <1>10

(* Inserting adds the contents that are missing, each once.                *)
LEMMA InsertedIs ==
    ASSUME RInv, NEW d \in Docs, NEW new \in Seq(RowType), \A i \in 1..Len(new) : new[i].doc = d,
           rows' = InsertedUnless(new)
    PROVE  RowsGrow /\ NoneTwice' /\ \A i \in 1..Len(new) : new[i].content \in Held(rows', d)
<1> DEFINE keep == {i \in DOMAIN new :
                        /\ new[i].content \notin Held(rows, new[i].doc)
                        /\ \A j \in 1..(i - 1) : <<new[j].doc, new[j].content>> # <<new[i].doc, new[i].content>>}
           more == Chosen(new, keep)
<1>1. rows \in Seq(RowType) /\ Len(rows) \in Nat /\ DOMAIN new = 1..Len(new) /\ Len(new) \in Nat
  BY DEF RInv
<1>2. rows' = rows \o more
  BY Zenon DEF InsertedUnless
<1>3. \A i \in 1..Len(new) : i \in keep <=>
            new[i].content \notin Held(rows, d) /\ \A j \in 1..(i - 1) : new[j].content # new[i].content
  <2> SUFFICES ASSUME NEW i \in 1..Len(new)
               PROVE  i \in keep <=> /\ new[i].content \notin Held(rows, d)
                                     /\ \A j \in 1..(i - 1) : new[j].content # new[i].content
    OBVIOUS
  <2>1. new[i].doc = d /\ \A j \in 1..(i - 1) : j \in 1..Len(new) /\ new[j].doc = d
    BY <1>1
  <2>2. QED BY <1>1, <2>1
<1> HIDE DEF keep
<1>4. more \in Seq(RowType) /\ Selects(more, new, keep, Len(new))
  BY ChosenSelects
<1> HIDE DEF more
<1>5. PICK pos \in [1..Len(more) -> 1..Len(new)] :
            /\ \A i \in 1..Len(more) : pos[i] \in keep /\ more[i] = new[pos[i]]
            /\ \A i, j \in 1..Len(more) : i < j => pos[i] < pos[j]
            /\ \A m \in 1..Len(new) : m \in keep => \E i \in 1..Len(more) : pos[i] = m
  BY <1>4 DEF Selects
<1>6. /\ rows' \in Seq(RowType) /\ Len(rows') = Len(rows) + Len(more) /\ Len(more) \in Nat
      /\ \A i \in 1..(Len(rows) + Len(more)) : rows'[i] = IF i <= Len(rows) THEN rows[i] ELSE more[i - Len(rows)]
  BY <1>1, <1>2, <1>4, ConcatProperties
<1>7. RowsGrow
  BY <1>1, <1>6 DEF RowsGrow
<1>8. \A i \in 1..Len(more) : /\ pos[i] \in 1..Len(new) /\ more[i] = new[pos[i]] /\ more[i].doc = d
                              /\ more[i].content \notin Held(rows, d)
                              /\ \A j \in 1..(pos[i] - 1) : new[j].content # more[i].content
  <2> SUFFICES ASSUME NEW i \in 1..Len(more)
               PROVE  /\ pos[i] \in 1..Len(new) /\ more[i] = new[pos[i]] /\ more[i].doc = d
                      /\ more[i].content \notin Held(rows, d)
                      /\ \A j \in 1..(pos[i] - 1) : new[j].content # more[i].content
    OBVIOUS
  <2>1. pos[i] \in 1..Len(new) /\ pos[i] \in keep /\ more[i] = new[pos[i]]
    BY <1>5
  <2>2. /\ new[pos[i]].content \notin Held(rows, d)
        /\ \A j \in 1..(pos[i] - 1) : new[j].content # new[pos[i]].content
    BY <1>3, <2>1
  <2>3. QED BY <2>1, <2>2
<1>9. ASSUME NEW i \in 1..Len(rows'), NEW j \in 1..Len(rows'), i < j,
             rows'[i].doc = rows'[j].doc, rows'[i].content = rows'[j].content
      PROVE  FALSE
  <2>1. CASE j <= Len(rows)
    <3>1. i \in 1..Len(rows) /\ j \in 1..Len(rows) /\ rows'[i] = rows[i] /\ rows'[j] = rows[j]
      BY <1>1, <1>6, <1>9, <2>1
    <3>2. QED BY <1>9, <3>1 DEF RInv, NoneTwice
  <2>2. CASE i <= Len(rows) /\ j > Len(rows)
    <3>1. PICK n \in 1..Len(more) : n = j - Len(rows) /\ rows'[j] = more[n]
      <4>1. j \in 1..(Len(rows) + Len(more)) /\ ~(j <= Len(rows)) /\ j - Len(rows) \in 1..Len(more)
        BY <1>1, <1>6, <2>2
      <4>2. rows'[j] = more[j - Len(rows)]
        BY <1>6, <4>1
      <4>3. QED BY <4>1, <4>2
    <3>2. i \in 1..Len(rows) /\ rows'[i] = rows[i]
      BY <1>1, <1>6, <2>2
    <3>3. rows[i].doc = d /\ rows[i].content = more[n].content
      BY <1>8, <1>9, <3>1, <3>2
    <3>4. more[n].content \in Held(rows, d)
      BY <1>1, <3>2, <3>3, HeldIs
    <3>5. QED BY <1>8, <3>1, <3>4
  <2>3. CASE i > Len(rows)
    <3>1. PICK m \in 1..Len(more), n \in 1..Len(more) : m < n /\ rows'[i] = more[m] /\ rows'[j] = more[n]
      <4>1. i - Len(rows) \in 1..Len(more) /\ rows'[i] = more[i - Len(rows)]
        BY <1>1, <1>6, <2>3
      <4>2. j - Len(rows) \in 1..Len(more) /\ rows'[j] = more[j - Len(rows)]
        BY <1>1, <1>6, <1>9, <2>3
      <4>3. i - Len(rows) < j - Len(rows)
        BY <1>1, <1>6, <1>9
      <4>4. QED BY <4>1, <4>2, <4>3
    <3>2. pos[m] < pos[n] /\ pos[m] \in 1..Len(new) /\ pos[n] \in 1..Len(new)
      BY <1>5, <1>8, <3>1
    <3>3. pos[m] \in 1..(pos[n] - 1) /\ more[m] = new[pos[m]]
      BY <1>8, <3>2
    <3>4. new[pos[m]].content # more[n].content
      BY <1>8, <3>3
    <3>5. QED BY <1>9, <3>1, <3>3, <3>4
  <2>4. QED BY <1>1, <1>6, <2>1, <2>2, <2>3
<1>10. NoneTwice'
  <2>1. \A i, j \in 1..Len(rows') : i < j \/ j < i \/ i = j
    BY <1>1, <1>6
  <2>2. QED BY <1>9, <2>1 DEF NoneTwice
<1>11. ASSUME NEW i \in 1..Len(new) PROVE new[i].content \in Held(rows', d)
  <2>1. CASE new[i].content \in Held(rows, d)
    BY <1>7, <2>1, HeldGrows
  <2>2. CASE new[i].content \notin Held(rows, d)
    <3> DEFINE T == {m \in 1..Len(new) : new[m].content = new[i].content}
    <3>1. PICK m \in T : \A n \in T : ~(n < m)
      <4>1. T \subseteq Nat /\ T # {}
        OBVIOUS
      <4> HIDE DEF T
      <4>2. QED BY <4>1, LeastNumber
    <3>2. m \in 1..Len(new) /\ new[m].content = new[i].content
      OBVIOUS
    <3>3. \A j \in 1..(m - 1) : new[j].content # new[m].content
      <4>1. \A j \in 1..(m - 1) : j \in 1..Len(new) /\ j < m
        BY <1>1, <3>2
      <4>2. QED BY <3>1, <3>2, <4>1
    <3>4. m \in keep
      BY <1>3, <2>2, <3>2, <3>3
    <3>5. PICK n \in 1..Len(more) : pos[n] = m
      BY <1>5, <3>2, <3>4
    <3>6. more[n] = new[m] /\ more[n].doc = d
      BY <1>8, <3>5
    <3>7. PICK x : x = Len(rows) + n
      OBVIOUS
    <3>8. x \in 1..Len(rows') /\ rows'[x] = more[n]
      BY <1>1, <1>6, <3>7
    <3> HIDE DEF T
    <3>9. rows'[x].doc = d /\ rows'[x].content = new[i].content
      BY <3>2, <3>6, <3>8
    <3>10. rows' \in Seq(RowType)
      BY <1>6
    <3>11. QED BY <3>8, <3>9, <3>10, HeldIs
  <2>3. QED BY <2>1, <2>2
<1>12. QED BY <1>7, <1>10, <1>11

LEMMA IngestMoves ==
    ASSUME RInv, RowsGrow, source' \in [Docs -> Sources], NoneTwice', NEW w \in Writers, NEW g \in IngestSet,
           Gathers(g)', ingest' = [ingest EXCEPT ![w] = g]
    PROVE  RInv'
<1>1. ingest' \in [Writers -> IngestSet]
  BY DEF RInv
<1>2. ASSUME NEW v \in Writers PROVE Gathers(ingest[v])'
  <2>1. CASE v = w
    BY <2>1 DEF RInv
  <2>2. CASE v # w
    <3>1. ingest[v] \in IngestSet /\ Gathers(ingest[v]) /\ ingest'[v] = ingest[v]
      BY <2>2 DEF RInv
    <3>2. PICK h \in IngestSet : h = ingest[v]
      BY <3>1
    <3>3. Gathers(h)'
      BY <3>1, <3>2, GathersStill
    <3>4. QED BY <3>1, <3>2, <3>3 DEF Gathers
  <2>3. QED BY <2>1, <2>2
<1>3. QED BY <1>1, <1>2 DEF RInv, RowsGrow

LEMMA RowsRest == ASSUME RInv, rows' = rows PROVE RowsGrow /\ NoneTwice'
BY DEF RInv, RowsGrow, NoneTwice

LEMMA IngestStays ==
    ASSUME RInv, rows' = rows, ingest' = ingest, source' \in [Docs -> Sources]
    PROVE  RInv' /\ RowsGrow
<1>1. RowsGrow /\ NoneTwice'
  BY RowsRest
<1>2. ASSUME NEW w \in Writers PROVE Gathers(ingest[w])'
  <2>1. PICK g \in IngestSet : g = ingest[w] /\ g = ingest'[w] /\ Gathers(g)
    BY DEF RInv
  <2>2. Gathers(g)'
    BY <1>1, <2>1, GathersStill
  <2>3. QED BY <2>1, <2>2 DEF Gathers
<1>3. QED BY <1>1, <1>2 DEF RInv

LEMMA IngestKeeps ==
    ASSUME RInv, NEW w \in Writers, NEW d \in Docs, Ingest(w, d)
    PROVE  RInv' /\ RowsGrow
<1> DEFINE new == NewChunks(d, Chunks(source[d]))
           g == [pc |-> IF new = <<>> THEN "done" ELSE "embed", doc |-> d, src |-> source[d], new |-> new,
                 count |-> 0]
<1>1. rows' = rows /\ source' = source /\ ingest' = [ingest EXCEPT ![w] = g]
  BY Zenon DEF Ingest
<1>2. source[d] \in Sources
  BY DEF RInv
<1>3. /\ new \in Seq(RowType) /\ \A i \in 1..Len(new) : new[i].doc = d
      /\ \A c \in ToSet(Chunks(source[d])) :
            c \in Held(rows, d) \/ \E i \in 1..Len(new) : new[i].content = c
  BY <1>2, NewChunksAre
<1> HIDE DEF new
<1>4. g \in IngestSet
  BY <1>2, <1>3 DEF IngestSet
<1>5. new = <<>> => ToSet(Chunks(source[d])) \subseteq Held(rows, d)
  <2>1. new = <<>> => Len(new) = 0
    BY EmptySeq
  <2>2. QED BY <1>3, <2>1
<1>6. PICK h \in IngestSet : h = g
  BY <1>4
<1>7. /\ h.doc = d /\ h.src = source[d] /\ h.new = new
      /\ h.pc = IF new = <<>> THEN "done" ELSE "embed"
  BY <1>6
<1>8. Gathers(h)
  BY <1>2, <1>3, <1>5, <1>7 DEF Gathers
<1>9. Gathers(h)'
  BY <1>1, <1>8, RowsRest, GathersStill
<1>10. ingest' = [ingest EXCEPT ![w] = h]
  BY <1>1, <1>6
<1> HIDE DEF g
<1>11. source' \in [Docs -> Sources]
  BY <1>1 DEF RInv
<1>12. QED BY <1>1, <1>9, <1>10, <1>11, RowsRest, IngestMoves

LEMMA IngestFailsKeeps ==
    ASSUME RInv, NEW w \in Writers, IngestFails(w)
    PROVE  RInv' /\ RowsGrow
<1>1. rows' = rows /\ source' = source /\ ingest' = [ingest EXCEPT ![w].pc = "failed"] /\ ingest[w].pc = "embed"
  BY DEF IngestFails
<1>2. ingest[w] \in IngestSet /\ Gathers(ingest[w])
  BY DEF RInv
<1>3. PICK h : h = [ingest[w] EXCEPT !.pc = "failed"]
  OBVIOUS
<1>4. h \in IngestSet /\ h.pc = "failed" /\ h.doc = ingest[w].doc /\ h.src = ingest[w].src
  BY <1>2, <1>3 DEF IngestSet
<1>5. Gathers(h)'
  BY <1>1, <1>2, <1>4 DEF Gathers
<1>6. ingest' = [ingest EXCEPT ![w] = h]
  BY <1>1, <1>3
<1>7. source' \in [Docs -> Sources]
  BY <1>1 DEF RInv
<1>8. QED BY <1>1, <1>4, <1>5, <1>6, <1>7, RowsRest, IngestMoves

LEMMA InsertChunksKeeps ==
    ASSUME RInv, NEW w \in Writers, InsertChunks(w)
    PROVE  RInv' /\ RowsGrow
<1>1. /\ source' = source /\ ingest[w].pc = "embed" /\ rows' = InsertedUnless(ingest[w].new)
      /\ ingest' = [ingest EXCEPT ![w].pc = "done", ![w].count = Len(ingest[w].new)]
  BY DEF InsertChunks
<1>2. ingest[w] \in IngestSet /\ Gathers(ingest[w])
  BY DEF RInv
<1>3. PICK d \in Docs, new \in Seq(RowType) : d = ingest[w].doc /\ new = ingest[w].new
  BY <1>1, <1>2 DEF IngestSet, Gathers
<1>4. /\ \A i \in 1..Len(new) : new[i].doc = d
      /\ \A c \in ToSet(Chunks(ingest[w].src)) :
            c \in Held(rows, d) \/ \E i \in 1..Len(new) : new[i].content = c
  BY <1>1, <1>2, <1>3 DEF Gathers
<1>5. RowsGrow /\ NoneTwice' /\ \A i \in 1..Len(new) : new[i].content \in Held(rows', d)
  BY <1>1, <1>3, <1>4, InsertedIs
<1>6. Held(rows, d) \subseteq Held(rows', d)
  BY <1>5, HeldGrows
<1>7. PICK h : h = [ingest[w] EXCEPT !.pc = "done", !.count = Len(new)]
  OBVIOUS
<1>8. h \in IngestSet /\ h.pc = "done" /\ h.doc = d /\ h.src = ingest[w].src
  <2>1. Len(new) \in Nat
    BY <1>3
  <2>2. QED BY <1>2, <1>3, <1>7, <2>1 DEF IngestSet
<1>9. ToSet(Chunks(h.src)) \subseteq Held(rows', d)
  BY <1>4, <1>5, <1>6, <1>8
<1>10. Gathers(h)'
  BY <1>1, <1>2, <1>3, <1>8, <1>9 DEF Gathers
<1>11. ingest' = [ingest EXCEPT ![w] = h]
  BY <1>1, <1>3, <1>7
<1>12. source' \in [Docs -> Sources]
  BY <1>1 DEF RInv
<1>13. QED BY <1>5, <1>8, <1>10, <1>11, <1>12, IngestMoves

LEMMA EditKeeps ==
    ASSUME RInv, NEW d \in Docs, Edit(d)
    PROVE  RInv' /\ RowsGrow
<1>1. rows' = rows /\ ingest' = ingest /\ source' \in [Docs -> Sources]
  BY DEF Edit, RInv
<1>2. QED BY <1>1, IngestStays

LEMMA IngestRests ==
    ASSUME RInv, UNCHANGED <<source, rows, ingest>>
    PROVE  RInv' /\ RowsGrow
<1>1. rows' = rows /\ ingest' = ingest /\ source' \in [Docs -> Sources]
  BY DEF RInv
<1>2. QED BY <1>1, IngestStays

-----------------------------------------------------------------------------
DInv == RInv /\ SInv

LEMMA InitDInv == DocumentsInit => DInv
<1> SUFFICES ASSUME DocumentsInit PROVE DInv
  OBVIOUS
<1>1. rows \in Seq(RowType) /\ rows = <<>> /\ Len(<<>>) = 0
  BY EmptySeq DEF DocumentsInit
<1>2. source \in [Docs -> Sources]
  BY DocumentsAssumption DEF DocumentsInit
<1>3. NoneTwice
  BY <1>1 DEF NoneTwice
<1>4. NoIngest \in IngestSet
  <2>1. <<>> \in Seq(RowType)
    BY EmptySeq
  <2>2. QED BY <2>1 DEF NoIngest, IngestSet
<1>5. ingest \in [Writers -> IngestSet] /\ \A w \in Writers : ingest[w] = NoIngest
  BY <1>4 DEF DocumentsInit
<1>6. \A w \in Writers : Gathers(ingest[w])
  BY <1>5 DEF NoIngest, Gathers
<1>7. RInv
  BY <1>1, <1>2, <1>3, <1>5, <1>6 DEF RInv
<1>8. search = NoSearch
  BY DEF DocumentsInit
<1>9. SInv
  BY <1>1, <1>8, IdleSound
<1>10. QED BY <1>7, <1>9 DEF DInv

LEMMA SearchesKeep ==
    ASSUME DInv, UNCHANGED <<source, rows, ingest>>, SInv'
    PROVE  DInv'
BY IngestRests DEF DInv

LEMMA NextKeepsDInv == DInv /\ [DocumentsNext]_documents_vars => DInv'
<1> SUFFICES ASSUME DInv, [DocumentsNext]_documents_vars PROVE DInv'
  OBVIOUS
<1>1. RInv /\ SInv
  BY DEF DInv
<1>2. ASSUME RInv', RowsGrow, UNCHANGED search PROVE DInv'
  BY <1>1, <1>2, SearchRests DEF DInv
<1>3. ASSUME NEW w \in Writers, NEW d \in Docs, Ingest(w, d) PROVE DInv'
  <2>1. UNCHANGED search
    BY <1>3 DEF Ingest
  <2>2. QED BY <1>1, <1>2, <1>3, <2>1, IngestKeeps
<1>4. ASSUME NEW w \in Writers, InsertChunks(w) PROVE DInv'
  <2>1. UNCHANGED search
    BY <1>4 DEF InsertChunks
  <2>2. QED BY <1>1, <1>2, <1>4, <2>1, InsertChunksKeeps
<1>5. ASSUME NEW w \in Writers, IngestFails(w) PROVE DInv'
  <2>1. UNCHANGED search
    BY <1>5 DEF IngestFails
  <2>2. QED BY <1>1, <1>2, <1>5, <2>1, IngestFailsKeeps
<1>6. ASSUME NEW d \in Docs, Edit(d) PROVE DInv'
  <2>1. UNCHANGED search
    BY <1>6 DEF Edit
  <2>2. QED BY <1>1, <1>2, <1>6, <2>1, EditKeeps
<1>7. ASSUME NEW q \in Queries, NEW k \in TopKs, NEW mode \in {"hybrid", "dense"}, SearchChunks(q, mode, k)
      PROVE  DInv'
  <2>1. UNCHANGED <<source, rows, ingest>>
    BY <1>7 DEF SearchChunks
  <2>2. QED BY <1>1, <1>7, <2>1, SearchChunksKeeps, SearchesKeep
<1>8. ASSUME NEW q \in Queries, NEW k \in TopKs, SearchMemories(q, k) PROVE DInv'
  <2>1. UNCHANGED <<source, rows, ingest>>
    BY <1>8 DEF SearchMemories
  <2>2. QED BY <1>1, <1>8, <2>1, SearchMemoriesKeeps, SearchesKeep
<1>9. ASSUME NEW q \in Queries, NEW k \in TopKs, NEW variations \in {<<>>} \cup {<<v>> : v \in Queries \ {q}},
             SearchMulti(q, variations, k)
      PROVE  DInv'
  <2>1. UNCHANGED <<source, rows, ingest>>
    BY <1>9 DEF SearchMulti
  <2>2. variations \in Seq(Queries)
    <3>1. CASE variations = <<>>
      BY <3>1, EmptyIs
    <3>2. CASE variations # <<>>
      <4>1. PICK v \in Queries : variations = <<v>>
        BY <3>2
      <4>2. QED BY <4>1
    <3>3. QED BY <3>1, <3>2
  <2>3. QED BY <1>1, <1>9, <2>1, <2>2, SearchMultiKeeps, SearchesKeep
<1>10. ASSUME NEW missed \in Overlooked(Near(search.query)), ReadDense(missed) PROVE DInv'
  <2>1. UNCHANGED <<source, rows, ingest>>
    BY <1>10 DEF ReadDense
  <2>2. missed \in RowSets
    BY <1>1, OverlookedIs DEF SInv
  <2>3. QED BY <1>1, <1>10, <2>1, <2>2, ReadDenseKeeps, SearchesKeep
<1>11. CASE ReadSparse
  <2>1. UNCHANGED <<source, rows, ingest>>
    BY <1>11 DEF ReadSparse
  <2>2. QED BY <1>1, <1>11, <2>1, ReadSparseKeeps, SearchesKeep
<1>12. ASSUME NEW missed \in Overlooked(Near(Head(search.queries))), ReadVariation(missed) PROVE DInv'
  <2>1. UNCHANGED <<source, rows, ingest>>
    BY <1>12 DEF ReadVariation
  <2>2. missed \in RowSets
    BY <1>1, OverlookedIs DEF SInv
  <2>3. QED BY <1>1, <1>12, <2>1, <2>2, ReadVariationKeeps, SearchesKeep
<1>13. CASE RankFused
  <2>1. UNCHANGED <<source, rows, ingest>>
    BY <1>13 DEF RankFused
  <2>2. QED BY <1>1, <1>13, <2>1, RankFusedKeeps, SearchesKeep
<1>14. CASE RankSimilar
  <2>1. UNCHANGED <<source, rows, ingest>>
    BY <1>14 DEF RankSimilar
  <2>2. QED BY <1>1, <1>14, <2>1, RankSimilarKeeps, SearchesKeep
<1>15. ASSUME NEW score \in [ToSet(Candidates) -> Scores \cup {NoScore}], RankLLM(score) PROVE DInv'
  <2>1. UNCHANGED <<source, rows, ingest>>
    BY <1>15 DEF RankLLM
  <2>2. QED BY <1>1, <1>15, <2>1, RankLLMKeeps, SearchesKeep
<1>16. ASSUME NEW missed, ReadMemories(missed) PROVE DInv'
  <2>1. UNCHANGED <<source, rows, ingest>>
    BY <1>16 DEF ReadMemories
  <2>2. QED BY <1>1, <1>16, <2>1, ReadMemoriesKeeps, SearchesKeep
<1>17. CASE RecordRecalls
  <2>1. UNCHANGED <<source, rows, ingest>>
    BY <1>17 DEF RecordRecalls
  <2>2. QED BY <1>1, <1>17, <2>1, RecordRecallsKeeps, SearchesKeep
<1>18. ASSUME NEW i \in DOMAIN memory_rows, Forget(i) PROVE DInv'
  <2>1. UNCHANGED <<source, rows, ingest, search>>
    BY <1>18 DEF Forget
  <2>2. QED BY <1>1, <1>2, <2>1, IngestRests
<1>19. ASSUME NEW llm \in BOOLEAN, NEW cross \in BOOLEAN,
              NEW score \in [ToSet(search.dense) -> Scores \cup {NoScore}], RankMemories(llm, cross, score)
       PROVE  DInv'
  <2>1. UNCHANGED <<source, rows, ingest>>
    BY <1>19 DEF RankMemories
  <2>2. QED BY <1>1, <1>19, <2>1, RankMemoriesKeeps, SearchesKeep
<1>20. CASE SearchFails \/ Answered
  <2>1. UNCHANGED <<source, rows, ingest>> /\ search' = NoSearch
    BY <1>20 DEF SearchFails, Answered
  <2>2. rows' \in Seq(RowType)
    BY <1>1, <2>1 DEF RInv
  <2>3. (search = NoSearch /\ rows \in Seq(RowType))'
    BY <2>1, <2>2
  <2>4. SInv'
    BY <2>3, IdleSound, PTL
  <2>5. QED BY <2>1, <2>4, SearchesKeep
<1>21. CASE UNCHANGED documents_vars
  <2>1. UNCHANGED <<source, rows, ingest, search>>
    BY <1>21 DEF documents_vars
  <2>2. QED BY <1>1, <1>2, <2>1, IngestRests
<1>22. QED
  BY <1>3, <1>4, <1>5, <1>6, <1>7, <1>8, <1>9, <1>10, <1>11, <1>12, <1>13, <1>14, <1>15, <1>16, <1>17, <1>18,
     <1>19, <1>20, <1>21 DEF DocumentsNext

LEMMA SpecDInv == DocumentsSpec => []DInv
BY InitDInv, NextKeepsDInv, PTL DEF DocumentsSpec

(* The hybrid search never ranks a chunk behind one that both channels     *)
(* place behind it.                                                        *)
THEOREM FusionAlwaysDominates == DocumentsSpec => []FusionDominance
<1>1. DInv => FusionDominance
  <2> SUFFICES ASSUME DInv, search.pc = "done", search.fused,
                      NEW a \in ToSet(Candidates), NEW b \in ToSet(Candidates),
                      Ahead(search.dense, a, b), Ahead(search.sparse, a, b), b \in ToSet(search.results)
               PROVE  Ahead(search.results, a, b)
    BY DEF FusionDominance
  <2>1. /\ search.k \in Nat /\ search.dense \in Seq(Nat) /\ search.sparse \in Seq(Nat)
        /\ Distinct(search.dense) /\ Distinct(search.sparse)
    BY SearchFields DEF DInv, SInv, ListsSound
  <2>2. search.results = FirstN(Fused(search.dense, search.sparse), search.k)
    BY DEF DInv, SInv, AnswersRight
  <2>3. QED BY <2>1, <2>2, FusionDominates
<1>2. QED BY <1>1, SpecDInv, PTL

(* A search whose candidates no call judged returns as many as were asked  *)
(* for, or all of them.                                                    *)
THEOREM OutagesAlwaysKeepRecall == DocumentsSpec => []OutageKeepsRecall
<1>1. DInv => OutageKeepsRecall
  BY DEF DInv, SInv, AnswersRight, OutageKeepsRecall
<1>2. QED BY <1>1, SpecDInv, PTL

(* A chunk that was stored when the search began and is close to its query *)
(* is a candidate, unless the index overlooked it or as many others as the *)
(* search recalls are as close.                                            *)
THEOREM NothingEverMissed == DocumentsSpec => []NothingMissed
<1>1. DInv => NothingMissed
  <2> SUFFICES ASSUME DInv, search.pc = "rank", NEW i \in (1..search.start) \cap Near(search.query)
               PROVE  \/ i \in ToSet(Candidates)
                      \/ i \in search.missed
                      \/ Cardinality(AsNear(search.query, i)) >= Limit
    BY DEF NothingMissed
  <2>1. \/ i \in ToSet(FirstN(search.dense, Recalled(search.k)))
        \/ i \in search.missed
        \/ Cardinality(AsNear(search.query, i)) >= Limit
    BY DEF DInv, SInv, Covers, Covering
  <2>2. search.dense \in Seq(Nat) /\ search.sparse \in Seq(Nat) /\ search.k \in Nat
    BY SearchFields DEF DInv, SInv
  <2>3. ToSet(FirstN(search.dense, Recalled(search.k))) \subseteq ToSet(search.dense)
    BY <2>2, RecalledIs, FirstNIs
  <2>4. ToSet(Candidates) = ToSet(search.dense) \cup ToSet(search.sparse)
    BY <2>2, UnionIs DEF Candidates
  <2>5. QED BY <2>1, <2>3, <2>4
<1>2. QED BY <1>1, SpecDInv, PTL

LEMMA OnceStored ==
    ASSUME RInv, NEW w \in Writers, ingest[w].pc = "done"
    PROVE  StoredOnce(w)
<1> SUFFICES ASSUME NEW c \in ToSet(Chunks(ingest[w].src))
             PROVE  Cardinality({i \in DOMAIN rows : rows[i].doc = ingest[w].doc /\ rows[i].content = c}) = 1
  BY DEF StoredOnce
<1> DEFINE at == {i \in DOMAIN rows : rows[i].doc = ingest[w].doc /\ rows[i].content = c}
<1>1. rows \in Seq(RowType) /\ DOMAIN rows = 1..Len(rows)
  BY DEF RInv
<1>2. c \in Held(rows, ingest[w].doc)
  BY DEF RInv, Gathers
<1>3. PICK i \in 1..Len(rows) : rows[i].doc = ingest[w].doc /\ rows[i].content = c
  BY <1>1, <1>2, HeldIs
<1>4. at = {i}
  BY <1>1, <1>3 DEF RInv, NoneTwice
<1>5. QED BY <1>4, FS_Singleton

(* An ingestion that reported success left every chunk of its text in the  *)
(* table exactly once, whatever overlapped with it, and its text can be    *)
(* read off its chunks.                                                    *)
THEOREM DocumentsAlwaysCovered == DocumentsSpec => []DocumentCovered
<1>1. DInv => DocumentCovered
  BY OnceStored, ChunksAlwaysFaithful DEF DInv, DocumentCovered
<1>2. QED BY <1>1, SpecDInv, PTL
=============================================================================
