------------------------------ MODULE Entities ------------------------------
(***************************************************************************)
(* Entity normalisation (service/ingestion/entity.py) and what feeds it:   *)
(* extraction, the memory writes that schedule it in the background under  *)
(* a semaphore, the backfill over all memories, and the deterministic      *)
(* links of a saved postmortem.  Nothing of the queue survives a restart.  *)
(*                                                                         *)
(* A mention is what extraction finds, a name with a type; an entity row   *)
(* is what mentions are linked to.  Whether two names are close enough to  *)
(* be offered to the LLM is the constant Similar, its verdict is free.     *)
(* Mentions have a name: blank ones are passed over.                       *)
(***************************************************************************)
EXTENDS Integers, Sequences, FiniteSets, SequencesExt, Collections

CONSTANTS
    Memories,           \* memory ids
    Mentions,           \* [name, type] records
    NotText,            \* names that are not strings
    Similar(_, _),      \* external: similarity of two names over 0.85
    Like(_, _),         \* external: <<pattern, name>>, name ILIKE pattern
    Findings, Claims,   \* what the model may report: sequences of mentions, sets of <<from, to, type>>
    SavedNames,         \* names in the findings of a postmortem run
    MaxConcurrency,     \* _NORMALIZATION_MAX_CONCURRENCY
    TopK,               \* TOP_K_CANDIDATES
    MaxWrites, MaxFailures, MaxBackfills    \* bounds

ASSUME EntitiesAssumption ==
    /\ {MaxConcurrency, TopK} \subseteq Nat \ {0}
    /\ {MaxWrites, MaxFailures, MaxBackfills} \subseteq Nat
    /\ \A x \in Mentions : Similar(x.name, x.name)
    /\ IsFiniteSet(Memories) /\ Findings \subseteq Seq(Mentions)

VARIABLES
    memories,   \* the rows of memories
    update,     \* a merge between its read and its write
    entities,   \* the rows of entities, in the order of their creation
    links,      \* memory_entities
    queue,      \* the normalisations under way, in order of arrival
    backfill,   \* what normalize_all_existing has yet to do
    lost,       \* ghost: <<memory, mention>> whose normalisation failed, which is logged
    killed,     \* ghost: those whose task died with the process, which is not
    clean,      \* ghost: nothing failed since the backfill began
    count       \* counters of the bounds

vars == <<memories, update, entities, links, queue, backfill, lost, killed, clean, count>>

NoUpdate == [memory |-> "-", found |-> <<>>, claims |-> {}, old |-> <<>>, oldClaims |-> {}]
NoMemory == [status |-> "none", entities |-> <<>>, relations |-> {}]
Stored(m) == memories[m].status # "none"
Live(m) == memories[m].status = "live"
Names(ents) == {ents[i].name : i \in DOMAIN ents}

(* The mentions of s but those of these names, in their order.             *)
Without(s, names) == Chosen(s, {i \in DOMAIN s : s[i].name \notin names})

-----------------------------------------------------------------------------
(* Extraction: the tool call, the structured call where it gives nothing,  *)
(* and [] where that fails too.  Only the structured call has a schema.    *)
Channels == {"tool", "structured", "degraded"}

ExtractEntities(found, channel) ==
    CASE channel = "tool" -> found
      [] channel = "structured" -> Without(found, NotText)
      [] channel = "degraded" -> <<>>

FilterRelations(claims, ents) == {r \in claims : {r[1], r[2]} \subseteq Names(ents)}

ExtractRelations(claims, ents, channel) ==
    IF Len(ents) < 2 \/ channel = "degraded" THEN {} ELSE FilterRelations(claims, ents)

(* Both sides, of each name the last mention in the place of the first.    *)
MergeEntities(old, new) ==
    LET all == old \o new
        last(x) == CHOOSE i \in DOMAIN all : /\ all[i].name = x.name
                                            /\ \A j \in DOMAIN all : all[j].name = x.name => j <= i
    IN Chosen([i \in DOMAIN all |-> all[last(all[i])]],
              {i \in DOMAIN all : \A j \in 1..(i - 1) : all[j].name # all[i].name})

Task(m, ents) == [memory |-> m, todo |-> ents, pc |-> "next", entity |-> 0]
ScheduleNormalization_Drop(m, ents) ==
    queue' = IF Len(queue) < MaxConcurrency THEN Append(queue, Task(m, ents)) ELSE queue
ScheduleNormalization(m, ents) == queue' = Append(queue, Task(m, ents))

CountWrite == count.writes < MaxWrites /\ count' = [count EXCEPT !.writes = @ + 1]

Written(m, ents, rels) ==
    /\ memories' = [memories EXCEPT ![m] =
            [status |-> IF Stored(m) THEN memories[m].status ELSE "live", entities |-> ents, relations |-> rels]]
    /\ ScheduleNormalization(m, ents)
    /\ UNCHANGED <<entities, links, backfill, lost, killed, clean>>

(* A fresh memory, or the resolution "overwrite" of a conflict. *)
Insert(m, found, claims, channel, relChannel) ==
    LET ents == ExtractEntities(found, channel)
    IN /\ memories[m].status = "none"
       /\ CountWrite /\ Written(m, ents, ExtractRelations(claims, ents, relChannel))
       /\ UNCHANGED update

Overwrite(m, found, claims, channel, relChannel) ==
    LET ents == ExtractEntities(found, channel)
    IN /\ Live(m)
       /\ CountWrite /\ Written(m, ents, ExtractRelations(claims, ents, relChannel))
       /\ UNCHANGED update

(* A merge writes over the row what it read before the model was asked.    *)
ReadForMerge(m, found, claims, channel, relChannel) ==
    LET ents == ExtractEntities(found, channel)
    IN /\ Live(m) /\ update = NoUpdate
       /\ CountWrite
       /\ update' = [memory |-> m, found |-> ents, claims |-> ExtractRelations(claims, ents, relChannel),
                     old |-> memories[m].entities, oldClaims |-> memories[m].relations]
       /\ UNCHANGED <<memories, entities, links, queue, backfill, lost, killed, clean>>

MergeMemory ==
    /\ update # NoUpdate
    /\ Written(update.memory, MergeEntities(update.old, update.found), update.oldClaims \cup update.claims)
    /\ update' = NoUpdate /\ UNCHANGED count

Delete(m) ==
    /\ Live(m)
    /\ memories' = [memories EXCEPT ![m].status = "deleted"]
    /\ UNCHANGED <<update, entities, links, queue, backfill, lost, killed, clean, count>>

(* link_memory_to_entities of a saved postmortem: one name, and one of the *)
(* rows it matches.                                                        *)
LinkByName(m, name, id) ==
    /\ Stored(m) /\ CountWrite
    /\ id \in DOMAIN entities
    /\ Like(name, entities[id].canonical) \/ Like(name, entities[id].name)
    /\ links' = links \cup {<<m, id>>}
    /\ UNCHANGED <<memories, update, entities, queue, backfill, lost, killed, clean>>

-----------------------------------------------------------------------------
(* normalize_entities, one mention after the other; t is a task of the     *)
(* queue, of which the semaphore lets the first MaxConcurrency run, or the *)
(* backfill's first.                                                       *)
Running == (1..Len(queue)) \cap (1..MaxConcurrency)
Jobs == {<<"queue", i>> : i \in Running} \cup {<<"backfill", i>> : i \in DOMAIN backfill \cap {1}}
TaskOf(j) == IF j[1] = "queue" THEN queue[j[2]] ELSE backfill[1]

Becomes(j, task) ==
    IF j[1] = "queue" THEN queue' = [queue EXCEPT ![j[2]] = task] /\ UNCHANGED backfill
                      ELSE backfill' = [backfill EXCEPT ![1] = task] /\ UNCHANGED queue

Ends(j) ==
    IF j[1] = "queue" THEN queue' = RemoveAt(queue, j[2]) /\ UNCHANGED backfill
                      ELSE backfill' = Tail(backfill) /\ UNCHANGED queue

Mention(j) == Head(TaskOf(j).todo)
NextMention(task) == [task EXCEPT !.todo = Tail(@), !.pc = "next", !.entity = 0]

Finish(j) ==
    /\ TaskOf(j).todo = <<>>
    /\ Ends(j)
    /\ UNCHANGED <<memories, update, entities, links, lost, killed, clean, count>>

(* The close rows with fewer than TopK before them, an equal name first.   *)
(* The approximate index is taken as exact: overlooking a row, it offers   *)
(* another close one or none, as the verdicts may.                         *)
Search(name) ==
    LET close == {i \in DOMAIN entities : Similar(name, entities[i].canonical)}
        same(i) == entities[i].canonical = name
        before(i, j) == (same(i) /\ ~same(j)) \/ (same(i) = same(j) /\ i < j)
    IN {i \in close : Cardinality({j \in close : before(j, i)}) < TopK}

(* The rows found are judged one by one, by their names alone, which never *)
(* change: the verdicts belong to the search.                              *)
Look(j) ==
    /\ TaskOf(j).todo # <<>> /\ TaskOf(j).pc = "next" /\ Mention(j).name \notin NotText
    /\ \/ \E id \in Search(Mention(j).name) : Becomes(j, [TaskOf(j) EXCEPT !.pc = "link", !.entity = id])
       \/ Becomes(j, [TaskOf(j) EXCEPT !.pc = "insert"])
    /\ UNCHANGED <<memories, update, entities, links, lost, killed, clean, count>>

(* INSERT .. ON CONFLICT (canonical_name, type) DO UPDATE .. RETURNING id  *)
SameKey(x) == {i \in DOMAIN entities : entities[i].canonical = x.name /\ entities[i].type = x.type}
Rows(x) ==
    IF SameKey(x) = {} THEN Append(entities, [canonical |-> x.name, name |-> x.name, type |-> x.type])
    ELSE [i \in DOMAIN entities |-> IF i \in SameKey(x) THEN [entities[i] EXCEPT !.name = x.name] ELSE entities[i]]

InsertEntity(j) ==
    /\ TaskOf(j).pc = "insert"
    /\ entities' = Rows(Mention(j))
    /\ Becomes(j, [TaskOf(j) EXCEPT !.pc = "link",
            !.entity = IF SameKey(Mention(j)) = {} THEN Len(entities) + 1 ELSE CHOOSE i \in SameKey(Mention(j)) : TRUE])
    /\ UNCHANGED <<memories, update, links, lost, killed, clean, count>>

Link(j) ==
    /\ TaskOf(j).pc = "link"
    /\ links' = links \cup {<<TaskOf(j).memory, TaskOf(j).entity>>}
    /\ lost' = lost \ {<<TaskOf(j).memory, Mention(j)>>}
    /\ killed' = killed \ {<<TaskOf(j).memory, Mention(j)>>}
    /\ Becomes(j, NextMention(TaskOf(j)))
    /\ UNCHANGED <<memories, update, entities, clean, count>>

(* Embedding, search, verdict, insert or link failed: the mention is       *)
(* skipped.                                                                *)
FailMention(j) == Becomes(j, NextMention(TaskOf(j)))

Fail(j) ==
    /\ TaskOf(j).todo # <<>> /\ Mention(j).name \notin NotText
    /\ count.failures < MaxFailures
    /\ count' = [count EXCEPT !.failures = @ + 1]
    /\ lost' = lost \cup {<<TaskOf(j).memory, Mention(j)>>}
    /\ clean' = FALSE
    /\ FailMention(j)
    /\ UNCHANGED <<memories, update, entities, links, killed>>

Owed(tasks) == UNION {{<<tasks[i].memory, x>> : x \in ToSet(tasks[i].todo)} : i \in DOMAIN tasks}

(* A name that is not a string raises outside the try: it takes the rest   *)
(* of its task with it, in the backfill the rest of the backfill.          *)
Raise(j) ==
    /\ TaskOf(j).todo # <<>> /\ TaskOf(j).pc = "next" /\ Mention(j).name \in NotText
    /\ IF j[1] = "queue"
       THEN Ends(j) /\ lost' = lost \cup Owed(<<TaskOf(j)>>)
       ELSE backfill' = <<>> /\ lost' = lost \cup Owed(backfill) /\ UNCHANGED queue
    /\ clean' = FALSE
    /\ UNCHANGED <<memories, update, entities, links, killed, count>>

-----------------------------------------------------------------------------
(* What scripts/check_normalization_gaps.py reports.                       *)
Linked(m) == \E id \in DOMAIN entities : <<m, id>> \in links
Gaps == {m \in Memories : Live(m) /\ memories[m].entities # <<>> /\ ~Linked(m)}

ToBackfill_Gaps == Gaps
ToBackfill == {m \in Memories : Live(m) /\ memories[m].entities # <<>>}

Backfill ==
    /\ backfill = <<>> /\ count.backfills < MaxBackfills
    /\ count' = [count EXCEPT !.backfills = @ + 1]
    /\ backfill' \in SetToSeqs({Task(m, memories[m].entities) : m \in ToBackfill})
    /\ clean' = TRUE
    /\ UNCHANGED <<memories, update, entities, links, queue, lost, killed>>

(* The process ends: tasks are cancelled or gone, and nothing logs that.   *)
Crash ==
    /\ count.failures < MaxFailures
    /\ count' = [count EXCEPT !.failures = @ + 1]
    /\ killed' = killed \cup Owed(queue) \cup Owed(backfill)
    /\ queue' = <<>> /\ backfill' = <<>> /\ update' = NoUpdate /\ clean' = FALSE
    /\ UNCHANGED <<memories, entities, links, lost>>

Init ==
    /\ memories = [m \in Memories |-> NoMemory]
    /\ update = NoUpdate
    /\ entities = <<>> /\ links = {} /\ queue = <<>> /\ backfill = <<>>
    /\ lost = {} /\ killed = {} /\ clean = FALSE
    /\ count = [writes |-> 0, failures |-> 0, backfills |-> 0]

Normalise == \E j \in Jobs :
    \/ Finish(j) \/ Look(j) \/ InsertEntity(j) \/ Link(j) \/ Raise(j)

Next ==
    \/ \E m \in Memories, found \in Findings, claims \in Claims, channel, relChannel \in Channels :
        \/ Insert(m, found, claims, channel, relChannel)
        \/ Overwrite(m, found, claims, channel, relChannel)
        \/ ReadForMerge(m, found, claims, channel, relChannel)
    \/ MergeMemory
    \/ \E m \in Memories : Delete(m)
    \/ \E m \in Memories, name \in SavedNames, id \in DOMAIN entities : LinkByName(m, name, id)
    \/ Normalise \/ (\E j \in Jobs : Fail(j))
    \/ Backfill \/ Crash

Spec == Init /\ [][Next]_vars

-----------------------------------------------------------------------------
Reaches(m, x) == \E id \in DOMAIN entities : <<m, id>> \in links /\ Similar(x.name, entities[id].canonical)

(* Every mention of a live memory is linked to an entity of a close name,  *)
(* waits for its normalisation, is one whose failure was logged, or its    *)
(* normalisation was cut short by the end of the process: merges, bursts   *)
(* over the semaphore and partial failures lose none without a trace       *)
(* (_schedule_normalization: "skipping it silently would leave entities    *)
(* unlinked"); a restart does, and only a backfill finds those.            *)
UnlinkedOnlyByFailureOrRestart ==
    \A m \in Memories : Live(m) => \A x \in ToSet(memories[m].entities) :
        Reaches(m, x) \/ <<m, x>> \in Owed(queue) \cup Owed(backfill) \cup lost \cup killed

(* A backfill during which nothing failed leaves no live memory with an    *)
(* unlinked mention that is not queued, whatever was lost before it        *)
(* (normalize_all_existing).                                               *)
BackfillRepairs ==
    [][backfill # <<>> /\ backfill' = <<>> /\ clean' =>
        (\A m \in Memories : Live(m) => \A x \in ToSet(memories[m].entities) :
            Reaches(m, x) \/ <<m, x>> \in Owed(queue))']_vars
=============================================================================
