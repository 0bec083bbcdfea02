---------------------------- MODULE EntityPages ----------------------------
(***************************************************************************)
(* What is told of the entities: the pages and the search of               *)
(* api/routes/entity_routes.py, the tool query_entity of the agent, the    *)
(* entities beside each memory the agent finds, and the dashboard's        *)
(* statistics (api/routes/memory_routes.py).  Entities says how the tables *)
(* come about; the answers are functions of them.                          *)
(*                                                                         *)
(* An answer is taken from one state, though its statements are sent one   *)
(* by one.  Where the order of rows leaves several answers, an operator is *)
(* the set of all of them.                                                 *)
(***************************************************************************)
EXTENDS Entities

CONSTANTS
    SourceType(_),      \* source_type of a memory
    Matches(_, _),      \* external: <<query, name>>, name ILIKE '%query%'
    PageSize, RecentSize,   \* LIMITs of the pages and the search (20, 5)
    ToolSize, TopSize       \* LIMITs of the tool and the dashboard (10, 10)

(* What is LIKE p is LIKE %p%.                                             *)
ASSUME PagesAssumption ==
    /\ {PageSize, RecentSize, ToolSize, TopSize} \subseteq Nat \ {0}
    /\ \A x, y \in Mentions : Like(x.name, y.name) => Matches(x.name, y.name)

AnyType == "any"

(* ORDER BY score DESC LIMIT n: rows of equal score are cut anywhere.      *)
Lists(S, score, n) ==
    {T \in SUBSET S : /\ Cardinality(T) <= n /\ (T = S \/ Cardinality(T) = n)
                      /\ \A a \in T, b \in S \ T : score[b] <= score[a]}

Counted(id) == {m \in Memories : <<m, id>> \in links}
Recent(id) == {m \in Counted(id) : Live(m)}
Memberships == [id \in DOMAIN entities |-> Cardinality(Counted(id))]

(* The newest first; when each was created is not kept here. *)
Undated == [m \in Memories |-> 0]
RecentMemories_All(id) == Lists(Counted(id), Undated, RecentSize)
RecentMemories(id) == Lists(Recent(id), Undated, RecentSize)

BySource(ms) == [s \in {SourceType(m) : m \in ms} |-> Cardinality({m \in ms : SourceType(m) = s})]
SourceBreakdown(id) == BySource(Recent(id))

EntityProfile(id) ==
    [entity |-> entities[id], memory_count |-> Memberships[id], source_breakdown |-> SourceBreakdown(id)]

SearchEntities(q, type) ==
    Lists({id \in DOMAIN entities : /\ Matches(q, entities[id].canonical) \/ Matches(q, entities[id].name)
                                    /\ type \in {AnyType, entities[id].type}},
          Memberships, PageSize)

(* One of the rows the name matches with the most memories. *)
EntitiesByName(name) ==
    LET named == {id \in DOMAIN entities : Like(name, entities[id].canonical) \/ Like(name, entities[id].name)}
    IN UNION Lists(named, Memberships, 1)

-----------------------------------------------------------------------------
(* Entities are related by the memories they share, deleted ones included; *)
(* the relation named is the most specific of all relations those claim,   *)
(* of whichever of their entities.  The tool channel may report a relation *)
(* of no known type: where there is no other, whichever comes first.       *)
Priority == <<"causes", "contradicts", "supersedes", "depends_on", "part_of", "relates_to">>
Rank(type) ==
    IF type \in ToSet(Priority) THEN CHOOSE i \in DOMAIN Priority : Priority[i] = type ELSE Len(Priority) + 1

DominantRelationTypes(types) ==
    IF types = {} THEN {"relates_to"} ELSE {t \in types : \A u \in types : Rank(t) <= Rank(u)}

Shared(a, b) == Counted(a) \cap Counted(b)
SharedWith(id) == [other \in DOMAIN entities |-> Cardinality(Shared(id, other))]
RelationTypes(a, b) == UNION {{r[3] : r \in memories[m].relations} : m \in Shared(a, b)}
Related(id) == {other \in DOMAIN entities \ {id} : Shared(id, other) # {}}

RelatedForTool(id) ==
    {{[id |-> other, memory_count |-> SharedWith(id)[other]] : other \in T} :
        T \in Lists(Related(id), SharedWith(id), ToolSize)}

(* One row for each relation the page may name. *)
RelatedRows(id, others) ==
    UNION {{[id |-> other, memory_count |-> SharedWith(id)[other], relation_type |-> t] :
                t \in DominantRelationTypes(RelationTypes(id, other))} : other \in others}
RelatedEntities(id) == {RelatedRows(id, T) : T \in Lists(Related(id), SharedWith(id), PageSize)}

EntityRelations(id) ==
    {[entity |-> EntityProfile(id), related_entities |-> rows, recent_memories |-> recent] :
        rows \in RelatedEntities(id), recent \in RecentMemories(id)}

QueryEntity(name) ==
    UNION {{[found |-> TRUE, id |-> id, memory_count |-> Memberships[id],
             related_entities |-> rows, recent_memories |-> recent] :
                rows \in RelatedForTool(id), recent \in RecentMemories(id)} : id \in EntitiesByName(name)}

(* The entities named beside each memory the agent's search found. *)
MemoryEntities(ms) == [m \in ms |-> {id \in DOMAIN entities : <<m, id>> \in links}]

-----------------------------------------------------------------------------
(* The dashboard.  Averages and ratios are pairs <<numerator, denominator>>.*)
LiveMemories == {m \in Memories : Live(m)}
Averaged(size) == <<Total(size, LiveMemories), Cardinality(LiveMemories)>>

LiveMemberships == [id \in DOMAIN entities |-> Cardinality(Recent(id))]
TopEntities ==
    {{[id |-> id, count |-> LiveMemberships[id]] : id \in T} :
        T \in Lists({i \in DOMAIN entities : Recent(i) # {}}, LiveMemberships, TopSize)}

EntityGraphStats ==
    [coverage |-> <<Cardinality({m \in LiveMemories : \E id \in DOMAIN entities : <<m, id>> \in links}),
                    Cardinality(LiveMemories)>>,
     density |-> <<Cardinality(links), Cardinality({link[1] : link \in links})>>,
     total |-> Len(entities)]

MemoryStats ==
    {[total |-> Cardinality(LiveMemories), by_source |-> BySource(LiveMemories),
      avg_entities |-> Averaged([m \in Memories |-> Len(memories[m].entities)]),
      avg_relations |-> Averaged([m \in Memories |-> Cardinality(memories[m].relations)]),
      top_entities |-> top, entity_graph |-> EntityGraphStats] : top \in TopEntities}

-----------------------------------------------------------------------------
Ids(rows) == {row.id : row \in rows}
Told(rows, b) == {<<r.memory_count, r.relation_type>> : r \in {x \in rows : x.id = b}}
Size(breakdown) == Total(breakdown, DOMAIN breakdown)
Fewer(m, n) == IF m < n THEN m ELSE n

(* The pages of two entities, where both are listed.                       *)
NeighboursAgree ==
    \A a, b \in DOMAIN entities : a < b =>
        \A rows \in RelatedEntities(a), back \in RelatedEntities(b) :
            b \in Ids(rows) /\ a \in Ids(back) =>
                /\ Told(rows, b) = Told(back, a)
                /\ \A x, y \in Told(rows, b) : x = y \/ {x[2], y[2]} \cap ToSet(Priority) = {}

(* The tool, asked for an entity by its name, and the entity's page.       *)
ToolAgrees(id, page) ==
    \A answer \in QueryEntity(entities[id].canonical) :
        /\ answer.id = id =>
            /\ \A row \in page.related_entities, told \in answer.related_entities :
                row.id = told.id => row.memory_count = told.memory_count
            /\ Size(page.entity.source_breakdown) <= RecentSize => answer.recent_memories = page.recent_memories
        /\ Like(entities[id].canonical, entities[id].canonical) => answer.memory_count >= page.entity.memory_count
        /\ \A found \in SearchEntities(entities[id].canonical, AnyType) :
            answer.id \in found \/ Cardinality(found) = PageSize

(* The dashboard and the page: a count is that of the memories listed.     *)
DashboardAgrees(id, page) ==
    LET live == Size(page.entity.source_breakdown)
    IN /\ Cardinality(page.recent_memories) = Fewer(live, RecentSize)
       /\ \A m \in page.recent_memories : Live(m) /\ id \in MemoryEntities({m})[m]
       /\ \A stats \in MemoryStats :
            IF id \in Ids(stats.top_entities) THEN [id |-> id, count |-> live] \in stats.top_entities
            ELSE live = 0 \/ /\ Cardinality(stats.top_entities) = TopSize
                             /\ \A top \in stats.top_entities : live <= top.count

CoverageAgrees ==
    LET noMention == {m \in LiveMemories : memories[m].entities = <<>> /\ ~Linked(m)}
    IN \A stats \in MemoryStats :
        stats.entity_graph.coverage[1] + Cardinality(Gaps \cup noMention) = stats.total

PagesAgree ==
    /\ NeighboursAgree /\ CoverageAgrees
    /\ \A id \in DOMAIN entities : \A page \in EntityRelations(id) : ToolAgrees(id, page) /\ DashboardAgrees(id, page)

RelationsTold ==
    \A m \in LiveMemories : \A r \in memories[m].relations :
        /\ {r[1], r[2]} \subseteq Names(memories[m].entities)
        /\ \A a, b \in {id \in DOMAIN entities : <<m, id>> \in links} :
            /\ a # b
            /\ Similar(r[1], entities[a].canonical)
            /\ Similar(r[2], entities[b].canonical)
            => \A rows \in RelatedEntities(a) :
                IF b \in Ids(rows) THEN \A told \in Told(rows, b) : Rank(told[2]) <= Rank(r[3])
                ELSE /\ Cardinality(Ids(rows)) = PageSize
                     /\ \A row \in rows : Cardinality(Shared(a, b)) <= row.memory_count

(* What is told of the entities fits together, as far as its limits let    *)
(* it.  Two entities that are on each other's page have one count and one  *)
(* relation there, if it is of a known type; the agent's tool counts as    *)
(* the page counts, and lists the same memories if they fit; the dashboard *)
(* counts the memories the page's breakdown counts, leaves out no entity   *)
(* with more of them than one it lists, and covers those the gaps script   *)
(* does not report (memory_stats: "how many live memories they link to").  *)
(* And a relation a live memory claims, whatever merges and normalisations *)
(* it went through, is told on the page of either end that is linked, with *)
(* a relation at least as specific, unless the page is full of entities    *)
(* with no fewer memories in common (get_entity_relations,                 *)
(* _filter_relations, _merge_relations).                                   *)
PagesTruthful == PagesAgree /\ RelationsTold
=============================================================================
