----------------------------- MODULE Documents ------------------------------
(***************************************************************************)
(* The document side of the knowledge base: ingestion (chunking, then      *)
(* write_chunks) and the searches of service/retrieval: of chunks, which   *)
(* read the table that is being written, and of memories.                  *)
(*                                                                         *)
(* A content is a sequence (Chunking); its hash is the content itself.     *)
(* Embeddings are external: Similarity is their cosine in percent.         *)
(***************************************************************************)
EXTENDS Chunking, FiniteSets

CONSTANTS
    Docs,               \* document ids
    Sources,            \* what a document may hold
    Writers, Queries,   \* ingestions, search texts
    Similarity(_, _),   \* external: cosine of a query and a content
    ChunkSize, Overlap, MaxLines,   \* the chunkers' defaults
    RecallFloor, RerankFloor,       \* _RECALL_THRESHOLD, _RERANK_FLOOR
    MinRecall,          \* least number of candidates recalled (20)
    Starts,             \* what the documents may hold at the start
    TopKs,              \* bound: numbers of results asked for
    Summaries,          \* what the memories say, in the order of their ids
    MemoryFloor,        \* threshold of query_memories
    ZoneSize,           \* _MEMORY_BOUNDED_RERANK_N
    MaxMissed,                  \* bound: near rows an index scan overlooks
    MaxEdits, MaxSearches       \* bounds

(* A document is prose, or lines; those of Python have the ranges of its   *)
(* statements with them.                                                   *)
IsSource(src) ==
    /\ src.kind \in {"text", "python", "unparsed"} /\ src.body \in Seq(ToSet(src.body))
    /\ src.kind = "python" => src.nodes \in Seq((0..Len(src.body)) \X (0..Len(src.body)))

ASSUME DocumentsAssumption ==
    /\ {ChunkSize, MaxLines} \subseteq Nat \ {0} /\ Overlap \in 0..(ChunkSize - 1)
    /\ {MaxMissed, MaxEdits, MaxSearches, MinRecall, ZoneSize} \subseteq Nat /\ TopKs \subseteq Nat \ {0}
    /\ {RecallFloor, RerankFloor, MemoryFloor} \subseteq Int
    /\ Starts \subseteq [Docs -> Sources] /\ \A src \in Sources : IsSource(src)
    /\ Summaries \in Seq(ToSet(Summaries)) /\ \A q \in Queries : IsList(q)

VARIABLES
    source,     \* what each document holds now
    rows,       \* the chunks table
    ingest,     \* the ingestions
    memory_rows,    \* the rows of memories: whether they live, how often they were recalled
    search,     \* the current search
    edits, searches     \* counters of the bounds

documents_vars == <<source, rows, ingest, memory_rows, search, edits, searches>>

(* Bound: memories and documents share no table, so that a behaviour uses  *)
(* one or the other.                                                       *)
NewMemories == [i \in DOMAIN Summaries |-> [live |-> TRUE, recalls |-> 0]]
DocumentsOnly == search.mode # "memory" /\ memory_rows = NewMemories
MemoriesOnly == rows = <<>> /\ edits = 0 /\ \A w \in Writers : ingest[w].pc = "idle"

Larger(a, b) == IF a > b THEN a ELSE b
FirstN(s, n) == SubSeq(s, 1, IF n < Len(s) THEN n ELSE Len(s))

-----------------------------------------------------------------------------
(* Ingestion. *)

Chunks(src) ==
    CASE src.kind = "text" -> ChunkText(src.body, ChunkSize, Overlap)
      [] src.kind = "python" -> ChunkCode(src.body, src.nodes, MaxLines)
      [] src.kind = "unparsed" -> ChunkByLines(src.body, MaxLines)

Contents == (UNION {ToSet(Chunks(src)) : src \in Sources}) \cup ToSet(Summaries)
ASSUME SimilarityAssumption == \A q \in Queries : \A c \in Contents : IsList(c) /\ Similarity(q, c) \in Int

Row(d, content, index) == [doc |-> d, content |-> content, index |-> index]
Held(rs, d) == {rs[i].content : i \in {j \in DOMAIN rs : rs[j].doc = d}}

(* Chunks the document does not hold yet, duplicates in the text included. *)
NewChunks(d, chunks) ==
    LET all == [i \in DOMAIN chunks |-> Row(d, chunks[i], i - 1)]
    IN Chosen(all, {i \in DOMAIN all : all[i].content \notin Held(rows, d)})

(* INSERT .. ON CONFLICT (document_id, content_hash) DO NOTHING. *)
InsertedUnless_Any(new) ==
    IF \E i \in DOMAIN new : new[i].content \in Held(rows, new[i].doc) THEN rows ELSE rows \o new
InsertedUnless(new) ==
    rows \o Chosen(new, {i \in DOMAIN new :
                            /\ new[i].content \notin Held(rows, new[i].doc)
                            /\ \A j \in 1..(i - 1) : <<new[j].doc, new[j].content>> # <<new[i].doc, new[i].content>>})

NoSource == [kind |-> "none", body |-> <<>>]
NoIngest == [pc |-> "idle", doc |-> "-", src |-> NoSource, new |-> <<>>, count |-> 0]

(* chunk_text or chunk_code, and the pre-check of write_chunks. *)
Ingest(w, d) ==
    /\ ingest[w].pc = "idle" /\ DocumentsOnly
    /\ LET new == NewChunks(d, Chunks(source[d]))
       IN ingest' = [ingest EXCEPT ![w] =
            [pc |-> IF new = <<>> THEN "done" ELSE "embed", doc |-> d, src |-> source[d], new |-> new, count |-> 0]]
    /\ UNCHANGED <<source, rows, memory_rows, search, edits, searches>>

(* Embedding or the insert failed: the route answers 500. *)
IngestFails(w) ==
    /\ ingest[w].pc = "embed"
    /\ ingest' = [ingest EXCEPT ![w].pc = "failed"]
    /\ UNCHANGED <<source, rows, memory_rows, search, edits, searches>>

InsertChunks(w) ==
    /\ ingest[w].pc = "embed"
    /\ rows' = InsertedUnless(ingest[w].new)
    /\ ingest' = [ingest EXCEPT ![w].pc = "done", ![w].count = Len(ingest[w].new)]
    /\ UNCHANGED <<source, memory_rows, search, edits, searches>>

Edit(d) ==
    /\ edits < MaxEdits /\ DocumentsOnly
    /\ edits' = edits + 1
    /\ \E src \in Sources : source' = [source EXCEPT ![d] = src]
    /\ UNCHANGED <<rows, memory_rows, ingest, search, searches>>

-----------------------------------------------------------------------------
(* Search.  Candidates and results are row numbers. *)

(* A stable sort, best first. *)
ByScore(s, score) ==
    LET before(i, j) == score[s[i]] > score[s[j]] \/ (score[s[i]] = score[s[j]] /\ i < j)
    IN [n \in DOMAIN s |->
            s[CHOOSE i \in DOMAIN s : Cardinality({j \in DOMAIN s : before(j, i)}) = n - 1]]

Recalled(k) == Larger(4 * k, MinRecall)
RecalledPerQuery(k) == Larger(2 * k, MinRecall \div 2)

(* The HNSW index is approximate: a scan may overlook near rows, and never *)
(* returns one that is not near.                                           *)
Overlooked(near) == {missed \in SUBSET near : Cardinality(missed) <= MaxMissed}

Near(q) == {i \in DOMAIN rows : Similarity(q, rows[i].content) > RecallFloor}

VectorSearch(q, limit, missed) ==
    LET sim == [i \in DOMAIN rows |-> Similarity(q, rows[i].content)]
    IN FirstN(ByScore(Places(rows, Near(q) \ missed), sim), limit)

(* Words are single letters here; Jaccard over 60, exact for few tokens.   *)
(* The window is bounded in order of the random ids; the instances stay    *)
(* below the bound.                                                        *)
Tokens(content) == {content[i] : i \in DOMAIN content} \ {"n", " ", ".", "!", ";"}
Jaccard(a, b) == (60 * Cardinality(a \cap b)) \div Cardinality(a \cup b)

SparseSearch(q, limit) ==
    LET shared == {i \in DOMAIN rows : Tokens(q) \cap Tokens(rows[i].content) # {}}
        window == FirstN(Places(rows, shared), Larger(4 * limit, MinRecall))
    IN FirstN(ByScore(window, [i \in shared |-> Jaccard(Tokens(q), Tokens(rows[i].content))]), limit)

(* 1 / (_RRF_K + rank) in integers, exact for ranks up to 4. *)
RrfK == 60
Scale == RrfK * (RrfK + 1) * (RrfK + 2) * (RrfK + 3) * (RrfK + 4)
Share_Found(list, c) ==
    LET at == {i \in DOMAIN list : list[i] = c} IN Scale \div (RrfK + (IF at = {} THEN 0 ELSE CHOOSE i \in at : TRUE) - 1)
Share(list, c) ==
    IF c \in ToSet(list) THEN Scale \div (RrfK + (CHOOSE i \in DOMAIN list : list[i] = c) - 1) ELSE 0

Union(a, b) == a \o Chosen(b, {i \in DOMAIN b : b[i] \notin ToSet(a)})

Fused(dense, sparse) ==
    ByScore(Union(dense, sparse), [c \in ToSet(Union(dense, sparse)) |-> Share(dense, c) + Share(sparse, c)])

(* A score of the reranker, or none where its call failed. *)
Scores == {RerankFloor - 1, RerankFloor + 1}
NoScore == -1

(* rerank_llm leaves out the failed candidates; nothing at all means that  *)
(* every call failed.                                                      *)
RerankLLM(cands, score) == ByScore(Chosen(cands, {i \in DOMAIN cands : score[cands[i]] # NoScore}), score)
Floored(cands, score) == Chosen(cands, {i \in DOMAIN cands : score[cands[i]] >= RerankFloor})

RerankedBy_Floor(cands, score, k, sim) == Floored(FirstN(RerankLLM(cands, score), k), score)
RerankedBy(cands, score, k, sim) ==
    IF RerankLLM(cands, score) = <<>>
    THEN FirstN(ByScore(cands, sim), k)
    ELSE Floored(FirstN(RerankLLM(cands, score), k), score)

NoSearch == [pc |-> "idle", query |-> "-", mode |-> "-", k |-> 0, queries |-> <<>>, start |-> 0,
             dense |-> <<>>, sparse |-> <<>>, sim |-> <<>>, missed |-> {}, fused |-> FALSE, kept |-> FALSE,
             results |-> <<>>]

(* retrieve_hybrid and retrieve: fused by rank, or dense and reranked.     *)
SearchChunks(q, mode, k) ==
    /\ search.pc = "idle" /\ searches < MaxSearches
    /\ searches' = searches + 1
    /\ search' = [NoSearch EXCEPT !.pc = "dense", !.query = q, !.mode = mode, !.k = k,
                                  !.queries = <<q>>, !.start = Len(rows)]
    /\ UNCHANGED <<source, rows, memory_rows, ingest, edits>>

(* retrieve_multi_query: a failed rewrite leaves the query itself.         *)
Rewritten_Only(q, variations) == IF variations = <<>> THEN <<q>> ELSE variations
Rewritten(q, variations) == <<q>> \o variations

SearchMulti(q, variations, k) ==
    /\ search.pc = "idle" /\ searches < MaxSearches
    /\ searches' = searches + 1
    /\ search' = [NoSearch EXCEPT !.pc = "multi", !.query = q, !.mode = "multi", !.k = k,
                                  !.queries = Rewritten(q, variations), !.start = Len(rows)]
    /\ UNCHANGED <<source, rows, memory_rows, ingest, edits>>

(* The dense list, with the similarity each row was found with.            *)
ReadDense(missed) ==
    /\ search.pc = "dense"
    /\ LET dense == VectorSearch(search.query, Recalled(search.k), missed)
       IN search' = [search EXCEPT !.pc = IF search.mode = "hybrid" THEN "sparse" ELSE "rank",
                !.dense = dense, !.missed = missed,
                !.sim = [i \in ToSet(dense) |-> Similarity(search.query, rows[i].content)]]
    /\ UNCHANGED <<source, rows, memory_rows, ingest, edits, searches>>

ReadSparse ==
    /\ search.pc = "sparse"
    /\ search' = [search EXCEPT !.pc = "rank", !.sparse = SparseSearch(search.query, Recalled(search.k))]
    /\ UNCHANGED <<source, rows, memory_rows, ingest, edits, searches>>

(* One variation after the other; the first to find a row keeps it.        *)
ReadVariation(missed) ==
    /\ search.pc = "multi"
    /\ LET hits == VectorSearch(Head(search.queries), RecalledPerQuery(search.k), missed)
           seen == Union(search.dense, hits)
           sim == [i \in ToSet(seen) |-> IF i \in ToSet(search.dense) THEN search.sim[i]
                                         ELSE Similarity(Head(search.queries), rows[i].content)]
       IN search' = [search EXCEPT
                !.pc = IF Len(search.queries) = 1 THEN "rank" ELSE "multi",
                !.queries = Tail(@),
                !.dense = IF Len(search.queries) = 1 THEN FirstN(seen, Recalled(search.k)) ELSE seen,
                !.sim = sim, !.missed = @ \cup missed]
    /\ UNCHANGED <<source, rows, memory_rows, ingest, edits, searches>>

Candidates == Union(search.dense, search.sparse)

RankFused ==
    /\ search.pc = "rank" /\ search.mode = "hybrid"
    /\ search' = [search EXCEPT !.pc = "done", !.fused = TRUE,
            !.results = FirstN(Fused(search.dense, search.sparse), search.k)]
    /\ UNCHANGED <<source, rows, memory_rows, ingest, edits, searches>>

RankSimilar ==
    /\ search.pc = "rank" /\ search.mode \in {"dense", "multi"}
    /\ search' = [search EXCEPT !.pc = "done",
            !.results = FirstN(ByScore(search.dense, search.sim), search.k)]
    /\ UNCHANGED <<source, rows, memory_rows, ingest, edits, searches>>

(* A row of the sparse list alone has no similarity. *)
SimilarityOf == [c \in ToSet(Candidates) |-> IF c \in ToSet(search.dense) THEN search.sim[c] ELSE 0]

(* A reranker, an explicit choice of the caller; the cross-encoder is the  *)
(* one no call of which fails.                                             *)
RankLLM(score) ==
    /\ search.pc = "rank"
    /\ search' = [search EXCEPT !.pc = "done", !.kept = \A c \in ToSet(Candidates) : score[c] = NoScore,
            !.results = RerankedBy(Candidates, score, search.k, SimilarityOf)]
    /\ UNCHANGED <<source, rows, memory_rows, ingest, edits, searches>>

(* query_memories: similar, optionally reranked, and counted.              *)
SearchMemories(q, k) ==
    /\ search.pc = "idle" /\ searches < MaxSearches /\ MemoriesOnly
    /\ searches' = searches + 1
    /\ search' = [NoSearch EXCEPT !.pc = "memories", !.query = q, !.mode = "memory", !.k = k]
    /\ UNCHANGED <<source, rows, memory_rows, ingest, edits>>

NearMemories(q) == {i \in DOMAIN Summaries : memory_rows[i].live /\ Similarity(q, Summaries[i]) > MemoryFloor}

ReadMemories(missed) ==
    /\ search.pc = "memories"
    /\ LET sim == [i \in DOMAIN Summaries |-> Similarity(search.query, Summaries[i])]
           near == Places(Summaries, NearMemories(search.query) \ missed)
           found == FirstN(ByScore(near, sim), Recalled(search.k))
       IN search' = [search EXCEPT !.pc = IF found = <<>> THEN "done" ELSE "rank_memories", !.dense = found]
    /\ UNCHANGED <<source, rows, memory_rows, ingest, edits, searches>>

(* The LLM reorders and filters everything; the cross-encoder reorders the *)
(* first few and leaves the others behind them. With both flags the LLM    *)
(* scores those few.                                                       *)
Zone(cross) == IF cross THEN FirstN(search.dense, ZoneSize) ELSE search.dense
RankedZone(llm, cross, score) ==
    IF llm THEN RerankLLM(Zone(cross), score) ELSE ByScore(Zone(cross), score)
Surviving(llm, cross, score) ==
    LET ranked == RankedZone(llm, cross, score)
    IN CASE ranked = <<>> \/ ~(llm \/ cross) -> FirstN(search.dense, search.k)
         [] cross /\ ranked # <<>> ->
                FirstN(ranked \o SubSeq(search.dense, ZoneSize + 1, Len(search.dense)), search.k)
         [] OTHER -> Floored(FirstN(ranked, search.k), score)

RankMemories(llm, cross, score) ==
    /\ search.pc = "rank_memories"
    /\ ~llm => \A c \in ToSet(search.dense) : score[c] # NoScore
    /\ search' = [search EXCEPT !.pc = "record",
            !.kept = ~llm \/ RankedZone(llm, cross, score) = <<>>,
            !.results = Surviving(llm, cross, score)]
    /\ UNCHANGED <<source, rows, memory_rows, ingest, edits, searches>>

(* record_recalls, whose failure is only logged. *)
RecordRecalls ==
    /\ search.pc = "record"
    /\ \/ memory_rows' = [i \in DOMAIN memory_rows |->
                IF i \in ToSet(search.results) THEN [memory_rows[i] EXCEPT !.recalls = @ + 1] ELSE memory_rows[i]]
       \/ UNCHANGED memory_rows
    /\ search' = [search EXCEPT !.pc = "done"]
    /\ UNCHANGED <<source, rows, ingest, edits, searches>>

Forget(i) ==
    /\ MemoriesOnly /\ memory_rows[i].live
    /\ memory_rows' = [memory_rows EXCEPT ![i].live = FALSE]
    /\ UNCHANGED <<source, rows, ingest, search, edits, searches>>

(* The provider fails an embedding or the database a query: the search     *)
(* raises.                                                                 *)
SearchFails ==
    /\ search.pc \notin {"idle", "record", "done"}
    /\ search' = NoSearch
    /\ UNCHANGED <<source, rows, memory_rows, ingest, edits, searches>>

Answered ==
    /\ search.pc = "done"
    /\ search' = NoSearch
    /\ UNCHANGED <<source, rows, memory_rows, ingest, edits, searches>>

DocumentsInit ==
    /\ source \in Starts
    /\ rows = <<>>
    /\ ingest = [w \in Writers |-> NoIngest]
    /\ memory_rows = NewMemories
    /\ search = NoSearch
    /\ edits = 0 /\ searches = 0

DocumentsNext ==
    \/ \E w \in Writers : (\E d \in Docs : Ingest(w, d)) \/ InsertChunks(w) \/ IngestFails(w)
    \/ \E d \in Docs : Edit(d)
    \/ \E q \in Queries, k \in TopKs :
        \/ \E mode \in {"hybrid", "dense"} : SearchChunks(q, mode, k)
        \/ SearchMemories(q, k)
        \/ \E variations \in {<<>>} \cup {<<v>> : v \in Queries \ {q}} : SearchMulti(q, variations, k)
    \/ search.pc = "dense" /\ \E missed \in Overlooked(Near(search.query)) : ReadDense(missed)
    \/ search.pc = "multi" /\ \E missed \in Overlooked(Near(Head(search.queries))) : ReadVariation(missed)
    \/ search.pc = "memories" /\ \E missed \in Overlooked(NearMemories(search.query)) : ReadMemories(missed)
    \/ ReadSparse \/ RankFused \/ RankSimilar
    \/ \E score \in [ToSet(Candidates) -> Scores \cup {NoScore}] : RankLLM(score)
    \/ RecordRecalls \/ (\E i \in DOMAIN memory_rows : Forget(i))
    \/ \E llm, cross \in BOOLEAN, score \in [ToSet(search.dense) -> Scores \cup {NoScore}] :
        RankMemories(llm, cross, score)
    \/ SearchFails \/ Answered

DocumentsSpec == DocumentsInit /\ [][DocumentsNext]_documents_vars

-----------------------------------------------------------------------------
(* Every short text, every source: no chunk of a text is too long, and the *)
(* text, or each line of the code, can be read off the chunks.             *)
ShortTexts == UNION {[1..n -> {"n", " ", ".", ";", "a"}] : n \in 1..5}
ChunksOf(s) == ChunkText(s, ChunkSize, Overlap)
TextsKept == \A s \in ShortTexts : /\ Fits(ChunksOf(s), ChunkSize)
                                   /\ Reassembles(ChunksOf(s), s) \/ ChunksOf(s) = <<>>
LinesKept == \A src \in {x \in Sources : x.kind # "text"} :
                ToSet(src.body) = UNION {ToSet(c) : c \in ToSet(Chunks(src))}
ChunksFaithful == TextsKept /\ LinesKept

StoredOnce(w) ==
    \A c \in ToSet(Chunks(ingest[w].src)) :
        Cardinality({i \in DOMAIN rows : rows[i].doc = ingest[w].doc /\ rows[i].content = c}) = 1

(* An ingestion that reported success left every chunk of its text in the  *)
(* table exactly once, whatever other ingestions of the document, retries  *)
(* or failures it overlapped with, and its text can be read off them       *)
(* (write_chunks over chunk_text and chunk_code).                          *)
DocumentCovered == \A w \in Writers : ingest[w].pc = "done" => StoredOnce(w) /\ ChunksFaithful

Ahead(list, a, b) == a \in ToSet(list) /\ (b \in ToSet(list) =>
    \E i, j \in DOMAIN list : i < j /\ list[i] = a /\ list[j] = b)

(* The hybrid search never ranks a chunk behind one that both channels     *)
(* place behind it, nor behind one that only one of them found later       *)
(* (retrieve_hybrid).                                                      *)
FusionDominance ==
    search.pc = "done" /\ search.fused =>
        \A a, b \in ToSet(Candidates) :
            Ahead(search.dense, a, b) /\ Ahead(search.sparse, a, b) /\ b \in ToSet(search.results)
                => Ahead(search.results, a, b)

(* A search loses what it recalled only if the LLM really judged it: when  *)
(* none of its calls succeeded, and when the cross-encoder or nothing      *)
(* reranked the memories, as many come back as were recalled and asked for *)
(* (_rerank_and_filter, rerank_llm, query_memories: the cross-encoder      *)
(* "re-ranks the zone, it does not filter it").                            *)
OutageKeepsRecall ==
    search.pc = "done" /\ search.kept =>
        Len(search.results) = Len(FirstN(Candidates, search.k))

(* How many rows the search recalls for its query, and the other rows that *)
(* are at least as similar to a query as row i.                            *)
Limit == IF search.mode = "multi" THEN RecalledPerQuery(search.k) ELSE Recalled(search.k)
AsNear(q, i) ==
    {j \in DOMAIN rows \ {i} : Similarity(q, rows[j].content) >= Similarity(q, rows[i].content)}

(* A chunk stored before the search began, and close to its query, is      *)
(* among the candidates unless as many others as a query recalls are at    *)
(* least as close, or the approximate index overlooked it: whatever the    *)
(* size of the table, concurrent ingestion, the union with what rewrites   *)
(* of the query find and the fusion with the words never lose it.          *)
NothingMissed ==
    search.pc = "rank" =>
        \A i \in (1..search.start) \cap Near(search.query) :
            \/ i \in ToSet(Candidates)
            \/ i \in search.missed
            \/ Cardinality(AsNear(search.query, i)) >= Limit
=============================================================================
