----------------------------- MODULE MemoryStore -----------------------------
(***************************************************************************)
(* The memories table and the write path of service/memory.py.             *)
(*                                                                         *)
(* write_memory is a coroutine: between its database sessions it awaits    *)
(* the LLM, the embedding provider and other coroutines.  Each session is  *)
(* one action here, so whatever the code read in an earlier session (the   *)
(* snapshot returned by _find_similar above all) may be stale when a later *)
(* session writes.                                                         *)
(*                                                                         *)
(* A piece of content is identified with its SHA-256 hash.  Summaries are  *)
(* abstracted to "holds", the set of contents whose text went into the     *)
(* summary, and similarity grading to a nondeterministic choice of the     *)
(* closest live row and its grade.                                         *)
(***************************************************************************)
EXTENDS Naturals, FiniteSets

CONSTANTS
    Ids,        \* primary keys of the memories table
    Hashes,     \* content hashes, one per distinct raw content
    Writers,    \* coroutines running write_memory
    Seeds,      \* rows inserted directly (evals/seed.py), with a NULL hash
    NoHash,     \* SQL NULL in the content_hash column
    NoId        \* a writer that holds no snapshot

ASSUME ConstantsAssumption ==
    /\ Seeds \subseteq Ids
    /\ NoHash \notin Hashes
    /\ NoId \notin Ids

VARIABLES
    mem,    \* the table: a row for every id, "free" until it is inserted
    wr      \* the local state of every writer

storeVars == <<mem, wr>>

(***************************************************************************)
(* A row.  prior is meta.prior_hashes; lost is a history field: contents   *)
(* the row recognises as ingested although their text is not in summary.   *)
(***************************************************************************)
Row == [st : {"free", "live", "deleted"}, hash : Hashes \cup {NoHash},
        prior : SUBSET Hashes, holds : SUBSET Hashes, lost : SUBSET Hashes]

NewRow(state, h, contents) ==
    [st |-> state, hash |-> h, prior |-> {}, holds |-> contents, lost |-> {}]

FreeRow == NewRow("free", NoHash, {})

Writer == [pc : {"idle", "extract", "merge", "detect", "insert", "race",
                 "conflict"},
           h : Hashes \cup {NoHash}, id : Ids \cup {NoId}, snap : Row]

IdleWriter == [pc |-> "idle", h |-> NoHash, id |-> NoId, snap |-> FreeRow]

Live(table) == {i \in Ids : table[i].st = "live"}

(* The hashes a row answers to: its column and meta.prior_hashes. *)
GatedBy(row) == row.prior \cup ({row.hash} \ {NoHash})

FindByContentHash(table, h) == {i \in Live(table) : h \in GatedBy(table[i])}

Gated(table) == UNION {GatedBy(table[i]) : i \in Live(table)}

(***************************************************************************)
(* The partial unique index on (content_hash) WHERE deleted_at IS NULL:    *)
(* may row i, if it is live afterwards, take hash h?                       *)
(***************************************************************************)
IndexAllows(table, i, h) ==
    h = NoHash \/ \A j \in Live(table) \ {i} : table[j].hash # h

RecordPriorHash_Dropped(prior, hash) == prior

RecordPriorHash(prior, hash) == prior \cup ({hash} \ {NoHash})

(***************************************************************************)
(* The row _merge_memory writes: everything comes from the snapshot, and   *)
(* when the LLM merge fails the summary (but nothing else) stays as it was.*)
(***************************************************************************)
MergedRow_PriorReadAfresh(snap, current, h, llmOk) ==
    [current EXCEPT !.hash = h,
                    !.prior = RecordPriorHash(current.prior, current.hash),
                    !.holds = IF llmOk THEN snap.holds \cup {h} ELSE snap.holds,
                    !.lost = IF llmOk THEN snap.lost \ {h} ELSE snap.lost \cup {h}]

MergedRow(snap, current, h, llmOk) ==
    [current EXCEPT !.hash = h,
                    !.prior = RecordPriorHash(snap.prior, snap.hash),
                    !.holds = IF llmOk THEN snap.holds \cup {h} ELSE snap.holds,
                    !.lost = IF llmOk \/ h \in snap.holds
                             THEN snap.lost \ {h} ELSE snap.lost \cup {h}]
-----------------------------------------------------------------------------
Init ==
    /\ mem = [i \in Ids |-> IF i \in Seeds THEN NewRow("live", NoHash, {})
                                           ELSE FreeRow]
    /\ wr = [w \in Writers |-> IdleWriter]

(* The writer returns to its caller or raises; nothing else happens. *)
Finish(w) == wr' = [wr EXCEPT ![w] = IdleWriter]

Goto(w, label) == wr' = [wr EXCEPT ![w].pc = label]

(* The caller is cancelled, or extraction or embedding raises. *)
Fail(w) ==
    /\ wr[w].pc \in {"extract", "merge", "detect", "insert"}
    /\ Finish(w)
    /\ UNCHANGED mem

(* write_memory's idempotency gate: a hit answers "duplicate" at once. *)
Gate(w, h) ==
    /\ wr[w].pc = "idle"
    /\ \/ FindByContentHash(mem, h) # {} /\ Finish(w)
       \/ /\ FindByContentHash(mem, h) = {}
          /\ wr' = [wr EXCEPT ![w].pc = "extract", ![w].h = h]
    /\ UNCHANGED mem

(* _find_similar: the closest live row, if any, with its grade. *)
FindSimilar(w) ==
    /\ wr[w].pc = "extract"
    /\ \/ Goto(w, "insert")
       \/ \E i \in Live(mem) :
             \/ wr' = [wr EXCEPT ![w].pc = "merge", ![w].id = i,
                                 ![w].snap = mem[i]]
             \/ wr' = [wr EXCEPT ![w].pc = "detect", ![w].id = i]
    /\ UNCHANGED mem

(* _detect_conflict: a failed or negative detection is a supplement. *)
DetectConflict(w) ==
    /\ wr[w].pc = "detect"
    /\ \/ wr' = [wr EXCEPT ![w].pc = "insert", ![w].id = NoId]
       \/ Goto(w, "conflict")
    /\ UNCHANGED mem

(* _merge_memory: UPDATE ... WHERE id = :id, whether or not the row lives. *)
MergeCommit(w) ==
    /\ wr[w].pc = "merge"
    /\ mem[wr[w].id].st = "live" => IndexAllows(mem, wr[w].id, wr[w].h)
    /\ \E llmOk \in BOOLEAN :
          mem' = [mem EXCEPT ![wr[w].id] =
                     MergedRow(wr[w].snap, mem[wr[w].id], wr[w].h, llmOk)]
    /\ Finish(w)

(* The same UPDATE, rejected by the unique index: IntegrityError. *)
MergeRejected(w) ==
    /\ wr[w].pc = "merge"
    /\ mem[wr[w].id].st = "live" /\ ~IndexAllows(mem, wr[w].id, wr[w].h)
    /\ wr' = [wr EXCEPT ![w].pc = "race", ![w].id = NoId,
                        ![w].snap = FreeRow]
    /\ UNCHANGED mem

InsertAllowed_NoIndex(h) == TRUE

(* ON CONFLICT (content_hash) WHERE deleted_at IS NULL DO NOTHING. *)
InsertAllowed(h) == IndexAllows(mem, NoId, h)

InsertCommit(w) ==
    /\ wr[w].pc = "insert"
    /\ InsertAllowed(wr[w].h)
    /\ \E i \in Ids :
          /\ mem[i].st = "free"
          /\ mem' = [mem EXCEPT ![i] = NewRow("live", wr[w].h, {wr[w].h})]
    /\ Finish(w)

InsertRejected(w) ==
    /\ wr[w].pc = "insert"
    /\ ~InsertAllowed(wr[w].h)
    /\ Goto(w, "race")
    /\ UNCHANGED mem

(* The loser looks the winner up in a session of its own: "duplicate" when *)
(* it is there, an exception when it is not.                               *)
RaceLookup(w) ==
    /\ wr[w].pc = "race"
    /\ Finish(w)
    /\ UNCHANGED mem

(* The caller takes the "conflict" result; _mark_conflict stored nothing. *)
HandOver(w) ==
    /\ wr[w].pc = "conflict"
    /\ Finish(w)
    /\ UNCHANGED mem

(* DELETE /memories/{id} *)
Delete(i) ==
    /\ mem[i].st = "live"
    /\ mem' = [mem EXCEPT ![i].st = "deleted"]
    /\ UNCHANGED wr

WriterStep(w) ==
    \/ \E h \in Hashes : Gate(w, h)
    \/ FindSimilar(w) \/ DetectConflict(w)
    \/ MergeCommit(w) \/ MergeRejected(w)
    \/ InsertCommit(w) \/ InsertRejected(w) \/ RaceLookup(w)
    \/ Fail(w)

Next ==
    \/ \E w \in Writers : WriterStep(w) \/ HandOver(w)
    \/ \E i \in Ids : Delete(i)

Spec == Init /\ [][Next]_storeVars
-----------------------------------------------------------------------------
(* Every variable keeps its type; in particular a writer about to merge    *)
(* (service/memory.py _merge_memory) holds the id of a row that exists.    *)
TypeOK ==
    /\ mem \in [Ids -> Row]
    /\ wr \in [Writers -> Writer]
    /\ \A w \in Writers : wr[w].pc \in {"merge", "detect", "conflict"}
                             => wr[w].id \in Ids
    /\ \A w \in Writers : wr[w].pc # "idle" => wr[w].h \in Hashes

(* No two live memories carry the same content hash, although gate, insert *)
(* and merge of concurrent writers interleave and a merge moves the hash   *)
(* of a row (service/memory.py, unique index uq_memories_content_hash_live)*)
LiveHashUnique ==
    \A i, j \in Live(mem) :
        mem[i].hash = mem[j].hash /\ mem[i].hash # NoHash => i = j

RowSound(row) == GatedBy(row) \subseteq row.holds \cup row.lost

(* A live memory that makes the gate answer "duplicate" for a content      *)
(* carries that content in its summary, unless an LLM merge of it failed:  *)
(* the hash bookkeeping of _merge_memory and its summary come from the     *)
(* same snapshot, even when the row has changed since.                     *)
GatedContentHeld == \A i \in Live(mem) : RowSound(mem[i])

StaleCommit(w) ==
    wr[w].pc = "merge" /\ mem[wr[w].id] # wr[w].snap /\ MergeCommit(w)

(* Once a content hash is recognised, only deleting a memory or committing *)
(* a merge from an outdated snapshot can make the gate forget it: merges   *)
(* keep superseded hashes in prior_hashes (_find_by_content_hash).         *)
GateForgetsOnlyByDeleteOrStaleMerge ==
    [][ \/ Gated(mem) \subseteq Gated(mem')
        \/ \E i \in Ids : mem[i].st = "live" /\ mem'[i].st = "deleted"
        \/ \E w \in Writers : StaleCommit(w) ]_storeVars
=============================================================================
