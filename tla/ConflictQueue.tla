---------------------------- MODULE ConflictQueue ----------------------------
(***************************************************************************)
(* The pending_conflicts queue (service/conflicts.py) and the resolution   *)
(* pipeline (service/memory.py resolve_conflict) over the memory table.    *)
(*                                                                         *)
(* A client is one HTTP request or agent turn: it queues a patrol pair,    *)
(* merges one at once, reopens, or resolves a conflict.  Each database     *)
(* session is one action; a crash (or an exception) between two sessions   *)
(* abandons the request and leaves what was committed.                     *)
(***************************************************************************)
EXTENDS MemoryStore

CONSTANTS
    Conflicts,      \* ids of pending_conflicts rows (bounds the queue)
    Clients,        \* concurrent requests and agent turns
    NoConflict      \* a resolution that has no queued row

ASSUME NoConflictAssumption == NoConflict \notin Conflicts

VARIABLES
    q,      \* the pending_conflicts table
    cl      \* the local state of every client

vars == <<mem, wr, q, cl>>

Resolutions == {"keep_existing", "overwrite", "merge", "keep_both"}

(* The part of a conflict resolve_conflict works on: the surviving row A,  *)
(* the losing row B of a patrol pair (NoId for an ingestion conflict), and *)
(* the deferred content with its hash.                                     *)
NoCase == [existing |-> NoId, peer |-> NoId,
           h |-> NoHash, contents |-> {}]

(* raced is a history field: the recorded resolution lost a hash race.     *)
FreeSlot == [st |-> "free", case |-> NoCase, res |-> "none", raced |-> FALSE]

(* pc: idle, check, enqueue, live, apply, write, race, duplicate or mark. *)
IdleClient == [pc |-> "idle", cid |-> NoConflict, case |-> NoCase,
               res |-> "none", snap |-> FreeRow]

Pending == {c \in Conflicts : q[c].st = "pending"}

Pair(case) == {case.existing, case.peer}

(***************************************************************************)
(* The two partial unique indexes on pending rows: one open conflict per   *)
(* (existing row, content), one per unordered patrol pair.                 *)
(***************************************************************************)
SameContent(x, y) == x.existing = y.existing /\ x.h = y.h /\ x.h # NoHash

SamePair(x, y) == x.peer # NoId /\ y.peer # NoId /\ Pair(x) = Pair(y)

QueueAllows_PairOrdered(case, c) ==
    \A d \in Pending \ {c} :
        /\ ~SameContent(q[d].case, case)
        /\ ~(SamePair(q[d].case, case) /\ q[d].case.existing = case.existing)

QueueAllows(case, c) ==
    \A d \in Pending \ {c} :
        ~SameContent(q[d].case, case) /\ ~SamePair(q[d].case, case)

(* INSERT ... ON CONFLICT DO NOTHING: a rejected row is answered with the  *)
(* one already queued, or an error if that one is gone or of another kind. *)
Enqueued(case) ==
    IF QueueAllows(case, NoConflict)
    THEN \E c \in Conflicts :
            /\ q[c].st = "free"
            /\ q' = [q EXCEPT ![c] = [FreeSlot EXCEPT !.st = "pending", !.case = case]]
    ELSE UNCHANGED q

(* The patrol case of two stored rows: B is the extracted new side. *)
PatrolCase(a, b) == [existing |-> a, peer |-> b,
                     h |-> mem[b].hash, contents |-> mem[b].holds]

(* The deferred payload write_memory hands over for an ingestion conflict. *)
IngestCase(w) == [existing |-> wr[w].id, peer |-> NoId,
                  h |-> wr[w].h, contents |-> {wr[w].h}]

Survivor(r) == cl[r].case.existing
Loser(r) == cl[r].case.peer
IsPatrol(r) == Loser(r) # NoId
-----------------------------------------------------------------------------
QInit ==
    /\ Init
    /\ q = [c \in Conflicts |-> FreeSlot]
    /\ cl = [r \in Clients |-> IdleClient]

Done(r) == cl' = [cl EXCEPT ![r] = IdleClient]

Move(r, label) == cl' = [cl EXCEPT ![r].pc = label]

(* persist_pending_conflict, for a webhook or connector writer. *)
PersistConflict(w) ==
    /\ wr[w].pc = "conflict"
    /\ Enqueued(IngestCase(w))
    /\ Finish(w)
    /\ UNCHANGED <<mem, cl>>

(* The agent's HITL path: resolve_conflict called without a queued row. *)
AgentResolve(r, w, res) ==
    /\ cl[r].pc = "idle" /\ wr[w].pc = "conflict"
    /\ cl' = [cl EXCEPT ![r] = [IdleClient EXCEPT
                 !.pc = "apply", !.case = IngestCase(w), !.res = res]]
    /\ Finish(w)
    /\ UNCHANGED <<mem, q>>

(* load_patrol_pair: both rows of a finding, or 409 when one is gone. *)
LoadPair(r, a, b, label, res) ==
    /\ cl[r].pc = "idle" /\ a # b /\ {a, b} \subseteq Live(mem)
    /\ cl' = [cl EXCEPT ![r] = [IdleClient EXCEPT
                 !.pc = label, !.case = PatrolCase(a, b), !.res = res]]
    /\ UNCHANGED <<mem, wr, q>>

(* A contradiction goes to the queue; a duplicate is merged at once, into  *)
(* the memory that was there before.                                       *)
QueueFinding(r, a, b) == LoadPair(r, a, b, "check", "none")
MergeFinding(r, matched, new) == LoadPair(r, matched, new, "live", "merge")

(* persist_patrol_conflict: skip a pair that was already arbitrated. *)
CheckArbitrated(r) ==
    /\ cl[r].pc = "check"
    /\ IF \E c \in Conflicts : q[c].st = "resolved" /\ SamePair(q[c].case, cl[r].case)
       THEN Done(r)
       ELSE Move(r, "enqueue")
    /\ UNCHANGED <<mem, wr, q>>

EnqueuePair(r) ==
    /\ cl[r].pc = "enqueue"
    /\ Enqueued(cl[r].case)
    /\ Done(r)
    /\ UNCHANGED <<mem, wr>>

(* reopen_patrol_conflict: both sides must live; the indexes may refuse. *)
Reopen(c) ==
    /\ q[c].st = "resolved" /\ q[c].case.peer # NoId
    /\ Pair(q[c].case) \subseteq Live(mem)
    /\ QueueAllows(q[c].case, c)
    /\ q' = [q EXCEPT ![c].st = "pending", ![c].res = "none", ![c].raced = FALSE]
    /\ UNCHANGED <<mem, wr, cl>>
-----------------------------------------------------------------------------
(* resolve_pending_conflict, first session: the row must still be pending. *)
LoadConflict(r, c, res) ==
    /\ cl[r].pc = "idle" /\ q[c].st = "pending"
    /\ cl' = [cl EXCEPT ![r] = [IdleClient EXCEPT
                 !.pc = IF q[c].case.peer = NoId THEN "apply" ELSE "live",
                 !.cid = c, !.case = q[c].case, !.res = res]]
    /\ UNCHANGED <<mem, wr, q>>

(* Patrol shape only: the surviving side must still be live. *)
CheckSurvivor(r) ==
    /\ cl[r].pc = "live"
    /\ IF Survivor(r) \in Live(mem) THEN Move(r, "apply") ELSE Done(r)
    /\ UNCHANGED <<mem, wr, q>>

(* UPDATE memories SET deleted_at = NOW() WHERE id = B AND it is live. *)
WithoutLoser(r) ==
    [i \in Ids |-> IF i = Loser(r) /\ mem[i].st = "live"
                   THEN [mem[i] EXCEPT !.st = "deleted"] ELSE mem[i]]

KeepExisting(r) ==
    /\ cl[r].pc = "apply" /\ cl[r].res = "keep_existing"
    /\ mem' = WithoutLoser(r)
    /\ Move(r, "mark")
    /\ UNCHANGED <<wr, q>>

KeepBothStored(r) ==
    /\ cl[r].pc = "apply" /\ cl[r].res = "keep_both" /\ IsPatrol(r)
    /\ Move(r, "mark")
    /\ UNCHANGED <<mem, wr, q>>

(* keep_both of an ingestion conflict is _insert_memory. *)
KeepBothInsert(r) ==
    /\ cl[r].pc = "apply" /\ cl[r].res = "keep_both" /\ ~IsPatrol(r)
    /\ IF InsertAllowed(cl[r].case.h)
       THEN /\ \E i \in Ids :
                  /\ mem[i].st = "free"
                  /\ mem' = [mem EXCEPT ![i] =
                         NewRow("live", cl[r].case.h, cl[r].case.contents)]
            /\ Move(r, "mark")
       ELSE UNCHANGED mem /\ Move(r, "race")
    /\ UNCHANGED <<wr, q>>

(* overwrite and merge read A's meta, hash and summary, whatever its state *)
ReadSurvivor(r) ==
    /\ cl[r].pc = "apply" /\ cl[r].res \in {"overwrite", "merge"}
    /\ cl' = [cl EXCEPT ![r].pc = "write", ![r].snap = mem[Survivor(r)]]
    /\ UNCHANGED <<mem, wr, q>>

(***************************************************************************)
(* The row the resolution writes into A.  A failed LLM merge stores the    *)
(* new summary alone; a NULL deferred hash leaves the hash column as it is.*)
(* What the human or the failed merge discards stays recognised: "lost".   *)
(***************************************************************************)
ResolvedRow(case, snap, current, kept) ==
    [current EXCEPT
        !.hash = IF case.h = NoHash THEN @ ELSE case.h,
        !.prior = RecordPriorHash(snap.prior, snap.hash),
        !.holds = kept \cup case.contents,
        !.lost = (snap.lost \cup snap.holds) \ (kept \cup case.contents)]

Kept(r) == IF cl[r].res = "merge" THEN {cl[r].snap.holds, {}} ELSE {{}}

(* The rowcount guard of _write_resolved_memory (patrol shape only). *)
SurvivorGuard_Missing(r) == TRUE

SurvivorGuard(r) == IsPatrol(r) => Survivor(r) \in Live(mem)

(* Does the unique index accept A's new hash once B is soft-deleted? *)
WriteAllowed(r) ==
    LET a == Survivor(r)
    IN  mem[a].st = "live" => IndexAllows(WithoutLoser(r), a, cl[r].case.h)

(* _write_resolved_memory: one transaction deletes B and rewrites A. *)
WriteResolved(r) ==
    /\ cl[r].pc = "write" /\ SurvivorGuard(r) /\ WriteAllowed(r)
    /\ \E kept \in Kept(r) :
          mem' = [WithoutLoser(r) EXCEPT ![Survivor(r)] =
                     ResolvedRow(cl[r].case, cl[r].snap, @, kept)]
    /\ cl' = [cl EXCEPT ![r].pc = "mark", ![r].snap = FreeRow]
    /\ UNCHANGED <<wr, q>>

(* The survivor is gone: ValueError, rolled back, the row stays pending. *)
WriteRefused(r) ==
    /\ cl[r].pc = "write" /\ ~SurvivorGuard(r)
    /\ Done(r)
    /\ UNCHANGED <<mem, wr, q>>

(* IntegrityError: B's deletion is rolled back with the rest. *)
WriteRejected(r) ==
    /\ cl[r].pc = "write" /\ SurvivorGuard(r) /\ ~WriteAllowed(r)
    /\ cl' = [cl EXCEPT ![r].pc = "race", ![r].snap = FreeRow]
    /\ UNCHANGED <<mem, wr, q>>

(* The winner of the hash race answers "duplicate"; no winner, an error. *)
ResolveRace(r) ==
    /\ cl[r].pc = "race"
    /\ IF FindByContentHash(mem, cl[r].case.h) # {}
       THEN Move(r, "duplicate") ELSE Done(r)
    /\ UNCHANGED <<mem, wr, q>>

Marked_BeforeApply(r) == cl[r].pc \in {"apply", "duplicate", "mark"}

Marked(r) == cl[r].pc \in {"duplicate", "mark"}

(* The last session: the row is marked resolved whatever its status now. *)
MarkResolved(r) ==
    /\ Marked(r)
    /\ q' = IF cl[r].cid = NoConflict THEN q
            ELSE [q EXCEPT ![cl[r].cid].st = "resolved",
                           ![cl[r].cid].res = cl[r].res,
                           ![cl[r].cid].raced = cl[r].pc = "duplicate"]
    /\ Done(r)
    /\ UNCHANGED <<mem, wr>>

(* An exception or a restart ends the request between two sessions. *)
Crash(r) ==
    /\ cl[r].pc # "idle"
    /\ Done(r)
    /\ UNCHANGED <<mem, wr, q>>
-----------------------------------------------------------------------------
ResolveStep(r) ==
    \/ CheckSurvivor(r) \/ KeepExisting(r) \/ KeepBothStored(r)
    \/ KeepBothInsert(r) \/ ReadSurvivor(r) \/ WriteResolved(r)
    \/ WriteRefused(r) \/ WriteRejected(r) \/ ResolveRace(r) \/ MarkResolved(r)

QueueStep(r) == CheckArbitrated(r) \/ EnqueuePair(r)

Request(r) ==
    \/ \E a, b \in Ids : QueueFinding(r, a, b) \/ MergeFinding(r, a, b)
    \/ \E c \in Conflicts, res \in Resolutions : LoadConflict(r, c, res)
    \/ \E w \in Writers, res \in Resolutions : AgentResolve(r, w, res)

QNext ==
    \/ \E r \in Clients : Request(r) \/ QueueStep(r) \/ ResolveStep(r) \/ Crash(r)
    \/ \E w \in Writers : PersistConflict(w)
    \/ \E c \in Conflicts : Reopen(c)
    \/ (\E w \in Writers : WriterStep(w)) /\ UNCHANGED <<q, cl>>
    \/ (\E i \in Ids : Delete(i)) /\ UNCHANGED <<q, cl>>

QSpec == QInit /\ [][QNext]_vars
-----------------------------------------------------------------------------
(* The queue never stacks two open conflicts about the same content and    *)
(* memory, nor about the same two memories in either order, although       *)
(* deliveries repeat, pairs are re-queued and resolved pairs reopened      *)
(* (conflicts.py: "would multiply HITL work").                             *)
OpenConflictUnique ==
    \A c, d \in Pending :
        SameContent(q[c].case, q[d].case) \/ SamePair(q[c].case, q[d].case)
            => c = d

(* The overwrite or merge that soft-deletes the losing memory B leaves the *)
(* survivor A live and answering for B's hash: deleting A meanwhile never  *)
(* turns such an arbitration into the loss of both.  The resolution        *)
(* keep_existing is left out: it does not look at A again (memory.py:753). *)
ArbitrationKeepsSurvivor ==
    [][\A r \in Clients :
          cl[r].pc = "write" /\ IsPatrol(r) /\ cl'[r].pc = "mark"
            => /\ mem'[Survivor(r)].st = "live"
               /\ {cl[r].case.h} \ {NoHash} \subseteq GatedBy(mem'[Survivor(r)])]_vars

Destructive == {"keep_existing", "overwrite", "merge"}

DestroyedOnRecord(c) ==
    q[c].st = "resolved" /\ q[c].case.peer # NoId /\ q[c].res \in Destructive

(* A patrol conflict recorded as keep_existing, overwrite or merge really  *)
(* has dropped B, whichever requests, crashes, deletions and merges came   *)
(* between, unless its write lost a hash race, which rolled the deletion   *)
(* of B back and was answered "duplicate" (_write_resolved_memory).        *)
LoserGoneUnlessRaced ==
    \A c \in Conflicts :
        DestroyedOnRecord(c) /\ ~q[c].raced => q[c].case.peer \notin Live(mem)

(* "Both memories being live ... means the prior resolution did not        *)
(* soft-delete B -> keep_both" (persist_patrol_conflict): a destructive    *)
(* resolution on record has always dropped B.                              *)
ResolvedMeansLoserGone ==
    \A c \in Conflicts : DestroyedOnRecord(c) => q[c].case.peer \notin Live(mem)
=============================================================================
