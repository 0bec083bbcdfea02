----------------------------- MODULE MemoryProofs -----------------------------
(***************************************************************************)
(* TLAPS proofs about the memories: MemoryStore, for any number of rows,   *)
(* contents and concurrent writers, then ConflictQueue over the same       *)
(* table, for any number of queue rows, requests and writers.              *)
(***************************************************************************)
EXTENDS ConflictQueue, TLAPS

-----------------------------------------------------------------------------
(*                               MemoryStore                               *)

(* The inductive invariant.  A merge writes what its snapshot says, so the *)
(* snapshots in flight must be as sound as the rows, and a deleted row may *)
(* still be written by a late merge, so every row is sound, not only the   *)
(* live ones.                                                              *)
SnapshotsSound == \A w \in Writers : wr[w].pc = "merge" => RowSound(wr[w].snap)

RowsSound == \A i \in Ids : RowSound(mem[i])

IInv == TypeOK /\ LiveHashUnique /\ RowsSound /\ SnapshotsSound

-----------------------------------------------------------------------------
(* What the row written by _merge_memory recognises and carries.           *)
LEMMA MergedRowSound ==
    ASSUME NEW snap \in Row, NEW current \in Row, NEW h \in Hashes,
           NEW llmOk \in BOOLEAN, RowSound(snap)
    PROVE  /\ MergedRow(snap, current, h, llmOk) \in Row
           /\ MergedRow(snap, current, h, llmOk).hash = h
           /\ MergedRow(snap, current, h, llmOk).st = current.st
           /\ RowSound(MergedRow(snap, current, h, llmOk))
<1> USE ConstantsAssumption
<1> DEFINE new == MergedRow(snap, current, h, llmOk)
<1>1. new \in Row
  BY DEF MergedRow, RecordPriorHash, Row
<1>2. /\ new.hash = h
      /\ new.st = current.st
      /\ new.prior = snap.prior \cup ({snap.hash} \ {NoHash})
      /\ new.holds = IF llmOk THEN snap.holds \cup {h} ELSE snap.holds
      /\ new.lost = IF llmOk \/ h \in snap.holds
                    THEN snap.lost \ {h} ELSE snap.lost \cup {h}
  BY DEF MergedRow, RecordPriorHash, Row
<1>3. GatedBy(new) \subseteq GatedBy(snap) \cup {h}
  BY <1>2 DEF GatedBy
<1>4. GatedBy(snap) \cup {h} \subseteq new.holds \cup new.lost
  BY <1>2 DEF RowSound
<1>5. RowSound(new)
  BY <1>3, <1>4 DEF RowSound
<1>6. QED BY <1>1, <1>2, <1>5

(* A freshly inserted row carries the one content it recognises.           *)
LEMMA NewRowSound ==
    ASSUME NEW state \in {"free", "live", "deleted"}, NEW h \in Hashes \cup {NoHash},
           NEW contents \in SUBSET Hashes, {h} \ {NoHash} \subseteq contents
    PROVE  /\ NewRow(state, h, contents) \in Row
           /\ RowSound(NewRow(state, h, contents))
BY DEF NewRow, Row, RowSound, GatedBy

LEMMA InitIInv == Init => IInv
<1> SUFFICES ASSUME Init PROVE IInv
  OBVIOUS
<1> USE ConstantsAssumption
<1>1. /\ FreeRow \in Row /\ RowSound(FreeRow)
      /\ NewRow("live", NoHash, {}) \in Row
      /\ RowSound(NewRow("live", NoHash, {}))
  BY NewRowSound DEF FreeRow
<1>2. mem \in [Ids -> Row] /\ RowsSound
  BY <1>1 DEF Init, RowsSound
<1>3. IdleWriter \in Writer /\ IdleWriter.pc = "idle"
  BY <1>1 DEF IdleWriter, Writer
<1>4. TypeOK /\ SnapshotsSound
  BY <1>2, <1>3 DEF Init, TypeOK, SnapshotsSound
<1>5. \A i \in Ids : mem[i].hash = NoHash
  BY DEF Init, NewRow, FreeRow
<1>6. LiveHashUnique
  BY <1>5 DEF LiveHashUnique, Live
<1>7. QED BY <1>2, <1>4, <1>6 DEF IInv

-----------------------------------------------------------------------------
(* A writer that moves on without touching the table keeps the invariant   *)
(* when its new local state is well typed and its snapshot is sound.       *)
LEMMA WriterMoves ==
    ASSUME IInv, NEW w \in Writers, NEW new \in Writer, UNCHANGED mem,
           wr' = [wr EXCEPT ![w] = new],
           new.pc \in {"merge", "detect", "conflict"} => new.id \in Ids,
           new.pc # "idle" => new.h \in Hashes,
           new.pc = "merge" => RowSound(new.snap)
    PROVE  IInv'
<1>1. TypeOK'
  BY DEF IInv, TypeOK
<1>2. SnapshotsSound'
  BY DEF IInv, TypeOK, SnapshotsSound
<1>3. LiveHashUnique' /\ RowsSound'
  BY DEF IInv, LiveHashUnique, RowsSound, Live
<1>4. QED BY <1>1, <1>2, <1>3 DEF IInv

(* Writing one row of the table keeps the table part of the invariant when *)
(* the new row is sound and, if live, allowed by the unique index.         *)
LEMMA RowWritten ==
    ASSUME IInv, NEW i \in Ids, NEW row \in Row, RowSound(row),
           mem' = [mem EXCEPT ![i] = row],
           row.st = "live" => \/ row.hash = NoHash
                              \/ \A j \in Live(mem) \ {i} : mem[j].hash # row.hash
    PROVE  mem' \in [Ids -> Row] /\ LiveHashUnique' /\ RowsSound'
<1>1. mem' \in [Ids -> Row]
  BY DEF IInv, TypeOK
<1>2. RowsSound'
  BY DEF IInv, TypeOK, RowsSound
<1>3. LiveHashUnique'
  <2> SUFFICES ASSUME NEW j \in Live(mem'), NEW k \in Live(mem'),
                      mem'[j].hash = mem'[k].hash, mem'[j].hash # NoHash
               PROVE  j = k
    BY DEF LiveHashUnique, Live
  <2>1. \A m \in Ids \ {i} : mem'[m] = mem[m]
    BY DEF IInv, TypeOK
  <2>2. mem'[i] = row
    BY DEF IInv, TypeOK
  <2>3. CASE j # i /\ k # i
    BY <2>1, <2>3 DEF IInv, LiveHashUnique, Live
  <2>4. CASE j = i \/ k = i
    BY <2>1, <2>2, <2>4 DEF Live
  <2>5. QED BY <2>3, <2>4
<1>4. QED BY <1>1, <1>2, <1>3

(* Returning to the caller is a move every writer may make.                *)
LEMMA IdleWriterType == IdleWriter \in Writer /\ IdleWriter.pc = "idle"
BY NewRowSound, ConstantsAssumption DEF IdleWriter, Writer, FreeRow

(* A step that writes the table and ends the writer keeps the invariant.   *)
LEMMA CommitAndFinish ==
    ASSUME IInv, NEW w \in Writers, Finish(w),
           mem' \in [Ids -> Row] /\ LiveHashUnique' /\ RowsSound'
    PROVE  IInv'
<1>1. wr' \in [Writers -> Writer] /\ wr'[w].pc = "idle"
      /\ \A v \in Writers \ {w} : wr'[v] = wr[v]
  BY IdleWriterType DEF Finish, IInv, TypeOK
<1>2. TypeOK' /\ SnapshotsSound'
  BY <1>1 DEF IInv, TypeOK, SnapshotsSound
<1>3. QED BY <1>2 DEF IInv

LEMMA InsertKeepsIInv ==
    ASSUME IInv, NEW w \in Writers, InsertCommit(w) PROVE IInv'
<1> USE ConstantsAssumption
<1>1. PICK i \in Ids : mem' = [mem EXCEPT ![i] = NewRow("live", wr[w].h, {wr[w].h})]
  BY DEF InsertCommit
<1> DEFINE row == NewRow("live", wr[w].h, {wr[w].h})
<1>2. wr[w].h \in Hashes
  BY DEF InsertCommit, IInv, TypeOK
<1>3. row \in Row /\ RowSound(row)
  BY <1>2, NewRowSound
<1>4. row.hash = wr[w].h
  BY DEF NewRow
<1>5. \A j \in Live(mem) \ {i} : mem[j].hash # row.hash
  BY <1>2, <1>4 DEF InsertCommit, InsertAllowed, IndexAllows, Live
<1> HIDE DEF row
<1>6. mem' \in [Ids -> Row] /\ LiveHashUnique' /\ RowsSound'
  BY <1>1, <1>3, <1>5, RowWritten DEF row
<1>7. QED BY <1>6, CommitAndFinish DEF InsertCommit

LEMMA MergeKeepsIInv ==
    ASSUME IInv, NEW w \in Writers, MergeCommit(w) PROVE IInv'
<1> USE ConstantsAssumption
<1> DEFINE i == wr[w].id
<1>1. /\ i \in Ids /\ wr[w].h \in Hashes /\ mem[i] \in Row
      /\ wr[w].snap \in Row /\ RowSound(wr[w].snap)
  BY DEF MergeCommit, IInv, TypeOK, SnapshotsSound, Writer
<1>2. PICK llmOk \in BOOLEAN :
         mem' = [mem EXCEPT ![i] = MergedRow(wr[w].snap, mem[i], wr[w].h, llmOk)]
  BY DEF MergeCommit
<1> DEFINE row == MergedRow(wr[w].snap, mem[i], wr[w].h, llmOk)
<1>3. /\ row \in Row /\ RowSound(row)
      /\ row.hash = wr[w].h /\ row.st = mem[i].st
  BY <1>1, MergedRowSound
<1> HIDE DEF row
<1>4. row.st = "live" => \A j \in Live(mem) \ {i} : mem[j].hash # row.hash
  BY <1>1, <1>3 DEF MergeCommit, IndexAllows
<1>5. mem' \in [Ids -> Row] /\ LiveHashUnique' /\ RowsSound'
  BY <1>1, <1>2, <1>3, <1>4, RowWritten DEF row
<1>6. QED BY <1>5, CommitAndFinish DEF MergeCommit

LEMMA DeleteKeepsIInv ==
    ASSUME IInv, NEW i \in Ids, Delete(i) PROVE IInv'
<1> DEFINE row == [mem[i] EXCEPT !.st = "deleted"]
<1>1. mem[i] \in Row /\ RowSound(mem[i])
  BY DEF IInv, TypeOK, RowsSound
<1>2. row \in Row /\ RowSound(row) /\ row.st = "deleted"
  BY <1>1 DEF Row, RowSound, GatedBy
<1>3. mem' = [mem EXCEPT ![i] = row]
  BY DEF Delete
<1> HIDE DEF row
<1>4. mem' \in [Ids -> Row] /\ LiveHashUnique' /\ RowsSound'
  BY <1>2, <1>3, RowWritten
<1>5. QED BY <1>4 DEF IInv, TypeOK, SnapshotsSound, Delete

LEMMA NextKeepsIInv == IInv /\ [Next]_storeVars => IInv'
<1> SUFFICES ASSUME IInv, [Next]_storeVars PROVE IInv'
  OBVIOUS
<1> USE ConstantsAssumption
<1>1. ASSUME NEW w \in Writers, NEW h \in Hashes, Gate(w, h) PROVE IInv'
  <2>1. CASE Finish(w)
    BY <1>1, <2>1, WriterMoves, IdleWriterType DEF Finish, Gate
  <2>2. CASE wr' = [wr EXCEPT ![w].pc = "extract", ![w].h = h]
    <3> DEFINE new == [wr[w] EXCEPT !.pc = "extract", !.h = h]
    <3>1. new \in Writer /\ new.pc = "extract" /\ new.h = h
      BY DEF IInv, TypeOK, Writer
    <3>2. wr' = [wr EXCEPT ![w] = new]
      BY <2>2 DEF IInv, TypeOK
    <3> HIDE DEF new
    <3>3. QED BY <1>1, <3>1, <3>2, WriterMoves DEF Gate
  <2>3. QED BY <1>1, <2>1, <2>2 DEF Gate
<1>2. ASSUME NEW w \in Writers, FindSimilar(w) PROVE IInv'
  <2>1. wr[w] \in Writer /\ wr[w].h \in Hashes /\ wr[w].pc = "extract"
    BY <1>2 DEF FindSimilar, IInv, TypeOK
  <2>2. CASE Goto(w, "insert")
    <3> DEFINE new == [wr[w] EXCEPT !.pc = "insert"]
    <3>1. new \in Writer /\ new.pc = "insert" /\ new.h = wr[w].h
      BY <2>1 DEF Writer
    <3>2. wr' = [wr EXCEPT ![w] = new]
      BY <2>2 DEF Goto
    <3> HIDE DEF new
    <3>3. QED BY <1>2, <2>1, <3>1, <3>2, WriterMoves DEF FindSimilar
  <2>3. ASSUME NEW i \in Live(mem),
               wr' = [wr EXCEPT ![w].pc = "merge", ![w].id = i, ![w].snap = mem[i]]
        PROVE  IInv'
    <3> DEFINE new == [wr[w] EXCEPT !.pc = "merge", !.id = i, !.snap = mem[i]]
    <3>0. i \in Ids /\ mem[i] \in Row /\ RowSound(mem[i])
      BY DEF Live, IInv, TypeOK, RowsSound
    <3>1. /\ new \in Writer /\ new.pc = "merge" /\ new.h = wr[w].h
          /\ new.id = i /\ new.snap = mem[i]
      BY <2>1, <3>0 DEF Writer
    <3>2. wr' = [wr EXCEPT ![w] = new]
      BY <2>3
    <3> HIDE DEF new
    <3>3. QED BY <1>2, <2>1, <3>0, <3>1, <3>2, WriterMoves DEF FindSimilar
  <2>4. ASSUME NEW i \in Live(mem),
               wr' = [wr EXCEPT ![w].pc = "detect", ![w].id = i]
        PROVE  IInv'
    <3> DEFINE new == [wr[w] EXCEPT !.pc = "detect", !.id = i]
    <3>1. /\ new \in Writer /\ new.pc = "detect" /\ new.h = wr[w].h
          /\ new.id = i /\ i \in Ids
      BY <2>1 DEF Writer, Live
    <3>2. wr' = [wr EXCEPT ![w] = new]
      BY <2>4
    <3> HIDE DEF new
    <3>3. QED BY <1>2, <2>1, <3>1, <3>2, WriterMoves DEF FindSimilar
  <2>5. QED BY <1>2, <2>2, <2>3, <2>4 DEF FindSimilar
<1>3. ASSUME NEW w \in Writers, DetectConflict(w) PROVE IInv'
  <2>1. /\ wr[w] \in Writer /\ wr[w].h \in Hashes
        /\ wr[w].pc = "detect" /\ wr[w].id \in Ids
    BY <1>3 DEF DetectConflict, IInv, TypeOK
  <2>2. CASE wr' = [wr EXCEPT ![w].pc = "insert", ![w].id = NoId]
    <3> DEFINE new == [wr[w] EXCEPT !.pc = "insert", !.id = NoId]
    <3>1. new \in Writer /\ new.pc = "insert" /\ new.h = wr[w].h
      BY <2>1 DEF Writer
    <3>2. wr' = [wr EXCEPT ![w] = new]
      BY <2>2
    <3> HIDE DEF new
    <3>3. QED BY <1>3, <2>1, <3>1, <3>2, WriterMoves DEF DetectConflict
  <2>3. CASE Goto(w, "conflict")
    <3> DEFINE new == [wr[w] EXCEPT !.pc = "conflict"]
    <3>1. /\ new \in Writer /\ new.pc = "conflict" /\ new.h = wr[w].h
          /\ new.id = wr[w].id
      BY <2>1 DEF Writer
    <3>2. wr' = [wr EXCEPT ![w] = new]
      BY <2>3 DEF Goto
    <3> HIDE DEF new
    <3>3. QED BY <1>3, <2>1, <3>1, <3>2, WriterMoves DEF DetectConflict
  <2>4. QED BY <1>3, <2>2, <2>3 DEF DetectConflict
<1>4. ASSUME NEW w \in Writers, MergeCommit(w) PROVE IInv'
  BY <1>4, MergeKeepsIInv
<1>5. ASSUME NEW w \in Writers, MergeRejected(w) PROVE IInv'
  <2>1. wr[w] \in Writer /\ wr[w].h \in Hashes
    BY <1>5 DEF MergeRejected, IInv, TypeOK
  <2> DEFINE new == [wr[w] EXCEPT !.pc = "race", !.id = NoId, !.snap = FreeRow]
  <2>2. new \in Writer /\ new.pc = "race" /\ new.h = wr[w].h
    BY <2>1, NewRowSound DEF Writer, FreeRow
  <2>3. wr' = [wr EXCEPT ![w] = new]
    BY <1>5 DEF MergeRejected
  <2> HIDE DEF new
  <2>4. QED BY <1>5, <2>1, <2>2, <2>3, WriterMoves DEF MergeRejected
<1>6. ASSUME NEW w \in Writers, InsertCommit(w) PROVE IInv'
  BY <1>6, InsertKeepsIInv
<1>7. ASSUME NEW w \in Writers, InsertRejected(w) PROVE IInv'
  <2>1. wr[w] \in Writer /\ wr[w].h \in Hashes
    BY <1>7 DEF InsertRejected, IInv, TypeOK
  <2> DEFINE new == [wr[w] EXCEPT !.pc = "race"]
  <2>2. new \in Writer /\ new.pc = "race" /\ new.h = wr[w].h
    BY <2>1 DEF Writer
  <2>3. wr' = [wr EXCEPT ![w] = new]
    BY <1>7 DEF InsertRejected, Goto
  <2> HIDE DEF new
  <2>4. QED BY <1>7, <2>1, <2>2, <2>3, WriterMoves DEF InsertRejected
<1>8. ASSUME NEW w \in Writers, RaceLookup(w) \/ Fail(w) \/ HandOver(w)
      PROVE  IInv'
  BY <1>8, WriterMoves, IdleWriterType DEF RaceLookup, Fail, HandOver, Finish
<1>9. ASSUME NEW i \in Ids, Delete(i) PROVE IInv'
  BY <1>9, DeleteKeepsIInv
<1>10. CASE UNCHANGED storeVars
  BY <1>10 DEF storeVars, IInv, TypeOK, LiveHashUnique, RowsSound,
               SnapshotsSound, Live
<1>11. QED
  BY <1>1, <1>2, <1>3, <1>4, <1>5, <1>6, <1>7, <1>8, <1>9, <1>10
     DEF Next, WriterStep

-----------------------------------------------------------------------------
(* The inductive invariant holds in every reachable state.                 *)
LEMMA SpecIInv == Spec => []IInv
BY InitIInv, NextKeepsIInv, PTL DEF Spec

(* Type correctness of the table and of every writer.                      *)
THEOREM TypeCorrect == Spec => []TypeOK
<1>1. IInv => TypeOK
  BY DEF IInv
<1>2. QED BY <1>1, SpecIInv, PTL

(* Concurrent writers never leave two live memories with one content hash. *)
THEOREM HashesStayUnique == Spec => []LiveHashUnique
<1>1. IInv => LiveHashUnique
  BY DEF IInv
<1>2. QED BY <1>1, SpecIInv, PTL

(* What the gate answers "duplicate" for is carried by the row it answers  *)
(* with, but for contents whose LLM merge failed.                          *)
THEOREM GateIsHonest == Spec => []GatedContentHeld
<1>1. IInv => GatedContentHeld
  BY DEF IInv, RowsSound, GatedContentHeld, Live
<1>2. QED BY <1>1, SpecIInv, PTL

-----------------------------------------------------------------------------
(* A row a merge writes over the very row it read recognises at least what *)
(* that row recognised.                                                    *)
LEMMA FreshMergeKeepsGate ==
    ASSUME NEW row \in Row, NEW h \in Hashes, NEW llmOk \in BOOLEAN
    PROVE  GatedBy(row) \subseteq GatedBy(MergedRow(row, row, h, llmOk))
<1> DEFINE new == MergedRow(row, row, h, llmOk)
<1>1. new.prior = row.prior \cup ({row.hash} \ {NoHash})
  BY DEF MergedRow, RecordPriorHash, Row
<1>2. QED BY <1>1 DEF GatedBy

(* The table after writing row i keeps every hash it recognised, provided  *)
(* row i does.                                                             *)
LEMMA WriteKeepsGate ==
    ASSUME mem \in [Ids -> Row], NEW i \in Ids, NEW row \in Row,
           mem' = [mem EXCEPT ![i] = row],
           mem[i].st = "live" => /\ row.st = "live"
                                 /\ GatedBy(mem[i]) \subseteq GatedBy(row)
    PROVE  Gated(mem) \subseteq Gated(mem')
<1> SUFFICES ASSUME NEW k \in Live(mem), NEW h \in GatedBy(mem[k])
             PROVE  \E j \in Live(mem') : h \in GatedBy(mem'[j])
  BY DEF Gated
<1>1. CASE k = i
  <2>1. mem'[i] = row
    OBVIOUS
  <2>2. i \in Live(mem') /\ h \in GatedBy(mem'[i])
    BY <1>1, <2>1 DEF Live
  <2>3. QED BY <2>2
<1>2. CASE k # i
  <2>1. mem'[k] = mem[k] /\ k \in Live(mem')
    BY <1>2 DEF Live
  <2>2. QED BY <2>1
<1>3. QED BY <1>1, <1>2

ForgetStep ==
    \/ Gated(mem) \subseteq Gated(mem')
    \/ \E i \in Ids : mem[i].st = "live" /\ mem'[i].st = "deleted"
    \/ \E w \in Writers : StaleCommit(w)

LEMMA NextForgets == IInv /\ [Next]_storeVars => ForgetStep
<1> SUFFICES ASSUME IInv, [Next]_storeVars PROVE ForgetStep
  OBVIOUS
<1>1. CASE UNCHANGED mem
  BY <1>1 DEF ForgetStep, Gated, Live
<1>2. ASSUME NEW w \in Writers, InsertCommit(w) PROVE ForgetStep
  <2>1. PICK i \in Ids : /\ mem[i].st = "free"
                         /\ mem' = [mem EXCEPT ![i] =
                                       NewRow("live", wr[w].h, {wr[w].h})]
    BY <1>2 DEF InsertCommit
  <2>2. NewRow("live", wr[w].h, {wr[w].h}) \in Row
    BY <1>2, NewRowSound DEF InsertCommit, IInv, TypeOK
  <2>3. mem \in [Ids -> Row]
    BY DEF IInv, TypeOK
  <2>4. Gated(mem) \subseteq Gated(mem')
    BY <2>1, <2>2, <2>3, WriteKeepsGate
  <2>5. QED BY <2>4 DEF ForgetStep
<1>3. ASSUME NEW w \in Writers, MergeCommit(w) PROVE ForgetStep
  <2> DEFINE i == wr[w].id
  <2>1. /\ i \in Ids /\ wr[w].h \in Hashes /\ mem[i] \in Row
        /\ wr[w].snap \in Row /\ RowSound(wr[w].snap)
        /\ mem \in [Ids -> Row]
    BY <1>3 DEF MergeCommit, IInv, TypeOK, SnapshotsSound, Writer
  <2>2. CASE mem[i] # wr[w].snap
    BY <1>3, <2>2 DEF ForgetStep, StaleCommit, MergeCommit
  <2>3. CASE mem[i] = wr[w].snap
    <3>1. PICK llmOk \in BOOLEAN :
             mem' = [mem EXCEPT ![i] = MergedRow(wr[w].snap, mem[i], wr[w].h, llmOk)]
      BY <1>3 DEF MergeCommit
    <3> DEFINE row == MergedRow(wr[w].snap, mem[i], wr[w].h, llmOk)
    <3>2. row \in Row /\ row.st = mem[i].st
      BY <2>1, MergedRowSound
    <3>3. GatedBy(mem[i]) \subseteq GatedBy(row)
      BY <2>1, <2>3, FreshMergeKeepsGate
    <3> HIDE DEF row
    <3>4. Gated(mem) \subseteq Gated(mem')
      BY <2>1, <3>1, <3>2, <3>3, WriteKeepsGate DEF row
    <3>5. QED BY <3>4 DEF ForgetStep
  <2>4. QED BY <2>2, <2>3
<1>4. ASSUME NEW i \in Ids, Delete(i) PROVE ForgetStep
  <2>1. mem[i].st = "live" /\ mem'[i].st = "deleted"
    BY <1>4 DEF Delete, IInv, TypeOK, Row
  <2>2. QED BY <2>1 DEF ForgetStep
<1>5. QED
  BY <1>1, <1>2, <1>3, <1>4
     DEF Next, WriterStep, Gate, FindSimilar, DetectConflict, MergeRejected,
         InsertRejected, RaceLookup, HandOver, Fail, storeVars

(* Every step that makes the gate forget a hash deletes a memory or        *)
(* commits a merge from an outdated snapshot.                              *)
THEOREM GateForgetting == Spec => GateForgetsOnlyByDeleteOrStaleMerge
<1>1. IInv /\ [Next]_storeVars => [ForgetStep]_storeVars
  BY NextForgets
<1>2. Spec => [][ForgetStep]_storeVars
  BY <1>1, SpecIInv, PTL DEF Spec
<1>3. QED BY <1>2 DEF ForgetStep, GateForgetsOnlyByDeleteOrStaleMerge

-----------------------------------------------------------------------------
(*                              ConflictQueue                              *)

Case == [existing : Ids \cup {NoId}, peer : Ids \cup {NoId},
         h : Hashes \cup {NoHash}, contents : SUBSET Hashes]

Slot == [st : {"free", "pending", "resolved"}, case : Case,
         res : Resolutions \cup {"none"}, raced : BOOLEAN]

Client == [pc : {"idle", "check", "enqueue", "live", "apply", "write", "race",
                 "duplicate", "mark"},
           cid : Conflicts \cup {NoConflict}, case : Case,
           res : Resolutions \cup {"none"}, snap : Row]

QTypeOK == TypeOK /\ q \in [Conflicts -> Slot] /\ cl \in [Clients -> Client]

(* A case names stored rows: its losing side is another row than the       *)
(* survivor and was inserted before.                                       *)
CaseSound(table, case) ==
    /\ case.existing \in Ids
    /\ case.peer # NoId => /\ case.peer \in Ids \ {case.existing}
                           /\ table[case.peer].st # "free"

Dropped(table, case) == case.peer # NoId => table[case.peer].st = "deleted"

SlotSound(table, row) ==
    row.st # "free" =>
        /\ CaseSound(table, row.case)
        /\ row.st = "resolved" /\ row.res \in Destructive /\ ~row.raced
              => Dropped(table, row.case)

(* A request works on the case of the row it was loaded from, and one that *)
(* is about to record a destructive resolution has dropped the loser.      *)
ClientSound(table, queue, x) ==
    x.pc # "idle" =>
        /\ CaseSound(table, x.case)
        /\ x.cid # NoConflict => /\ queue[x.cid].st # "free"
                                 /\ queue[x.cid].case = x.case
        /\ x.pc = "mark" /\ x.res \in Destructive => Dropped(table, x.case)

QueueSound == \A c \in Conflicts : SlotSound(mem, q[c])

ClientsSound == \A r \in Clients : ClientSound(mem, q, cl[r])

QIInv == QTypeOK /\ LiveHashUnique /\ OpenConflictUnique /\ QueueSound /\ ClientsSound

(* What no step undoes: an inserted row stays inserted, a deleted one      *)
(* deleted, and a queued conflict keeps its case.                          *)
TableKeeps ==
    \A i \in Ids : /\ mem[i].st # "free" => mem'[i].st # "free"
                   /\ mem[i].st = "deleted" => mem'[i].st = "deleted"

QueueKeeps ==
    \A c \in Conflicts :
        q[c].st # "free" => q'[c].st # "free" /\ q'[c].case = q[c].case
-----------------------------------------------------------------------------
(* The initial values are well typed.                                      *)
LEMMA InitialValues ==
    /\ FreeRow \in Row /\ FreeRow.st = "free"
    /\ IdleWriter \in Writer /\ IdleWriter.pc = "idle"
    /\ NoCase \in Case
    /\ FreeSlot \in Slot /\ FreeSlot.st = "free"
    /\ IdleClient \in Client /\ IdleClient.pc = "idle"
<1>1. FreeRow \in Row /\ FreeRow.st = "free"
  BY DEF FreeRow, NewRow, Row
<1>2. NoCase \in Case
  BY DEF NoCase, Case
<1>3. IdleWriter \in Writer /\ IdleWriter.pc = "idle"
  BY <1>1 DEF IdleWriter, Writer
<1>4. FreeSlot \in Slot /\ FreeSlot.st = "free"
  BY <1>2 DEF FreeSlot, Slot
<1>5. IdleClient \in Client /\ IdleClient.pc = "idle"
  BY <1>1, <1>2 DEF IdleClient, Client
<1>6. QED BY <1>1, <1>2, <1>3, <1>4, <1>5

LEMMA QInitIInv == QInit => QIInv
<1> SUFFICES ASSUME QInit PROVE QIInv
  OBVIOUS
<1> USE InitialValues, ConstantsAssumption
<1>1. mem \in [Ids -> Row] /\ \A i \in Ids : mem[i].hash = NoHash
  BY DEF QInit, Init, NewRow, FreeRow, Row
<1>2. TypeOK
  BY <1>1 DEF QInit, Init, TypeOK
<1>3. LiveHashUnique
  BY <1>1 DEF LiveHashUnique, Live
<1>4. QTypeOK /\ QueueSound /\ ClientsSound
  BY <1>2 DEF QInit, QTypeOK, QueueSound, ClientsSound, SlotSound, ClientSound
<1>5. OpenConflictUnique
  BY DEF QInit, OpenConflictUnique, Pending
<1>6. QED BY <1>2, <1>3, <1>4, <1>5 DEF QIInv
-----------------------------------------------------------------------------
(* Writing one row keeps the table well typed and its live hashes unique   *)
(* when the unique index allows the new row.                               *)
LEMMA RowReplaced ==
    ASSUME mem \in [Ids -> Row], LiveHashUnique, NEW i \in Ids, NEW row \in Row,
           mem' = [mem EXCEPT ![i] = row],
           row.st = "live" => \/ row.hash = NoHash
                              \/ \A j \in Live(mem) \ {i} : mem[j].hash # row.hash
    PROVE  mem' \in [Ids -> Row] /\ LiveHashUnique'
<1>1. mem' \in [Ids -> Row] /\ mem'[i] = row
      /\ \A j \in Ids \ {i} : mem'[j] = mem[j]
  OBVIOUS
<1>2. ASSUME NEW j \in Live(mem'), NEW k \in Live(mem'),
             mem'[j].hash = mem'[k].hash, mem'[j].hash # NoHash
      PROVE  j = k
  <2>1. CASE j # i /\ k # i
    BY <1>1, <1>2, <2>1 DEF LiveHashUnique, Live
  <2>2. CASE j = i \/ k = i
    BY <1>1, <1>2, <2>2 DEF Live
  <2>3. QED BY <2>1, <2>2
<1>3. QED BY <1>1, <1>2 DEF LiveHashUnique

(* A writer's step keeps the store's part of the invariant.                *)
LEMMA WriterKeeps ==
    ASSUME TypeOK, LiveHashUnique, NEW w \in Writers,
           WriterStep(w) \/ (Finish(w) /\ UNCHANGED mem)
    PROVE  TypeOK' /\ LiveHashUnique' /\ TableKeeps
<1> USE ConstantsAssumption, InitialValues
<1>1. CASE InsertCommit(w)
  <2>1. PICK i \in Ids : /\ mem[i].st = "free"
                         /\ mem' = [mem EXCEPT ![i] = NewRow("live", wr[w].h, {wr[w].h})]
    BY <1>1 DEF InsertCommit
  <2> DEFINE row == NewRow("live", wr[w].h, {wr[w].h})
  <2>2. wr[w].h \in Hashes
    BY <1>1 DEF InsertCommit, TypeOK
  <2>3. row \in Row /\ row.hash = wr[w].h /\ row.st = "live"
    BY <2>2 DEF NewRow, Row
  <2>4. \A j \in Live(mem) \ {i} : mem[j].hash # row.hash
    BY <1>1, <2>2, <2>3 DEF InsertCommit, InsertAllowed, IndexAllows, Live
  <2> HIDE DEF row
  <2>5. mem' \in [Ids -> Row] /\ LiveHashUnique'
    BY <2>1, <2>3, <2>4, RowReplaced DEF TypeOK, row
  <2>6. TableKeeps
    BY <2>1, <2>3 DEF TableKeeps, TypeOK, row
  <2>7. QED BY <1>1, <2>5, <2>6 DEF TypeOK, InsertCommit, Finish
<1>2. CASE MergeCommit(w)
  <2> DEFINE i == wr[w].id
  <2>1. i \in Ids /\ wr[w].h \in Hashes /\ mem[i] \in Row /\ wr[w].snap \in Row
    BY <1>2 DEF MergeCommit, TypeOK, Writer
  <2>2. PICK llmOk \in BOOLEAN :
           mem' = [mem EXCEPT ![i] = MergedRow(wr[w].snap, mem[i], wr[w].h, llmOk)]
    BY <1>2 DEF MergeCommit
  <2> DEFINE row == MergedRow(wr[w].snap, mem[i], wr[w].h, llmOk)
  <2>3. row \in Row /\ row.hash = wr[w].h /\ row.st = mem[i].st
    BY <2>1 DEF MergedRow, RecordPriorHash, Row
  <2> HIDE DEF row
  <2>4. row.st = "live" => \A j \in Live(mem) \ {i} : mem[j].hash # row.hash
    BY <1>2, <2>1, <2>3 DEF MergeCommit, IndexAllows
  <2>5. mem' \in [Ids -> Row] /\ LiveHashUnique'
    BY <2>1, <2>2, <2>3, <2>4, RowReplaced DEF TypeOK, row
  <2>6. TableKeeps
    BY <2>1, <2>2, <2>3 DEF TableKeeps, TypeOK, row
  <2>7. QED BY <1>2, <2>5, <2>6 DEF TypeOK, MergeCommit, Finish
<1>3. CASE UNCHANGED mem
  <2>1. LiveHashUnique' /\ TableKeeps
    BY <1>3 DEF LiveHashUnique, Live, TableKeeps
  <2>2. CASE Finish(w)
    BY <1>3, <2>1, <2>2 DEF Finish, TypeOK
  <2>3. ASSUME NEW h \in Hashes, Gate(w, h) PROVE TypeOK'
    BY <1>3, <2>3 DEF Gate, Finish, TypeOK, Writer
  <2>4. ASSUME FindSimilar(w) PROVE TypeOK'
    <3>1. CASE Goto(w, "insert")
      BY <1>3, <2>4, <3>1 DEF FindSimilar, Goto, TypeOK, Writer
    <3>2. ASSUME NEW i \in Live(mem),
                 \/ wr' = [wr EXCEPT ![w].pc = "merge", ![w].id = i, ![w].snap = mem[i]]
                 \/ wr' = [wr EXCEPT ![w].pc = "detect", ![w].id = i]
          PROVE  TypeOK'
      <4>1. i \in Ids /\ mem[i] \in Row /\ wr[w] \in Writer /\ wr[w].h \in Hashes
        BY <2>4 DEF Live, TypeOK, FindSimilar
      <4>2. ASSUME NEW new \in Writer, wr' = [wr EXCEPT ![w] = new],
                   new.id = i, new.h \in Hashes
            PROVE  TypeOK'
        BY <1>3, <4>1, <4>2 DEF TypeOK
      <4> DEFINE merging == [wr[w] EXCEPT !.pc = "merge", !.id = i, !.snap = mem[i]]
                 detecting == [wr[w] EXCEPT !.pc = "detect", !.id = i]
      <4>3. /\ merging \in Writer /\ merging.id = i /\ merging.h = wr[w].h
            /\ detecting \in Writer /\ detecting.id = i /\ detecting.h = wr[w].h
        BY <4>1 DEF Writer
      <4>4. wr' = [wr EXCEPT ![w] = merging] \/ wr' = [wr EXCEPT ![w] = detecting]
        BY <3>2
      <4> HIDE DEF merging, detecting
      <4>5. QED BY <4>1, <4>2, <4>3, <4>4
    <3>3. QED BY <2>4, <3>1, <3>2 DEF FindSimilar
  <2>5. CASE DetectConflict(w) \/ MergeRejected(w) \/ InsertRejected(w)
    BY <1>3, <2>1, <2>5 DEF DetectConflict, MergeRejected, InsertRejected, Goto,
                      TypeOK, Writer
  <2>6. CASE RaceLookup(w) \/ Fail(w)
    BY <2>2, <2>6 DEF RaceLookup, Fail
  <2>7. CASE MergeCommit(w) \/ InsertCommit(w)
    BY <2>2, <2>7 DEF MergeCommit, InsertCommit
  <2>8. QED BY <2>1, <2>2, <2>3, <2>4, <2>5, <2>6, <2>7 DEF WriterStep
<1>4. QED
  BY <1>1, <1>2, <1>3 DEF WriterStep, Gate, FindSimilar, DetectConflict,
                          MergeRejected, InsertRejected, RaceLookup, Fail
-----------------------------------------------------------------------------
(* What is sound stays sound while the table and the queue keep what they  *)
(* always keep.                                                            *)
LEMMA SoundnessKept ==
    ASSUME TableKeeps, QueueKeeps
    PROVE  /\ \A case \in Case : CaseSound(mem, case) => CaseSound(mem', case)
           /\ \A case \in Case : CaseSound(mem, case) /\ Dropped(mem, case)
                                    => Dropped(mem', case)
           /\ \A row \in Slot : SlotSound(mem, row) => SlotSound(mem', row)
           /\ \A x \in Client : ClientSound(mem, q, x) => ClientSound(mem', q', x)
<1>1. \A case \in Case : CaseSound(mem, case) => CaseSound(mem', case)
  BY DEF TableKeeps, CaseSound
<1>2. \A case \in Case : CaseSound(mem, case) /\ Dropped(mem, case)
                             => Dropped(mem', case)
  BY DEF TableKeeps, CaseSound, Dropped
<1>3. \A row \in Slot : SlotSound(mem, row) => SlotSound(mem', row)
  BY <1>1, <1>2 DEF SlotSound, Slot
<1>4. ASSUME NEW x \in Client, ClientSound(mem, q, x) PROVE ClientSound(mem', q', x)
  <2>1. x.case \in Case /\ x.cid \in Conflicts \cup {NoConflict}
    BY DEF Client
  <2>2. QED BY <1>1, <1>2, <1>4, <2>1 DEF ClientSound, QueueKeeps
<1>5. QED BY <1>1, <1>2, <1>3, <1>4

(* A step of one request that leaves the queue alone.                      *)
LEMMA ClientMoves ==
    ASSUME QIInv, TypeOK', LiveHashUnique', TableKeeps, UNCHANGED q,
           NEW r \in Clients, NEW new \in Client,
           cl' = [cl EXCEPT ![r] = new], ClientSound(mem', q, new)
    PROVE  QIInv'
<1>1. QueueKeeps
  BY DEF QueueKeeps
<1>2. QTypeOK'
  BY DEF QIInv, QTypeOK
<1>3. OpenConflictUnique'
  BY DEF QIInv, OpenConflictUnique, Pending
<1>4. QueueSound'
  BY <1>1, SoundnessKept DEF QIInv, QTypeOK, QueueSound
<1>5. ClientsSound'
  BY <1>1, SoundnessKept DEF QIInv, QTypeOK, ClientsSound
<1>6. QED BY <1>2, <1>3, <1>4, <1>5 DEF QIInv

(* Leaving the pipeline asks nothing of the request.                       *)
LEMMA ClientLeaves ==
    ASSUME QIInv, TypeOK', LiveHashUnique', TableKeeps, UNCHANGED q,
           NEW r \in Clients, Done(r)
    PROVE  QIInv'
BY ClientMoves, InitialValues DEF Done, ClientSound

(* A step of the store that leaves queue and requests alone.               *)
LEMMA StoreMoves ==
    ASSUME QIInv, TypeOK', LiveHashUnique', TableKeeps, UNCHANGED <<q, cl>>
    PROVE  QIInv'
<1>1. QueueKeeps
  BY DEF QueueKeeps
<1>2. QTypeOK' /\ OpenConflictUnique'
  BY DEF QIInv, QTypeOK, OpenConflictUnique, Pending
<1>3. QueueSound' /\ ClientsSound'
  BY <1>1, SoundnessKept DEF QIInv, QTypeOK, QueueSound, ClientsSound
<1>4. QED BY <1>2, <1>3 DEF QIInv

(* A row of the queue is written while no request goes further: the        *)
(* indexes must allow it if it is open, and what it records must be true.  *)
LEMMA SlotWritten ==
    ASSUME QIInv, TypeOK', UNCHANGED mem, NEW c \in Conflicts, NEW row \in Slot,
           q' = [q EXCEPT ![c] = row], row.st # "free", SlotSound(mem, row),
           q[c].st # "free" => row.case = q[c].case,
           row.st = "pending" => QueueAllows(row.case, c),
           cl' \in [Clients -> Client],
           \A r \in Clients : cl'[r] = cl[r] \/ cl'[r] = IdleClient
    PROVE  QIInv'
<1>1. /\ q \in [Conflicts -> Slot] /\ q' \in [Conflicts -> Slot] /\ q'[c] = row
      /\ \A d \in Conflicts \ {c} : q'[d] = q[d]
  BY DEF QIInv, QTypeOK
<1>2. TableKeeps /\ QueueKeeps /\ LiveHashUnique'
  BY <1>1 DEF TableKeeps, QueueKeeps, QIInv, LiveHashUnique, Live
<1>3. QTypeOK'
  BY <1>1 DEF QTypeOK
<1>4. ASSUME NEW d \in Pending', NEW e \in Pending',
             SameContent(q'[d].case, q'[e].case) \/ SamePair(q'[d].case, q'[e].case)
      PROVE  d = e
  <2>1. CASE d # c /\ e # c
    BY <1>1, <1>4, <2>1 DEF QIInv, OpenConflictUnique, Pending
  <2>2. CASE d = c /\ e # c
    BY <1>1, <1>4, <2>2 DEF Pending, QueueAllows, SameContent, SamePair
  <2>3. CASE d # c /\ e = c
    BY <1>1, <1>4, <2>3 DEF Pending, QueueAllows, SameContent, SamePair
  <2>4. QED BY <2>1, <2>2, <2>3
<1>5. OpenConflictUnique'
  BY <1>4 DEF OpenConflictUnique
<1>6. QueueSound'
  BY <1>1, <1>2 DEF QIInv, QueueSound
<1>7. ClientsSound'
  <2>1. SUFFICES ASSUME NEW r \in Clients PROVE ClientSound(mem', q', cl'[r])
    BY DEF ClientsSound
  <2>2. CASE cl'[r] = cl[r]
    BY <1>2, <2>2, SoundnessKept DEF QIInv, QTypeOK, ClientsSound
  <2>3. CASE cl'[r] = IdleClient
    BY <2>3, InitialValues DEF ClientSound
  <2>4. QED BY <2>2, <2>3
<1>8. QED BY <1>2, <1>3, <1>5, <1>6, <1>7 DEF QIInv

(* INSERT ... ON CONFLICT DO NOTHING, by whoever is done with the case.    *)
LEMMA EnqueueKeeps ==
    ASSUME QIInv, TypeOK', UNCHANGED mem, NEW case \in Case, CaseSound(mem, case),
           Enqueued(case), cl' \in [Clients -> Client],
           \A r \in Clients : cl'[r] = cl[r] \/ cl'[r] = IdleClient
    PROVE  QIInv'
<1>1. CASE UNCHANGED q
  <2>1. LiveHashUnique' /\ TableKeeps /\ QueueKeeps
    BY <1>1 DEF QIInv, LiveHashUnique, Live, TableKeeps, QueueKeeps
  <2>2. QTypeOK' /\ OpenConflictUnique'
    BY <1>1 DEF QIInv, QTypeOK, OpenConflictUnique, Pending
  <2>3. QueueSound'
    BY <2>1, SoundnessKept, <1>1 DEF QIInv, QTypeOK, QueueSound
  <2>4. ASSUME NEW r \in Clients PROVE ClientSound(mem', q', cl'[r])
    BY <2>1, SoundnessKept, InitialValues
       DEF QIInv, QTypeOK, ClientsSound, ClientSound
  <2>5. QED BY <2>1, <2>2, <2>3, <2>4 DEF QIInv, ClientsSound
<1>2. CASE q' # q
  <2>1. PICK c \in Conflicts :
           /\ q[c].st = "free"
           /\ q' = [q EXCEPT ![c] = [FreeSlot EXCEPT !.st = "pending", !.case = case]]
    BY <1>2 DEF Enqueued
  <2> DEFINE row == [FreeSlot EXCEPT !.st = "pending", !.case = case]
  <2>2. row \in Slot /\ row.st = "pending" /\ row.case = case
    BY InitialValues DEF Slot
  <2>3. QueueAllows(case, c)
    BY <1>2, NoConflictAssumption DEF Enqueued, QueueAllows, Pending
  <2>4. SlotSound(mem, row)
    BY <2>2 DEF SlotSound
  <2> HIDE DEF row
  <2>5. QED BY <2>1, <2>2, <2>3, <2>4, SlotWritten DEF row
<1>3. QED BY <1>1, <1>2
-----------------------------------------------------------------------------
(* A request that goes on with the same case.                              *)
LEMMA ClientAdvances ==
    ASSUME QIInv, TypeOK', LiveHashUnique', TableKeeps, UNCHANGED q,
           NEW r \in Clients, NEW new \in Client, cl[r].pc # "idle",
           new.case = cl[r].case, new.cid = cl[r].cid,
           new.pc = "mark" /\ new.res \in Destructive => Dropped(mem', new.case),
           cl' = [cl EXCEPT ![r] = new]
    PROVE  QIInv'
<1>1. QueueKeeps /\ cl[r] \in Client /\ new.case \in Case
  BY DEF QueueKeeps, QIInv, QTypeOK, Client
<1>2. ClientSound(mem, q, cl[r])
  BY DEF QIInv, ClientsSound
<1>3. CaseSound(mem', new.case)
  BY <1>1, <1>2, SoundnessKept DEF ClientSound
<1>4. ClientSound(mem', q, new)
  BY <1>2, <1>3 DEF ClientSound
<1>5. QED BY <1>4, ClientMoves

(* The same, when only the program counter moves and no memory changes.    *)
LEMMA MoveKeeps ==
    ASSUME QIInv, UNCHANGED <<mem, wr, q>>, NEW r \in Clients, cl[r].pc # "idle",
           NEW label \in {"enqueue", "apply", "race", "duplicate", "mark"},
           Move(r, label),
           label = "mark" /\ cl[r].res \in Destructive => Dropped(mem, cl[r].case)
    PROVE  QIInv'
<1> DEFINE new == [cl[r] EXCEPT !.pc = label]
<1>1. /\ new \in Client /\ new.pc = label /\ new.case = cl[r].case
      /\ new.cid = cl[r].cid /\ new.res = cl[r].res
  BY DEF QIInv, QTypeOK, Client
<1>2. cl' = [cl EXCEPT ![r] = new]
  BY DEF Move
<1> HIDE DEF new
<1>3. TypeOK' /\ LiveHashUnique' /\ TableKeeps
  BY DEF QIInv, QTypeOK, TypeOK, LiveHashUnique, Live, TableKeeps
<1>4. QED BY <1>1, <1>2, <1>3, ClientAdvances

(* A request that gives up changes nothing else.                           *)
LEMMA DoneKeeps ==
    ASSUME QIInv, UNCHANGED <<mem, wr, q>>, NEW r \in Clients, Done(r)
    PROVE  QIInv'
<1>1. TypeOK' /\ LiveHashUnique' /\ TableKeeps
  BY DEF QIInv, QTypeOK, TypeOK, LiveHashUnique, Live, TableKeeps
<1>2. QED BY <1>1, ClientLeaves

(* The case a writer hands over and the case of two stored rows are sound. *)
LEMMA IngestCaseSound ==
    ASSUME TypeOK, NEW w \in Writers, wr[w].pc = "conflict"
    PROVE  IngestCase(w) \in Case /\ CaseSound(mem, IngestCase(w))
<1>1. wr[w].id \in Ids /\ wr[w].h \in Hashes
  BY DEF TypeOK
<1>2. QED BY <1>1 DEF IngestCase, Case, CaseSound

LEMMA PatrolCaseSound ==
    ASSUME TypeOK, NEW a \in Ids, NEW b \in Ids, a # b, b \in Live(mem)
    PROVE  PatrolCase(a, b) \in Case /\ CaseSound(mem, PatrolCase(a, b))
BY DEF PatrolCase, Case, CaseSound, Live, TypeOK, Row

LEMMA LoadPairKeeps ==
    ASSUME QIInv, NEW r \in Clients, NEW a \in Ids, NEW b \in Ids,
           NEW label \in {"check", "live"}, NEW res \in {"none", "merge"},
           LoadPair(r, a, b, label, res)
    PROVE  QIInv'
<1> DEFINE new == [IdleClient EXCEPT !.pc = label, !.case = PatrolCase(a, b), !.res = res]
<1>1. PatrolCase(a, b) \in Case /\ CaseSound(mem, PatrolCase(a, b))
  BY PatrolCaseSound DEF LoadPair, QIInv, QTypeOK
<1>2. /\ new \in Client /\ new.case = PatrolCase(a, b)
      /\ new.cid = NoConflict /\ new.pc = label
  BY <1>1, InitialValues DEF Client, IdleClient, Resolutions
<1>3. cl' = [cl EXCEPT ![r] = new] /\ UNCHANGED <<mem, wr, q>>
  BY DEF LoadPair
<1> HIDE DEF new
<1>4. ClientSound(mem', q, new)
  BY <1>1, <1>2, <1>3 DEF ClientSound
<1>5. TypeOK' /\ LiveHashUnique' /\ TableKeeps
  BY <1>3 DEF QIInv, QTypeOK, TypeOK, LiveHashUnique, Live, TableKeeps
<1>6. QED BY <1>2, <1>3, <1>4, <1>5, ClientMoves

LEMMA LoadConflictKeeps ==
    ASSUME QIInv, NEW r \in Clients, NEW c \in Conflicts, NEW res \in Resolutions,
           LoadConflict(r, c, res)
    PROVE  QIInv'
<1> DEFINE label == IF q[c].case.peer = NoId THEN "apply" ELSE "live"
           new == [IdleClient EXCEPT !.pc = label, !.cid = c, !.case = q[c].case, !.res = res]
<1>1. q[c] \in Slot /\ q[c].case \in Case /\ SlotSound(mem, q[c]) /\ q[c].st = "pending"
  BY DEF QIInv, QTypeOK, QueueSound, LoadConflict, Slot
<1>2. /\ new \in Client /\ new.case = q[c].case
      /\ new.cid = c /\ new.pc \in {"apply", "live"}
  BY <1>1, InitialValues DEF Client, IdleClient
<1>3. cl' = [cl EXCEPT ![r] = new] /\ UNCHANGED <<mem, wr, q>>
  BY DEF LoadConflict
<1> HIDE DEF new
<1>4. ClientSound(mem', q, new)
  BY <1>1, <1>2, <1>3 DEF ClientSound, SlotSound
<1>5. TypeOK' /\ LiveHashUnique' /\ TableKeeps
  BY <1>3 DEF QIInv, QTypeOK, TypeOK, LiveHashUnique, Live, TableKeeps
<1>6. QED BY <1>2, <1>3, <1>4, <1>5, ClientMoves

LEMMA AgentResolveKeeps ==
    ASSUME QIInv, NEW r \in Clients, NEW w \in Writers, NEW res \in Resolutions,
           AgentResolve(r, w, res)
    PROVE  QIInv'
<1> DEFINE new == [IdleClient EXCEPT !.pc = "apply", !.case = IngestCase(w), !.res = res]
<1>1. IngestCase(w) \in Case /\ CaseSound(mem, IngestCase(w))
  BY IngestCaseSound DEF AgentResolve, QIInv, QTypeOK
<1>2. /\ new \in Client /\ new.case = IngestCase(w)
      /\ new.cid = NoConflict /\ new.pc = "apply"
  BY <1>1, InitialValues DEF Client, IdleClient
<1>3. cl' = [cl EXCEPT ![r] = new] /\ UNCHANGED <<mem, q>>
  BY DEF AgentResolve
<1> HIDE DEF new
<1>4. ClientSound(mem', q, new)
  BY <1>1, <1>2, <1>3 DEF ClientSound
<1>5. TypeOK' /\ LiveHashUnique' /\ TableKeeps
  BY <1>3, WriterKeeps DEF QIInv, QTypeOK, AgentResolve
<1>6. QED BY <1>2, <1>3, <1>4, <1>5, ClientMoves

LEMMA PersistKeeps ==
    ASSUME QIInv, NEW w \in Writers, PersistConflict(w)
    PROVE  QIInv'
<1>1. TypeOK'
  BY WriterKeeps DEF PersistConflict, QIInv, QTypeOK
<1>2. IngestCase(w) \in Case /\ CaseSound(mem, IngestCase(w))
  BY IngestCaseSound DEF PersistConflict, QIInv, QTypeOK
<1>3. QED BY <1>1, <1>2, EnqueueKeeps DEF PersistConflict, QIInv, QTypeOK

LEMMA QueueStepKeeps ==
    ASSUME QIInv, NEW r \in Clients, QueueStep(r)
    PROVE  QIInv'
<1>1. CASE CheckArbitrated(r)
  BY <1>1, DoneKeeps, MoveKeeps DEF CheckArbitrated
<1>2. CASE EnqueuePair(r)
  <2>1. cl[r] \in Client /\ cl[r].case \in Case /\ CaseSound(mem, cl[r].case)
    BY <1>2 DEF EnqueuePair, QIInv, QTypeOK, ClientsSound, ClientSound, Client
  <2>2. TypeOK' /\ cl' \in [Clients -> Client]
        /\ \A s \in Clients : cl'[s] = cl[s] \/ cl'[s] = IdleClient
    BY <1>2, InitialValues DEF EnqueuePair, Done, QIInv, QTypeOK, TypeOK
  <2>3. QED BY <1>2, <2>1, <2>2, EnqueueKeeps DEF EnqueuePair
<1>3. QED BY <1>1, <1>2 DEF QueueStep

LEMMA ReopenKeeps ==
    ASSUME QIInv, NEW c \in Conflicts, Reopen(c)
    PROVE  QIInv'
<1> DEFINE row == [q[c] EXCEPT !.st = "pending", !.res = "none", !.raced = FALSE]
<1>1. q[c] \in Slot /\ SlotSound(mem, q[c]) /\ q[c].st = "resolved"
  BY DEF Reopen, QIInv, QTypeOK, QueueSound
<1>2. row \in Slot /\ row.st = "pending" /\ row.case = q[c].case
  BY <1>1 DEF Slot
<1>3. q' = [q EXCEPT ![c] = row] /\ UNCHANGED <<mem, wr, cl>>
  BY DEF Reopen
<1> HIDE DEF row
<1>4. SlotSound(mem, row)
  BY <1>1, <1>2 DEF SlotSound
<1>5. TypeOK' /\ cl' \in [Clients -> Client] /\ QueueAllows(row.case, c)
  BY <1>2, <1>3 DEF Reopen, QIInv, QTypeOK, TypeOK
<1>6. QED BY <1>2, <1>3, <1>4, <1>5, SlotWritten

LEMMA MarkKeeps ==
    ASSUME QIInv, NEW r \in Clients, MarkResolved(r)
    PROVE  QIInv'
<1>1. cl[r] \in Client /\ ClientSound(mem, q, cl[r]) /\ cl[r].pc \in {"duplicate", "mark"}
  BY DEF MarkResolved, Marked, QIInv, QTypeOK, ClientsSound
<1>2. CASE cl[r].cid = NoConflict
  BY <1>2, DoneKeeps DEF MarkResolved
<1>3. CASE cl[r].cid # NoConflict
  <2> DEFINE c == cl[r].cid
             row == [q[c] EXCEPT !.st = "resolved", !.res = cl[r].res,
                                 !.raced = cl[r].pc = "duplicate"]
  <2>1. c \in Conflicts /\ q[c] \in Slot
    BY <1>1, <1>3 DEF Client, QIInv, QTypeOK
  <2>2. q[c].st # "free" /\ q[c].case = cl[r].case
    BY <1>1, <1>3 DEF ClientSound
  <2>3. /\ row \in Slot /\ row.st = "resolved" /\ row.case = q[c].case
        /\ row.res = cl[r].res /\ row.raced = (cl[r].pc = "duplicate")
    BY <1>1, <2>1 DEF Slot, Client
  <2>4. q' = [q EXCEPT ![c] = row]
    BY <1>3 DEF MarkResolved
  <2> HIDE DEF row
  <2>5. SlotSound(mem, row)
    BY <1>1, <2>2, <2>3 DEF SlotSound, ClientSound
  <2>6. TypeOK' /\ cl' \in [Clients -> Client] /\ UNCHANGED mem
        /\ \A s \in Clients : cl'[s] = cl[s] \/ cl'[s] = IdleClient
    BY InitialValues DEF MarkResolved, Done, QIInv, QTypeOK, TypeOK
  <2>7. QED BY <2>1, <2>3, <2>4, <2>5, <2>6, SlotWritten
<1>4. QED BY <1>2, <1>3
-----------------------------------------------------------------------------
(* Soft-deleting the loser keeps the table sound and every other row as is.*)
LEMMA LoserDropped ==
    ASSUME QIInv, NEW r \in Clients, cl[r].pc # "idle"
    PROVE  /\ WithoutLoser(r) \in [Ids -> Row]
           /\ \A i \in Ids : /\ WithoutLoser(r)[i].hash = mem[i].hash
                             /\ mem[i].st # "free" => WithoutLoser(r)[i].st # "free"
                             /\ mem[i].st = "deleted" => WithoutLoser(r)[i].st = "deleted"
           /\ \A i \in Ids \ {Loser(r)} : WithoutLoser(r)[i] = mem[i]
           /\ Live(WithoutLoser(r)) \subseteq Live(mem)
           /\ Dropped(WithoutLoser(r), cl[r].case)
<1> DEFINE table == WithoutLoser(r)
<1>1. mem \in [Ids -> Row]
  BY DEF QIInv, QTypeOK, TypeOK
<1>2. \A i \in Ids : table[i] = IF i = Loser(r) /\ mem[i].st = "live"
                                THEN [mem[i] EXCEPT !.st = "deleted"] ELSE mem[i]
  BY DEF WithoutLoser
<1>3. \A i \in Ids : /\ table[i] \in Row /\ table[i].hash = mem[i].hash
                     /\ mem[i].st = "live" /\ i = Loser(r) => table[i].st = "deleted"
                     /\ mem[i].st # "live" \/ i # Loser(r) => table[i] = mem[i]
  BY <1>1, <1>2 DEF Row
<1>4. table \in [Ids -> Row]
  BY <1>3 DEF WithoutLoser
<1>5. CaseSound(mem, cl[r].case)
  BY DEF QIInv, ClientsSound, ClientSound
<1>6. Dropped(table, cl[r].case)
  BY <1>1, <1>3, <1>5 DEF CaseSound, Dropped, Loser, Row
<1> HIDE DEF table
<1>7. Live(table) \subseteq Live(mem)
  BY <1>3 DEF Live
<1>8. QED BY <1>1, <1>3, <1>4, <1>6, <1>7 DEF table

LEMMA KeepExistingKeeps ==
    ASSUME QIInv, NEW r \in Clients, KeepExisting(r)
    PROVE  QIInv'
<1> DEFINE new == [cl[r] EXCEPT !.pc = "mark"]
<1>1. cl[r].pc = "apply" /\ mem' = WithoutLoser(r) /\ UNCHANGED <<wr, q>>
  BY DEF KeepExisting
<1>2. /\ mem' \in [Ids -> Row] /\ Live(mem') \subseteq Live(mem)
      /\ \A i \in Ids : /\ mem'[i].hash = mem[i].hash
                        /\ mem[i].st # "free" => mem'[i].st # "free"
                        /\ mem[i].st = "deleted" => mem'[i].st = "deleted"
      /\ Dropped(mem', cl[r].case)
  BY <1>1, LoserDropped
<1>3. TypeOK' /\ LiveHashUnique' /\ TableKeeps
  <2>1. TypeOK'
    BY <1>1, <1>2 DEF QIInv, QTypeOK, TypeOK
  <2>2. LiveHashUnique'
    BY <1>2 DEF QIInv, LiveHashUnique, Live
  <2>3. TableKeeps
    BY <1>2 DEF TableKeeps
  <2>4. QED BY <2>1, <2>2, <2>3
<1>4. new \in Client /\ new.case = cl[r].case /\ new.cid = cl[r].cid
  BY DEF QIInv, QTypeOK, Client
<1>5. cl' = [cl EXCEPT ![r] = new]
  BY DEF KeepExisting, Move
<1> HIDE DEF new
<1>6. QED BY <1>1, <1>2, <1>3, <1>4, <1>5, ClientAdvances

LEMMA KeepBothKeeps ==
    ASSUME QIInv, NEW r \in Clients, KeepBothInsert(r)
    PROVE  QIInv'
<1> USE ConstantsAssumption
<1>1. /\ cl[r] \in Client /\ cl[r].case \in Case /\ cl[r].pc = "apply"
      /\ cl[r].res = "keep_both" /\ UNCHANGED <<wr, q>>
      /\ cl[r].case.h \in Hashes \cup {NoHash} /\ cl[r].case.contents \in SUBSET Hashes
  BY DEF KeepBothInsert, QIInv, QTypeOK, Client, Case
<1>2. CASE UNCHANGED mem /\ Move(r, "race")
  BY <1>1, <1>2, MoveKeeps
<1>3. CASE InsertAllowed(cl[r].case.h)
  <2> DEFINE row == NewRow("live", cl[r].case.h, cl[r].case.contents)
             new == [cl[r] EXCEPT !.pc = "mark"]
  <2>1. PICK i \in Ids : mem[i].st = "free" /\ mem' = [mem EXCEPT ![i] = row]
    BY <1>3 DEF KeepBothInsert
  <2>2. row \in Row /\ row.st = "live" /\ row.hash = cl[r].case.h
    BY <1>1 DEF NewRow, Row
  <2>3. row.hash = NoHash \/ \A j \in Live(mem) \ {i} : mem[j].hash # row.hash
    BY <1>3, <2>2 DEF InsertAllowed, IndexAllows, Live
  <2>4. /\ new \in Client /\ new.case = cl[r].case /\ new.cid = cl[r].cid
        /\ new.res = "keep_both"
    BY <1>1 DEF Client
  <2>5. cl' = [cl EXCEPT ![r] = new]
    BY <1>3 DEF KeepBothInsert, Move
  <2> HIDE DEF row, new
  <2>6. mem' \in [Ids -> Row] /\ LiveHashUnique'
    BY <2>1, <2>2, <2>3, RowReplaced DEF QIInv, QTypeOK, TypeOK
  <2>7. TypeOK' /\ TableKeeps
    BY <1>1, <2>1, <2>2, <2>6 DEF QIInv, QTypeOK, TypeOK, TableKeeps
  <2>8. QED BY <1>1, <2>4, <2>5, <2>6, <2>7, ClientAdvances DEF Destructive
<1>4. QED BY <1>2, <1>3 DEF KeepBothInsert

LEMMA ReadSurvivorKeeps ==
    ASSUME QIInv, NEW r \in Clients, ReadSurvivor(r)
    PROVE  QIInv'
<1> DEFINE new == [cl[r] EXCEPT !.pc = "write", !.snap = mem[Survivor(r)]]
<1>1. cl[r] \in Client /\ cl[r].pc = "apply" /\ UNCHANGED <<mem, wr, q>>
      /\ mem[Survivor(r)] \in Row
  BY DEF ReadSurvivor, QIInv, QTypeOK, TypeOK, ClientsSound, ClientSound,
         CaseSound, Survivor
<1>2. /\ new \in Client /\ new.case = cl[r].case /\ new.cid = cl[r].cid
      /\ new.pc = "write"
  BY <1>1 DEF Client
<1>3. cl' = [cl EXCEPT ![r] = new]
  BY DEF ReadSurvivor
<1>4. TypeOK' /\ LiveHashUnique' /\ TableKeeps
  BY <1>1 DEF QIInv, QTypeOK, TypeOK, LiveHashUnique, Live, TableKeeps
<1> HIDE DEF new
<1>5. QED BY <1>1, <1>2, <1>3, <1>4, ClientAdvances

(* What the transaction of an overwrite or merge leaves behind: the loser  *)
(* dropped, the survivor rewritten and, but for an ingestion conflict      *)
(* about a deleted memory, still live.                                     *)
LEMMA ResolvedTable ==
    ASSUME QIInv, NEW r \in Clients, WriteResolved(r)
    PROVE  /\ mem' \in [Ids -> Row] /\ LiveHashUnique' /\ TableKeeps
           /\ Dropped(mem', cl[r].case)
           /\ mem'[Survivor(r)].st = mem[Survivor(r)].st
           /\ cl[r].case.h # NoHash => mem'[Survivor(r)].hash = cl[r].case.h
<1> DEFINE a == Survivor(r)
           table == WithoutLoser(r)
<1>1. /\ cl[r] \in Client /\ cl[r].case \in Case /\ cl[r].snap \in Row
      /\ cl[r].pc = "write" /\ CaseSound(mem, cl[r].case) /\ a \in Ids
  BY DEF WriteResolved, QIInv, QTypeOK, ClientsSound, ClientSound, CaseSound,
         Client, Survivor
<1>2. PICK kept \in Kept(r) :
         mem' = [table EXCEPT ![a] = ResolvedRow(cl[r].case, cl[r].snap, @, kept)]
  BY DEF WriteResolved
<1> DEFINE row == ResolvedRow(cl[r].case, cl[r].snap, table[a], kept)
<1>3. kept \in SUBSET Hashes
  BY <1>1 DEF Kept, Row
<1>4. /\ table \in [Ids -> Row] /\ Live(table) \subseteq Live(mem)
      /\ \A i \in Ids : /\ table[i].hash = mem[i].hash
                        /\ mem[i].st # "free" => table[i].st # "free"
                        /\ mem[i].st = "deleted" => table[i].st = "deleted"
      /\ \A i \in Ids \ {Loser(r)} : table[i] = mem[i]
      /\ Dropped(table, cl[r].case)
  BY <1>1, LoserDropped
<1>5. a # Loser(r)
  BY <1>1, ConstantsAssumption DEF CaseSound, Loser, Survivor
<1>6. table[a] = mem[a] /\ table[a] \in Row
  BY <1>1, <1>4, <1>5
<1>7. /\ row \in Row /\ row.st = mem[a].st
      /\ row.hash = IF cl[r].case.h = NoHash THEN mem[a].hash ELSE cl[r].case.h
  BY <1>1, <1>3, <1>6 DEF ResolvedRow, RecordPriorHash, Row, Case
<1>8. mem' = [table EXCEPT ![a] = row]
  BY <1>2
<1>9. mem[a].st = "live" => \/ cl[r].case.h = NoHash
                            \/ \A j \in Live(table) \ {a} : table[j].hash # cl[r].case.h
  BY DEF WriteResolved, WriteAllowed, IndexAllows
<1> HIDE DEF row, table
<1>10. /\ mem' \in [Ids -> Row] /\ mem'[a] = row
       /\ \A j \in Ids \ {a} : mem'[j] = table[j]
  BY <1>1, <1>4, <1>7, <1>8
<1>11. TableKeeps
  BY <1>4, <1>7, <1>10 DEF TableKeeps
<1>12. Dropped(mem', cl[r].case)
  BY <1>1, <1>4, <1>5, <1>10 DEF Dropped, CaseSound, Loser
<1>13. LiveHashUnique'
  <2> SUFFICES ASSUME NEW j \in Live(mem'), NEW k \in Live(mem'),
                      mem'[j].hash = mem'[k].hash, mem'[j].hash # NoHash
               PROVE  j = k
    BY DEF LiveHashUnique, Live
  <2>1. \A i \in Live(mem') \ {a} : i \in Live(table) /\ i \in Live(mem)
                                   /\ mem'[i].hash = mem[i].hash
                                   /\ mem'[i].hash = table[i].hash
    BY <1>4, <1>10 DEF Live
  <2>2. CASE j # a /\ k # a
    BY <2>1, <2>2 DEF QIInv, LiveHashUnique
  <2>3. CASE a \in {j, k} /\ cl[r].case.h # NoHash
    BY <1>7, <1>9, <1>10, <2>1, <2>3 DEF Live
  <2>4. CASE a \in {j, k} /\ cl[r].case.h = NoHash
    BY <1>7, <1>10, <2>1, <2>4 DEF QIInv, LiveHashUnique, Live
  <2>5. QED BY <2>2, <2>3, <2>4
<1>14. QED BY <1>7, <1>10, <1>11, <1>12, <1>13

LEMMA WriteResolvedKeeps ==
    ASSUME QIInv, NEW r \in Clients, WriteResolved(r)
    PROVE  QIInv'
<1> DEFINE new == [cl[r] EXCEPT !.pc = "mark", !.snap = FreeRow]
<1>1. cl[r].pc = "write" /\ UNCHANGED <<wr, q>>
  BY DEF WriteResolved
<1>2. mem' \in [Ids -> Row] /\ LiveHashUnique' /\ TableKeeps /\ Dropped(mem', cl[r].case)
  BY ResolvedTable
<1>3. TypeOK'
  BY <1>1, <1>2 DEF QIInv, QTypeOK, TypeOK
<1>4. new \in Client /\ new.case = cl[r].case /\ new.cid = cl[r].cid
  BY InitialValues DEF QIInv, QTypeOK, Client
<1>5. cl' = [cl EXCEPT ![r] = new]
  BY DEF WriteResolved
<1> HIDE DEF new
<1>6. QED BY <1>1, <1>2, <1>3, <1>4, <1>5, ClientAdvances

LEMMA WriteRejectedKeeps ==
    ASSUME QIInv, NEW r \in Clients, WriteRejected(r)
    PROVE  QIInv'
<1> DEFINE new == [cl[r] EXCEPT !.pc = "race", !.snap = FreeRow]
<1>1. cl[r].pc = "write" /\ UNCHANGED <<mem, wr, q>>
  BY DEF WriteRejected
<1>2. TypeOK' /\ LiveHashUnique' /\ TableKeeps
  BY <1>1 DEF QIInv, QTypeOK, TypeOK, LiveHashUnique, Live, TableKeeps
<1>3. new \in Client /\ new.case = cl[r].case /\ new.cid = cl[r].cid /\ new.pc = "race"
  BY InitialValues DEF QIInv, QTypeOK, Client
<1>4. cl' = [cl EXCEPT ![r] = new]
  BY DEF WriteRejected
<1> HIDE DEF new
<1>5. QED BY <1>1, <1>2, <1>3, <1>4, ClientAdvances

LEMMA DeleteKeeps ==
    ASSUME QIInv, NEW i \in Ids, Delete(i), UNCHANGED <<q, cl>>
    PROVE  QIInv'
<1> DEFINE row == [mem[i] EXCEPT !.st = "deleted"]
<1>1. row \in Row /\ row.st = "deleted" /\ mem[i].st = "live"
  BY DEF Delete, QIInv, QTypeOK, TypeOK, Row
<1>2. mem' = [mem EXCEPT ![i] = row] /\ mem \in [Ids -> Row] /\ UNCHANGED wr
  BY DEF Delete, QIInv, QTypeOK, TypeOK
<1> HIDE DEF row
<1>3. mem' \in [Ids -> Row] /\ LiveHashUnique'
  BY <1>1, <1>2, RowReplaced DEF QIInv
<1>4. TypeOK' /\ TableKeeps
  BY <1>1, <1>2, <1>3 DEF QIInv, QTypeOK, TypeOK, TableKeeps
<1>5. QED BY <1>3, <1>4, StoreMoves

LEMMA QNextKeepsIInv == QIInv /\ [QNext]_vars => QIInv'
<1> SUFFICES ASSUME QIInv, [QNext]_vars PROVE QIInv'
  OBVIOUS
<1>1. ASSUME NEW r \in Clients, Request(r) PROVE QIInv'
  <2>1. ASSUME NEW a \in Ids, NEW b \in Ids, QueueFinding(r, a, b) \/ MergeFinding(r, a, b)
        PROVE  QIInv'
    BY <2>1, LoadPairKeeps DEF QueueFinding, MergeFinding
  <2>2. QED BY <1>1, <2>1, LoadConflictKeeps, AgentResolveKeeps DEF Request
<1>2. ASSUME NEW r \in Clients, ResolveStep(r) PROVE QIInv'
  <2>1. CASE CheckSurvivor(r)
    BY <2>1, MoveKeeps, DoneKeeps DEF CheckSurvivor
  <2>2. CASE KeepBothStored(r)
    BY <2>2, MoveKeeps DEF KeepBothStored, Destructive
  <2>3. CASE WriteRefused(r)
    BY <2>3, DoneKeeps DEF WriteRefused
  <2>4. CASE ResolveRace(r)
    BY <2>4, MoveKeeps, DoneKeeps DEF ResolveRace
  <2>5. QED
    BY <1>2, <2>1, <2>2, <2>3, <2>4, KeepExistingKeeps, KeepBothKeeps,
       ReadSurvivorKeeps, WriteResolvedKeeps, WriteRejectedKeeps, MarkKeeps
       DEF ResolveStep
<1>3. ASSUME NEW r \in Clients, Crash(r) PROVE QIInv'
  BY <1>3, DoneKeeps DEF Crash
<1>4. ASSUME NEW w \in Writers, WriterStep(w), UNCHANGED <<q, cl>> PROVE QIInv'
  BY <1>4, WriterKeeps, StoreMoves DEF QIInv, QTypeOK
<1>5. CASE UNCHANGED vars
  <2>1. TypeOK' /\ LiveHashUnique' /\ TableKeeps
    BY <1>5 DEF vars, QIInv, QTypeOK, TypeOK, LiveHashUnique, Live, TableKeeps
  <2>2. QED BY <1>5, <2>1, StoreMoves DEF vars
<1>6. QED
  BY <1>1, <1>2, <1>3, <1>4, <1>5, QueueStepKeeps, PersistKeeps, ReopenKeeps,
     DeleteKeeps DEF QNext
-----------------------------------------------------------------------------
LEMMA QSpecIInv == QSpec => []QIInv
BY QInitIInv, QNextKeepsIInv, PTL DEF QSpec

(* Type correctness of table, queue, writers and requests.                 *)
THEOREM QueueTypeCorrect == QSpec => []QTypeOK
<1>1. QIInv => QTypeOK
  BY DEF QIInv
<1>2. QED BY <1>1, QSpecIInv, PTL

(* The unique index on live hashes also holds against the resolution       *)
(* pipeline, which moves hashes between rows and inserts past the gate.    *)
THEOREM HashesStayUniqueUnderResolution == QSpec => []LiveHashUnique
<1>1. QIInv => LiveHashUnique
  BY DEF QIInv
<1>2. QED BY <1>1, QSpecIInv, PTL

(* No two open conflicts are about the same content or the same pair.      *)
THEOREM OpenConflictsUnique == QSpec => []OpenConflictUnique
<1>1. QIInv => OpenConflictUnique
  BY DEF QIInv
<1>2. QED BY <1>1, QSpecIInv, PTL

(* A destructive resolution on record that lost no hash race has dropped   *)
(* its loser for good.                                                     *)
THEOREM LoserGone == QSpec => []LoserGoneUnlessRaced
<1>1. ASSUME QIInv, NEW c \in Conflicts, DestroyedOnRecord(c), ~q[c].raced
      PROVE  q[c].case.peer \notin Live(mem)
  <2>1. SlotSound(mem, q[c])
    BY <1>1 DEF QIInv, QueueSound
  <2>2. mem[q[c].case.peer].st = "deleted"
    BY <1>1, <2>1 DEF SlotSound, Dropped, DestroyedOnRecord
  <2>3. QED BY <2>2 DEF Live
<1>2. QIInv => LoserGoneUnlessRaced
  BY <1>1 DEF LoserGoneUnlessRaced
<1>3. QED BY <1>2, QSpecIInv, PTL
-----------------------------------------------------------------------------
(* Only its own write takes a request from "write" to "mark".              *)
LEMMA WrittenByItself ==
    ASSUME QIInv, QNext, NEW r \in Clients, cl[r].pc = "write", cl'[r].pc = "mark"
    PROVE  WriteResolved(r)
<1>1. cl[r] \in Client /\ cl \in [Clients -> Client]
  BY DEF QIInv, QTypeOK
<1>3. ~Done(r) /\ cl' # cl
  BY <1>1, InitialValues DEF Done
<1>4. ASSUME NEW s \in Clients, Request(s) \/ QueueStep(s) \/ ResolveStep(s) \/ Crash(s)
      PROVE  s = r
  <2>1. SUFFICES ASSUME s # r PROVE FALSE
    OBVIOUS
  <2>2. ASSUME NEW a \in Ids, NEW b \in Ids, QueueFinding(s, a, b) \/ MergeFinding(s, a, b)
        PROVE  FALSE
    BY <1>1, <2>1, <2>2 DEF QueueFinding, MergeFinding, LoadPair
  <2>3. ASSUME NEW c \in Conflicts, NEW res \in Resolutions, LoadConflict(s, c, res)
        PROVE  FALSE
    BY <1>1, <2>1, <2>3 DEF LoadConflict
  <2>4. ASSUME NEW w \in Writers, NEW res \in Resolutions, AgentResolve(s, w, res)
        PROVE  FALSE
    BY <1>1, <2>1, <2>4 DEF AgentResolve
  <2>5. CASE QueueStep(s) \/ Crash(s)
    BY <1>1, <2>1, <2>5 DEF QueueStep, CheckArbitrated, EnqueuePair, Crash, Done, Move
  <2>6. CASE ResolveStep(s)
    BY <1>1, <2>1, <2>6
       DEF ResolveStep, CheckSurvivor, KeepExisting, KeepBothStored, KeepBothInsert,
           ReadSurvivor, WriteResolved, WriteRefused, WriteRejected, ResolveRace,
           MarkResolved, Done, Move
  <2>7. QED BY <1>4, <2>2, <2>3, <2>4, <2>5, <2>6 DEF Request
<1>5. Request(r) \/ QueueStep(r) \/ ResolveStep(r) \/ Crash(r)
  BY <1>3, <1>4 DEF QNext, PersistConflict, Reopen
<1>6. ~Request(r) /\ ~QueueStep(r) /\ ~Crash(r)
  BY <1>3 DEF Request, QueueFinding, MergeFinding, LoadPair, LoadConflict,
              AgentResolve, QueueStep, CheckArbitrated, EnqueuePair, Crash
<1>7. ~WriteRejected(r)
  BY <1>1 DEF WriteRejected, Client
<1>8. ~MarkResolved(r) /\ ~KeepExisting(r) /\ ~KeepBothInsert(r)
      /\ ~KeepBothStored(r) /\ ~ReadSurvivor(r)
  BY DEF MarkResolved, Marked, KeepExisting, KeepBothInsert, KeepBothStored,
         ReadSurvivor
<1>9. ~CheckSurvivor(r) /\ ~WriteRefused(r) /\ ~ResolveRace(r)
  BY <1>3 DEF CheckSurvivor, WriteRefused, ResolveRace
<1>10. QED BY <1>5, <1>6, <1>7, <1>8, <1>9 DEF ResolveStep

KeepsSurvivor ==
    \A r \in Clients :
        cl[r].pc = "write" /\ IsPatrol(r) /\ cl'[r].pc = "mark"
            => /\ mem'[Survivor(r)].st = "live"
               /\ {cl[r].case.h} \ {NoHash} \subseteq GatedBy(mem'[Survivor(r)])

(* The write that drops the loser leaves the survivor live and answering   *)
(* for the loser's hash.                                                   *)
THEOREM SurvivorKept == QSpec => ArbitrationKeepsSurvivor
<1>1. ASSUME QIInv, QNext PROVE KeepsSurvivor
  <2> SUFFICES ASSUME NEW r \in Clients, cl[r].pc = "write", IsPatrol(r),
                      cl'[r].pc = "mark"
               PROVE  /\ mem'[Survivor(r)].st = "live"
                      /\ {cl[r].case.h} \ {NoHash} \subseteq GatedBy(mem'[Survivor(r)])
    BY DEF KeepsSurvivor
  <2>1. WriteResolved(r)
    BY <1>1, WrittenByItself
  <2>2. mem[Survivor(r)].st = "live"
    BY <2>1 DEF WriteResolved, SurvivorGuard, Live
  <2>3. /\ mem'[Survivor(r)].st = "live"
        /\ cl[r].case.h # NoHash => mem'[Survivor(r)].hash = cl[r].case.h
    BY <1>1, <2>1, <2>2, ResolvedTable
  <2>4. QED BY <2>3 DEF GatedBy
<1>2. QIInv /\ [QNext]_vars => [KeepsSurvivor]_vars
  BY <1>1
<1>3. QSpec => [][KeepsSurvivor]_vars
  BY <1>2, QSpecIInv, PTL DEF QSpec
<1>4. QED BY <1>3 DEF KeepsSurvivor, ArbitrationKeepsSurvivor
=============================================================================
