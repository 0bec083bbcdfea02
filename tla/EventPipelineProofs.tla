-------------------------- MODULE EventPipelineProofs --------------------------
(***************************************************************************)
(* TLAPS proofs about EventPipeline, for any deliveries, keys, caps,       *)
(* windows and severity thresholds.                                        *)
(***************************************************************************)
EXTENDS EventPipeline, FiniteSetTheorems, TLAPS

Verdict == [known : BOOLEAN, severity : Nat]

AnalysisRecord == [st : {"none", "skipped", "failed", "completed"},
                   verdict : Verdict, notified : BOOLEAN]

Intaking == {"log", "extract", "update", "failing"}
Analysing == {"analyse", "push", "persist"}
Composing == {"insert", "compose"}

Task == [pc : {"new", "gate", "end"} \cup Intaking \cup Analysing,
         key : Keys \cup {NoKey}, record : AnalysisRecord]

RunPc == {"idle", "start", "announce", "end"} \cup Composing

(* Everything but the history variables has its type.                      *)
PipelineTypeOK ==
    /\ task \in [Deliveries -> Task]
    /\ status \in [Deliveries -> {"none", "received", "failed", "processed",
                                  "conflict_pending"}]
    /\ kept \in [Deliveries -> {"nowhere", "memory", "conflict"}]
    /\ cool \in [Keys -> Nat] /\ draftCool \in [Keys -> Nat] /\ began \in [Keys -> Nat]
    /\ slots \in [intake : Nat, event : Nat, scenario : Nat]
    /\ run \in [Runs -> RunPc]
    /\ analysis \in [Deliveries -> AnalysisRecord]

(* A counter and the finite set of tasks that hold its slots.              *)
Held(n, S) == IsFiniteSet(S) /\ n = Cardinality(S)

SlotsHeld ==
    /\ Held(slots.intake, InIntake)
    /\ Held(slots.event, InAnalysis)
    /\ Held(slots.scenario, InScenario)

(* Cooldown windows are exactly those of the analyses that began.          *)
WindowsBacked == cool = began

Sent(d) == d \in answered \/ <<"analysis", d>> \in shown

Drafted(d) == run[d] # "idle"

(* A record says that the push was answered exactly when it was; a card    *)
(* goes out, answered or not, only for a verdict worth one.                *)
Agrees(record, d) ==
    /\ record.notified <=> d \in answered
    /\ Sent(d) => record.st = "completed" /\ ShouldNotify(record.verdict)

Stored(d) == kept[d] # "nowhere" /\ status[d] = FinalStatus(kept[d])

(* What is true of a delivery by the place its task has reached.           *)
Early(d) ==
    /\ task[d].pc \in {"new", "log"} => status[d] = "none"
    /\ task[d].pc \in {"extract", "update"} => status[d] = "received"
    /\ task[d].pc = "failing" => status[d] = "received" \/ Stored(d)
    /\ task[d].pc = "update" => kept[d] # "nowhere"
    /\ status[d] = "received" =>
          task[d].pc \in {"extract", "update", "failing"} \/ d \in orphan

Judged(d) ==
    /\ task[d].pc \in {"gate"} \cup Analysing => Stored(d)
    /\ task[d].pc # "end" => analysis[d] = NoRecord /\ ~Drafted(d)
    /\ task[d].pc \notin {"persist", "end"} => ~Sent(d)
    /\ task[d].pc = "push" =>
          /\ task[d].record.st = "completed" /\ ~task[d].record.notified
          /\ ShouldNotify(task[d].record.verdict)
    /\ task[d].pc = "persist" =>
          Agrees(task[d].record, d) /\ task[d].record.st \in {"failed", "completed"}

Closed(d) ==
    /\ analysis[d] # NoRecord \/ Sent(d) \/ Drafted(d) => Stored(d)
    /\ analysis[d] # NoRecord =>
          /\ analysis[d].st # "none" /\ Agrees(analysis[d], d)
          /\ Drafted(d) => Qualifies(analysis[d])
    /\ <<"draft", d>> \in shown => Drafted(d)
    /\ task[d].pc = "end" /\ d \notin unsaid
          /\ status[d] \in {"processed", "conflict_pending"} => analysis[d] # NoRecord

Stages == \A d \in Deliveries : Early(d) /\ Judged(d) /\ Closed(d)

PInv == PipelineTypeOK /\ SlotsHeld /\ WindowsBacked /\ Stages
-----------------------------------------------------------------------------
(* Taking a slot, and SlotLimiter.release, which stops at zero.            *)
LEMMA HeldAdd ==
    ASSUME NEW S, NEW n, Held(n, S), NEW x, x \notin S
    PROVE  Held(n + 1, S \cup {x})
BY FS_AddElement DEF Held

LEMMA HeldRemove ==
    ASSUME NEW S, NEW n, Held(n, S), NEW x \in S
    PROVE  Held(IF n > 0 THEN n - 1 ELSE 0, S \ {x})
<1>1. /\ IsFiniteSet(S \ {x}) /\ Cardinality(S \ {x}) = Cardinality(S) - 1
  BY FS_RemoveElement DEF Held
<1>2. Cardinality(S) \in Nat /\ Cardinality(S \ {x}) \in Nat
  BY <1>1, FS_CardinalityType DEF Held
<1>3. QED BY <1>1, <1>2 DEF Held

LEMMA HeldNone == Held(0, {})
BY FS_EmptySet DEF Held

LEMMA InitialRecords ==
    /\ NoRecord \in AnalysisRecord /\ Skipped \in AnalysisRecord
    /\ NoRecord.st = "none" /\ ~NoRecord.notified
    /\ Skipped.st = "skipped" /\ ~Skipped.notified
BY DEF NoRecord, Skipped, Record, NoVerdict, AnalysisRecord, Verdict

LEMMA InitPInv == Init => PInv
<1> SUFFICES ASSUME Init PROVE PInv
  OBVIOUS
<1> USE InitialRecords, PipelineAssumption
<1>1. PipelineTypeOK
  BY DEF Init, PipelineTypeOK, Task, Zero, RunPc
<1>2. InIntake = {} /\ InAnalysis = {} /\ InScenario = {}
  BY DEF Init, InIntake, InAnalysis, InScenario
<1>3. SlotsHeld
  BY <1>2, HeldNone DEF Init, SlotsHeld
<1>4. WindowsBacked
  BY DEF Init, WindowsBacked
<1>5. Stages
  BY DEF Init, Stages, Early, Judged, Closed, Analysing, Sent, Drafted, Runs
<1>6. QED BY <1>1, <1>3, <1>4, <1>5 DEF PInv
-----------------------------------------------------------------------------
(* The tasks that hold slots after one delivery moved.                     *)
LEMMA HoldersAfterMove ==
    ASSUME NEW d \in Deliveries, \A e \in Deliveries \ {d} : task'[e] = task[e]
    PROVE  /\ d \in InIntake <=> task[d].pc \in Intaking
           /\ d \in InAnalysis <=> task[d].pc \in Analysing
           /\ (task[d].pc \in Intaking <=> task'[d].pc \in Intaking)
                 => InIntake' = InIntake
           /\ task'[d].pc \in Intaking => InIntake' = InIntake \cup {d}
           /\ task'[d].pc \notin Intaking => InIntake' = InIntake \ {d}
           /\ (task[d].pc \in Analysing <=> task'[d].pc \in Analysing)
                 => InAnalysis' = InAnalysis
           /\ task'[d].pc \in Analysing => InAnalysis' = InAnalysis \cup {d}
           /\ task'[d].pc \notin Analysing => InAnalysis' = InAnalysis \ {d}
<1>1. (task[d].pc \in Intaking <=> task'[d].pc \in Intaking) => InIntake' = InIntake
  BY DEF InIntake, Intaking
<1>2. (task[d].pc \in Analysing <=> task'[d].pc \in Analysing) => InAnalysis' = InAnalysis
  BY DEF InAnalysis, Analysing
<1>3. QED BY <1>1, <1>2 DEF InIntake, InAnalysis, Intaking, Analysing

(* Where a delivery's step leaves the slots alone, takes or returns one.   *)
LEMMA SlotsKept ==
    ASSUME SlotsHeld, NEW d \in Deliveries,
           \A e \in Deliveries \ {d} : task'[e] = task[e],
           task[d].pc \in Intaking <=> task'[d].pc \in Intaking,
           task[d].pc \in Analysing <=> task'[d].pc \in Analysing,
           UNCHANGED slots, InScenario' = InScenario
    PROVE  SlotsHeld'
<1>1. InIntake' = InIntake /\ InAnalysis' = InAnalysis
  BY HoldersAfterMove
<1>2. QED BY <1>1 DEF SlotsHeld

LEMMA IntakeSlots ==
    ASSUME SlotsHeld, slots \in [intake : Nat, event : Nat, scenario : Nat],
           NEW d \in Deliveries,
           \A e \in Deliveries \ {d} : task'[e] = task[e],
           \/ /\ task[d].pc \notin Intaking /\ task'[d].pc \in Intaking
              /\ Acquire("intake")
           \/ /\ task[d].pc \in Intaking /\ task'[d].pc \notin Intaking
              /\ Release("intake"),
           task[d].pc \notin Analysing /\ task'[d].pc \notin Analysing,
           InScenario' = InScenario
    PROVE  SlotsHeld'
<1>1. slots'.event = slots.event /\ slots'.scenario = slots.scenario
  BY DEF Acquire, Release, Released
<1>2. InAnalysis' = InAnalysis
  BY HoldersAfterMove
<1>3. Held(slots'.intake, InIntake')
  <2>1. CASE task'[d].pc \in Intaking
    <3>1. slots'.intake = slots.intake + 1
      BY <2>1 DEF Acquire
    <3>2. d \notin InIntake /\ InIntake' = InIntake \cup {d}
      BY <2>1, HoldersAfterMove
    <3>3. QED BY <3>1, <3>2, HeldAdd DEF SlotsHeld
  <2>2. CASE task'[d].pc \notin Intaking
    <3>1. slots'.intake = IF slots.intake > 0 THEN slots.intake - 1 ELSE 0
      BY <2>2 DEF Release, Released
    <3>2. d \in InIntake /\ InIntake' = InIntake \ {d}
      BY <2>2, HoldersAfterMove
    <3>3. QED BY <3>1, <3>2, HeldRemove DEF SlotsHeld
  <2>3. QED BY <2>1, <2>2
<1>4. QED BY <1>1, <1>2, <1>3 DEF SlotsHeld

LEMMA EventSlots ==
    ASSUME SlotsHeld, slots \in [intake : Nat, event : Nat, scenario : Nat],
           NEW d \in Deliveries,
           \A e \in Deliveries \ {d} : task'[e] = task[e],
           \/ /\ task[d].pc \notin Analysing /\ task'[d].pc \in Analysing
              /\ Acquire("event")
           \/ /\ task[d].pc \in Analysing /\ task'[d].pc \notin Analysing
              /\ Release("event"),
           task[d].pc \notin Intaking /\ task'[d].pc \notin Intaking,
           InScenario' = InScenario
    PROVE  SlotsHeld'
<1>1. slots'.intake = slots.intake /\ slots'.scenario = slots.scenario
  BY DEF Acquire, Release, Released
<1>2. InIntake' = InIntake
  BY HoldersAfterMove
<1>3. Held(slots'.event, InAnalysis')
  <2>1. CASE task'[d].pc \in Analysing
    <3>1. slots'.event = slots.event + 1
      BY <2>1 DEF Acquire
    <3>2. d \notin InAnalysis /\ InAnalysis' = InAnalysis \cup {d}
      BY <2>1, HoldersAfterMove
    <3>3. QED BY <3>1, <3>2, HeldAdd DEF SlotsHeld
  <2>2. CASE task'[d].pc \notin Analysing
    <3>1. slots'.event = IF slots.event > 0 THEN slots.event - 1 ELSE 0
      BY <2>2 DEF Release, Released
    <3>2. d \in InAnalysis /\ InAnalysis' = InAnalysis \ {d}
      BY <2>2, HoldersAfterMove
    <3>3. QED BY <3>1, <3>2, HeldRemove DEF SlotsHeld
  <2>3. QED BY <2>1, <2>2
<1>4. QED BY <1>1, <1>2, <1>3 DEF SlotsHeld

(* Nothing about a delivery changes but its own task's doing.              *)
Untouched(e) ==
    /\ task'[e] = task[e] /\ status'[e] = status[e] /\ kept'[e] = kept[e]
    /\ analysis'[e] = analysis[e] /\ run'[e] = run[e]
    /\ (Sent(e)' <=> Sent(e)) /\ (e \in answered' <=> e \in answered)
    /\ <<"draft", e>> \in shown' <=> <<"draft", e>> \in shown
    /\ e \in unsaid' <=> e \in unsaid
    /\ e \in orphan => e \in orphan'

LEMMA UntouchedKeeps ==
    ASSUME NEW e \in Deliveries, Early(e), Judged(e), Closed(e), Untouched(e)
    PROVE  Early(e)' /\ Judged(e)' /\ Closed(e)'
<1>1. Stored(e)' <=> Stored(e)
  BY DEF Stored, Untouched
<1>2. Drafted(e)' <=> Drafted(e)
  BY DEF Drafted, Untouched
<1>3. Early(e)'
  BY <1>1 DEF Early, Untouched
<1>4. Judged(e)'
  BY <1>1, <1>2 DEF Judged, Untouched, Agrees
<1>5. Closed(e)'
  BY <1>1, <1>2 DEF Closed, Untouched, Agrees
<1>6. QED BY <1>3, <1>4, <1>5

(* A step of one delivery keeps what is true of every delivery.            *)
LEMMA StagesKept ==
    ASSUME Stages, NEW d \in Deliveries, \A e \in Deliveries \ {d} : Untouched(e),
           Early(d)', Judged(d)', Closed(d)'
    PROVE  Stages'
BY UntouchedKeeps DEF Stages

-----------------------------------------------------------------------------
LEMMA RefuseKeeps ==
    ASSUME PInv, NEW d \in Deliveries, Refuse(d) PROVE PInv'
<1> USE DEF PInv, PipelineTypeOK
<1>1. PICK st \in {"none", "failed"} : status' = [status EXCEPT ![d] = st]
  BY DEF Refuse
<1>2. /\ task[d].pc = "new" /\ task' = [task EXCEPT ![d].pc = "end"]
      /\ UNCHANGED <<kept, cool, draftCool, began, slots, run, orphan, analysis,
                     answered, shown, unsaid>>
  BY DEF Refuse, Goto, Windows, Reports
<1>3. PipelineTypeOK' /\ WindowsBacked'
  BY <1>1, <1>2 DEF Task, WindowsBacked
<1>4. SlotsHeld'
  <2>1. /\ \A e \in Deliveries \ {d} : task'[e] = task[e]
        /\ task'[d].pc = "end" /\ InScenario' = InScenario
    BY <1>2 DEF Task, InScenario
  <2>2. QED BY <1>2, <2>1, SlotsKept DEF Intaking, Analysing
<1>5. Early(d)' /\ Judged(d)' /\ Closed(d)'
  BY <1>1, <1>2 DEF Stages, Early, Judged, Closed, Analysing, Sent, Drafted
<1>6. \A e \in Deliveries \ {d} : Untouched(e)
  BY <1>1, <1>2 DEF Untouched, Sent
<1>7. Stages'
  BY <1>5, <1>6, StagesKept
<1>8. QED BY <1>3, <1>4, <1>7

LEMMA ReceiveKeeps ==
    ASSUME PInv, NEW d \in Deliveries, NEW k \in Keys \cup {NoKey}, Receive(d, k)
    PROVE  PInv'
<1> USE DEF PInv, PipelineTypeOK
<1>1. /\ task[d].pc = "new" /\ task' = [task EXCEPT ![d].pc = "log", ![d].key = k]
      /\ slots' = [slots EXCEPT !.intake = @ + 1]
      /\ UNCHANGED <<status, kept, cool, draftCool, began, run, orphan, analysis,
                     answered, shown, unsaid>>
  BY DEF Receive, Acquire, Windows, Reports
<1>2. /\ task'[d].pc = "log" /\ task' \in [Deliveries -> Task]
      /\ \A e \in Deliveries \ {d} : task'[e] = task[e]
  BY <1>1 DEF Task, Intaking
<1>3. PipelineTypeOK' /\ WindowsBacked'
  BY <1>1, <1>2 DEF WindowsBacked
<1>4. SlotsHeld'
  <2>1. task[d].pc \notin Intaking /\ task'[d].pc \in Intaking
        /\ task[d].pc \notin Analysing /\ task'[d].pc \notin Analysing
    BY <1>1, <1>2 DEF Intaking, Analysing
  <2>2. InScenario' = InScenario
    BY <1>1 DEF InScenario
  <2>3. QED BY <1>1, <1>2, <2>1, <2>2, IntakeSlots DEF Acquire
<1>5. Early(d)' /\ Judged(d)' /\ Closed(d)'
  BY <1>1, <1>2 DEF Stages, Early, Judged, Closed, Analysing, Sent, Drafted, Stored
<1>6. \A e \in Deliveries \ {d} : Untouched(e)
  BY <1>1, <1>2 DEF Untouched, Sent
<1>7. Stages'
  BY <1>5, <1>6, StagesKept
<1>8. QED BY <1>3, <1>4, <1>7

LEMMA LogKeeps ==
    ASSUME PInv, NEW d \in Deliveries, LogDelivery(d) PROVE PInv'
<1> USE DEF PInv, PipelineTypeOK
<1>1. /\ task[d].pc = "log"
      /\ UNCHANGED <<kept, cool, draftCool, began, run, analysis, answered, shown, unsaid>>
  BY DEF LogDelivery, Windows, Reports
<1>2. InScenario' = InScenario
  BY <1>1 DEF InScenario
<1>3. CASE /\ status' = [status EXCEPT ![d] = "received"]
           /\ Goto(d, "extract") /\ UNCHANGED <<slots, orphan>>
  <2>1. /\ task' \in [Deliveries -> Task] /\ task'[d].pc = "extract"
        /\ \A e \in Deliveries \ {d} : task'[e] = task[e]
    BY <1>3 DEF Goto, Task, Intaking
  <2>2. PipelineTypeOK' /\ WindowsBacked'
    BY <1>1, <1>3, <2>1 DEF WindowsBacked
  <2>3. SlotsHeld'
    BY <1>1, <1>2, <1>3, <2>1, SlotsKept DEF Intaking, Analysing
  <2>4. Early(d)' /\ Judged(d)' /\ Closed(d)'
    BY <1>1, <1>3, <2>1 DEF Stages, Early, Judged, Closed, Analysing, Sent, Drafted
  <2>5. \A e \in Deliveries \ {d} : Untouched(e)
    BY <1>1, <1>3, <2>1 DEF Untouched, Sent
  <2>6. QED BY <2>2, <2>3, <2>4, <2>5, StagesKept
<1>4. ASSUME NEW committed \in BOOLEAN,
             status' = [status EXCEPT ![d] = IF committed THEN "received" ELSE @],
             orphan' = IF committed THEN orphan \cup {d} ELSE orphan,
             slots' = SlotsAfterLogFailure, Goto(d, "end")
      PROVE  PInv'
  <2>1. /\ task' \in [Deliveries -> Task] /\ task'[d].pc = "end"
        /\ \A e \in Deliveries \ {d} : task'[e] = task[e]
    BY <1>4 DEF Goto, Task, Intaking
  <2>2. PipelineTypeOK' /\ WindowsBacked'
    <3>1. status' \in [Deliveries -> {"none", "received", "failed", "processed",
                                      "conflict_pending"}]
      BY <1>4
    <3>2. slots' \in [intake : Nat, event : Nat, scenario : Nat]
      BY <1>4 DEF SlotsAfterLogFailure, Released
    <3>3. QED BY <1>1, <2>1, <3>1, <3>2 DEF WindowsBacked
  <2>3. SlotsHeld'
    BY <1>1, <1>2, <1>4, <2>1, IntakeSlots
       DEF Intaking, Analysing, Release, SlotsAfterLogFailure
  <2>4. Early(d)' /\ Judged(d)' /\ Closed(d)'
    BY <1>1, <1>4, <2>1 DEF Stages, Early, Judged, Closed, Analysing, Sent, Drafted
  <2>5. \A e \in Deliveries \ {d} : Untouched(e)
    BY <1>1, <1>4, <2>1 DEF Untouched, Sent
  <2>6. QED BY <2>2, <2>3, <2>4, <2>5, StagesKept
<1>5. QED BY <1>3, <1>4 DEF LogDelivery

LEMMA ProcessKeeps ==
    ASSUME PInv, NEW d \in Deliveries, Process(d) PROVE PInv'
<1> USE DEF PInv, PipelineTypeOK
<1>1. /\ task[d].pc = "extract"
      /\ UNCHANGED <<status, slots, cool, draftCool, began, run, analysis, answered, shown,
                     unsaid, orphan>>
  BY DEF Process, Windows, Reports
<1>2. PICK label \in {"update", "failing"}, place \in {kept[d], "memory", "conflict"} :
         /\ kept' = [kept EXCEPT ![d] = place]
         /\ task' = [task EXCEPT ![d].pc = label]
         /\ label = "update" => place # "nowhere"
  <2>1. kept = [kept EXCEPT ![d] = kept[d]]
    OBVIOUS
  <2>2. QED BY <2>1 DEF Process, Goto
<1>3. /\ task' \in [Deliveries -> Task] /\ task'[d].pc = label
      /\ \A e \in Deliveries \ {d} : task'[e] = task[e]
  BY <1>2 DEF Task, Intaking
<1>4. PipelineTypeOK' /\ WindowsBacked'
  BY <1>1, <1>2, <1>3 DEF WindowsBacked
<1>5. SlotsHeld'
  <2>1. InScenario' = InScenario
    BY <1>1 DEF InScenario
  <2>2. QED BY <1>1, <1>3, <2>1, SlotsKept DEF Intaking, Analysing
<1>6. Early(d)' /\ Judged(d)' /\ Closed(d)'
  BY <1>1, <1>2, <1>3 DEF Stages, Early, Judged, Closed, Analysing, Sent, Drafted
<1>7. \A e \in Deliveries \ {d} : Untouched(e)
  BY <1>1, <1>2, <1>3 DEF Untouched, Sent
<1>8. QED BY <1>4, <1>5, <1>6, <1>7, StagesKept

LEMMA UpdateKeeps ==
    ASSUME PInv, NEW d \in Deliveries, Update(d) PROVE PInv'
<1> USE DEF PInv, PipelineTypeOK
<1>1. /\ task[d].pc = "update"
      /\ UNCHANGED <<kept, cool, draftCool, began, run, analysis, answered, shown, unsaid, orphan>>
  BY DEF Update, Windows, Reports
<1>2. InScenario' = InScenario
  BY <1>1 DEF InScenario
<1>3. PICK committed \in BOOLEAN, raised \in BOOLEAN :
        /\ committed \/ raised
        /\ status' = [status EXCEPT ![d] = IF committed THEN FinalStatus(kept[d]) ELSE @]
        /\ IF raised THEN Goto(d, AfterUpdateError) /\ UNCHANGED slots
           ELSE Goto(d, "gate") /\ Release("intake")
  BY DEF Update
<1>4. status' \in [Deliveries -> {"none", "received", "failed", "processed",
                                  "conflict_pending"}]
  BY <1>3 DEF FinalStatus
<1>5. IF committed THEN Stored(d)' /\ status'[d] # "received" ELSE status'[d] = "received"
  BY <1>1, <1>3 DEF Stages, Early, Stored, FinalStatus
<1>6. CASE raised
  <2>1. /\ task' \in [Deliveries -> Task] /\ task'[d].pc = "failing"
        /\ \A e \in Deliveries \ {d} : task'[e] = task[e]
    <3>1. task' = [task EXCEPT ![d].pc = "failing"]
      BY <1>3, <1>6 DEF Goto, AfterUpdateError
    <3>2. QED BY <3>1 DEF Task, Intaking
  <2>2. PipelineTypeOK' /\ WindowsBacked'
    BY <1>1, <1>3, <1>4, <1>6, <2>1 DEF WindowsBacked
  <2>3. SlotsHeld'
    BY <1>1, <1>2, <1>3, <1>6, <2>1, SlotsKept DEF Intaking, Analysing
  <2>4. Early(d)' /\ Judged(d)' /\ Closed(d)'
    BY <1>1, <1>5, <2>1 DEF Stages, Early, Judged, Closed, Analysing, Sent, Drafted
  <2>5. \A e \in Deliveries \ {d} : Untouched(e)
    BY <1>1, <1>3, <2>1 DEF Untouched, Sent
  <2>6. QED BY <2>2, <2>3, <2>4, <2>5, StagesKept
<1>7. CASE ~raised
  <2>1. /\ task' \in [Deliveries -> Task] /\ task'[d].pc = "gate"
        /\ \A e \in Deliveries \ {d} : task'[e] = task[e]
    BY <1>1, <1>3, <1>7 DEF Goto, Task
  <2>2. PipelineTypeOK' /\ WindowsBacked'
    <3>1. slots' \in [intake : Nat, event : Nat, scenario : Nat]
      BY <1>3, <1>7 DEF Release, Released
    <3>2. QED BY <1>1, <1>4, <2>1, <3>1 DEF WindowsBacked
  <2>3. SlotsHeld'
    BY <1>1, <1>2, <1>3, <1>7, <2>1, IntakeSlots DEF Intaking, Analysing
  <2>4. Early(d)' /\ Judged(d)' /\ Closed(d)'
    BY <1>1, <1>3, <1>5, <1>7, <2>1
       DEF Stages, Early, Judged, Closed, Analysing, Sent, Drafted
  <2>5. \A e \in Deliveries \ {d} : Untouched(e)
    BY <1>1, <1>3, <2>1 DEF Untouched, Sent
  <2>6. QED BY <2>2, <2>3, <2>4, <2>5, StagesKept
<1>8. QED BY <1>6, <1>7

LEMMA RecordFailureKeeps ==
    ASSUME PInv, NEW d \in Deliveries, RecordFailure(d) PROVE PInv'
<1> USE DEF PInv, PipelineTypeOK
<1>1. /\ task[d].pc = "failing" /\ Release("intake")
      /\ task' = [task EXCEPT ![d].pc = "end"]
      /\ UNCHANGED <<kept, cool, draftCool, began, run, analysis, answered, shown>>
  BY DEF RecordFailure, Goto, AfterFailure, Windows
<1>2. PICK committed \in BOOLEAN, raised \in BOOLEAN :
        /\ committed \/ raised
        /\ status' = [status EXCEPT ![d] = IF committed THEN "failed" ELSE @]
        /\ orphan' = IF raised THEN orphan \cup {d} ELSE orphan
        /\ unsaid' = IF raised THEN unsaid \cup {d} ELSE unsaid
  BY DEF RecordFailure
<1>3. /\ task' \in [Deliveries -> Task] /\ task'[d].pc = "end"
      /\ \A e \in Deliveries \ {d} : task'[e] = task[e]
  BY <1>1 DEF Task
<1>4. PipelineTypeOK' /\ WindowsBacked'
  BY <1>1, <1>2, <1>3 DEF WindowsBacked, Release, Released
<1>5. SlotsHeld'
  <2>1. InScenario' = InScenario
    BY <1>1 DEF InScenario
  <2>2. QED BY <1>1, <1>3, <2>1, IntakeSlots DEF Intaking, Analysing
<1>6. Early(d)' /\ Judged(d)' /\ Closed(d)'
  BY <1>1, <1>2, <1>3 DEF Stages, Early, Judged, Closed, Analysing, Sent, Drafted
<1>7. \A e \in Deliveries \ {d} : Untouched(e)
  BY <1>1, <1>2, <1>3 DEF Untouched, Sent
<1>8. QED BY <1>4, <1>5, <1>6, <1>7, StagesKept
-----------------------------------------------------------------------------
(* A stored delivery leaves with its record, or without one for a reason.  *)
LEMMA PersistedStages ==
    ASSUME PInv, NEW d \in Deliveries, NEW record \in AnalysisRecord,
           record.st # "none", Agrees(record, d), Persisted(d, record),
           Stored(d), task'[d].pc = "end", analysis[d] = NoRecord,
           UNCHANGED <<status, kept, answered, shown, orphan>>,
           <<"draft", d>> \in shown => run[d] # "idle",
           run[d] # "idle" => run'[d] # "idle",
           run'[d] # "idle" => Qualifies(record)
    PROVE  Early(d)' /\ Judged(d)' /\ Closed(d)'
<1> USE DEF PInv, PipelineTypeOK
<1>1. Stored(d)' /\ status'[d] # "received"
  BY DEF Stored, FinalStatus
<1>2. Early(d)' /\ Judged(d)'
  BY <1>1 DEF Early, Judged, Analysing
<1>3. Closed(d)'
  <2>1. CASE analysis' = [analysis EXCEPT ![d] = record]
    <3>1. analysis'[d] = record /\ analysis'[d].st # "none"
      BY <2>1
    <3>2. Agrees(record, d) <=> Agrees(analysis[d], d)'
      BY <3>1 DEF Agrees, Sent
    <3>3. Drafted(d)' => Qualifies(analysis[d])'
      BY <3>1 DEF Qualifies, Drafted
    <3>4. <<"draft", d>> \in shown' => Drafted(d)'
      BY DEF Drafted
    <3>5. analysis'[d] # NoRecord
      BY <3>1, InitialRecords
    <3>6. QED BY <1>1, <3>1, <3>2, <3>3, <3>4, <3>5 DEF Closed
  <2>2. CASE unsaid' = unsaid \cup {d} /\ UNCHANGED analysis
    BY <1>1, <2>2 DEF Closed, Drafted, Sent
  <2>3. QED BY <2>1, <2>2 DEF Persisted
<1>4. QED BY <1>2, <1>3

LEMMA PersistedElsewhere ==
    ASSUME PInv, NEW d \in Deliveries, NEW e \in Deliveries \ {d},
           NEW record, Persisted(d, record)
    PROVE  analysis'[e] = analysis[e] /\ (e \in unsaid' <=> e \in unsaid)
BY DEF Persisted, PInv, PipelineTypeOK

LEMMA PersistedType ==
    ASSUME PInv, NEW d \in Deliveries, NEW record \in AnalysisRecord, Persisted(d, record)
    PROVE  analysis' \in [Deliveries -> AnalysisRecord]
BY DEF Persisted, PInv, PipelineTypeOK

LEMMA NoAnalysisKeeps ==
    ASSUME PInv, NEW d \in Deliveries, NoAnalysis(d) PROVE PInv'
<1> USE DEF PInv, PipelineTypeOK
<1>1. /\ task[d].pc = "gate" /\ task' = [task EXCEPT ![d].pc = "end"]
      /\ unsaid' = unsaid \cup {d}
      /\ UNCHANGED <<status, kept, cool, draftCool, began, slots, run, analysis,
                     answered, shown, orphan>>
  BY DEF NoAnalysis, Goto, Windows
<1>2. /\ task' \in [Deliveries -> Task] /\ task'[d].pc = "end"
      /\ \A e \in Deliveries \ {d} : task'[e] = task[e]
  BY <1>1 DEF Task
<1>3. PipelineTypeOK' /\ WindowsBacked'
  BY <1>1, <1>2 DEF WindowsBacked
<1>4. SlotsHeld'
  <2>1. InScenario' = InScenario
    BY <1>1 DEF InScenario
  <2>2. QED BY <1>1, <1>2, <2>1, SlotsKept DEF Intaking, Analysing
<1>5. Early(d)' /\ Judged(d)' /\ Closed(d)'
  <2>1. Stored(d) /\ status[d] # "received"
    BY <1>1 DEF Stages, Judged, Stored, FinalStatus
  <2>2. QED BY <1>1, <1>2, <2>1 DEF Stages, Early, Judged, Closed, Analysing, Sent, Drafted
<1>6. \A e \in Deliveries \ {d} : Untouched(e)
  BY <1>1, <1>2 DEF Untouched, Sent
<1>7. QED BY <1>3, <1>4, <1>5, <1>6, StagesKept

LEMMA SkipKeeps ==
    ASSUME PInv, NEW d \in Deliveries, SkipCooldown(d) \/ SkipConcurrency(d) PROVE PInv'
<1> USE DEF PInv, PipelineTypeOK
<1>1. /\ task[d].pc = "gate" /\ task' = [task EXCEPT ![d].pc = "end"]
      /\ Persisted(d, Skipped)
      /\ UNCHANGED <<status, kept, draftCool, began, slots, run, answered, shown, orphan>>
  BY DEF SkipCooldown, SkipConcurrency, Goto
<1>2. /\ task' \in [Deliveries -> Task] /\ task'[d].pc = "end"
      /\ \A e \in Deliveries \ {d} : task'[e] = task[e]
  BY <1>1 DEF Task
<1>3. cool' = cool
  <2>1. CASE SkipCooldown(d)
    BY <2>1 DEF SkipCooldown
  <2>2. CASE SkipConcurrency(d)
    <3>1. task[d].key \in Keys \cup {NoKey}
      BY DEF Task
    <3>2. task[d].key # NoKey => cool[task[d].key] = 0
      BY <2>2, <3>1 DEF SkipConcurrency, Cooling
    <3>3. cool' = IF task[d].key = NoKey THEN cool ELSE [cool EXCEPT ![task[d].key] = 0]
      BY <2>2 DEF SkipConcurrency, AfterBusySkip, Opened
    <3>4. QED BY <3>1, <3>2, <3>3
  <2>3. QED BY <2>1, <2>2
<1>4. PipelineTypeOK' /\ WindowsBacked'
  BY <1>1, <1>2, <1>3, PersistedType, InitialRecords DEF WindowsBacked
<1>5. SlotsHeld'
  <2>1. InScenario' = InScenario
    BY <1>1 DEF InScenario
  <2>2. QED BY <1>1, <1>2, <2>1, SlotsKept DEF Intaking, Analysing
<1>6. Early(d)' /\ Judged(d)' /\ Closed(d)'
  <2>1. /\ Stored(d) /\ analysis[d] = NoRecord /\ run[d] = "idle" /\ ~Sent(d)
        /\ <<"draft", d>> \notin shown
    BY <1>1 DEF Stages, Judged, Closed, Drafted
  <2>2. Agrees(Skipped, d)
    BY <2>1, InitialRecords DEF Agrees, Sent
  <2>3. QED BY <1>1, <1>2, <2>1, <2>2, PersistedStages, InitialRecords
<1>7. \A e \in Deliveries \ {d} : Untouched(e)
  BY <1>1, <1>2, PersistedElsewhere DEF Untouched, Sent
<1>8. QED BY <1>4, <1>5, <1>6, <1>7, StagesKept

LEMMA StartKeeps ==
    ASSUME PInv, NEW d \in Deliveries, StartAnalysis(d) PROVE PInv'
<1> USE DEF PInv, PipelineTypeOK
<1>1. /\ task[d].pc = "gate" /\ task' = [task EXCEPT ![d].pc = "analyse"]
      /\ cool' = Opened(cool, task[d].key, Window)
      /\ began' = Opened(began, task[d].key, Window) /\ Acquire("event")
      /\ UNCHANGED <<status, kept, draftCool, run, orphan, analysis, answered, shown, unsaid>>
  BY DEF StartAnalysis, Goto, Reports
<1>2. /\ task' \in [Deliveries -> Task] /\ task'[d].pc = "analyse"
      /\ \A e \in Deliveries \ {d} : task'[e] = task[e]
  BY <1>1 DEF Task, Analysing
<1>3. PipelineTypeOK' /\ WindowsBacked'
  <2>1. cool' \in [Keys -> Nat] /\ began' = cool'
    BY <1>1, PipelineAssumption DEF Opened, WindowsBacked
  <2>2. slots' \in [intake : Nat, event : Nat, scenario : Nat]
    BY <1>1 DEF Acquire
  <2>3. QED BY <1>1, <1>2, <2>1, <2>2 DEF WindowsBacked
<1>4. SlotsHeld'
  <2>1. InScenario' = InScenario
    BY <1>1 DEF InScenario
  <2>2. QED BY <1>1, <1>2, <2>1, EventSlots DEF Intaking, Analysing
<1>5. Early(d)' /\ Judged(d)' /\ Closed(d)'
  <2>1. Stored(d)' /\ status'[d] # "received"
    BY <1>1 DEF Stages, Judged, Stored, FinalStatus
  <2>2. QED BY <1>1, <1>2, <2>1
            DEF Stages, Early, Judged, Closed, Analysing, Sent, Drafted
<1>6. \A e \in Deliveries \ {d} : Untouched(e)
  BY <1>1, <1>2 DEF Untouched, Sent
<1>7. QED BY <1>3, <1>4, <1>5, <1>6, StagesKept

(* The step from a verdict on, once the new record is known.               *)
LEMMA Judging ==
    ASSUME PInv, NEW d \in Deliveries, NEW label \in {"push", "persist"},
           NEW record \in AnalysisRecord, task[d].pc \in Analysing,
           task' = [task EXCEPT ![d] = [@ EXCEPT !.pc = label, !.record = record]],
           record.st \in {"failed", "completed"},
           label = "push" => /\ record.st = "completed" /\ ~record.notified
                             /\ ShouldNotify(record.verdict) /\ ~Sent(d)',
           label = "persist" => Agrees(record, d)',
           UNCHANGED <<status, kept, cool, draftCool, began, slots, run, analysis,
                       unsaid, orphan>>,
           \A e \in Deliveries \ {d} : /\ Sent(e)' <=> Sent(e)
                                       /\ e \in answered' <=> e \in answered,
           \A e \in Deliveries : <<"draft", e>> \in shown' <=> <<"draft", e>> \in shown
    PROVE  PInv'
<1> USE DEF PInv, PipelineTypeOK
<1>1. /\ task' \in [Deliveries -> Task] /\ task'[d].pc = label
      /\ task'[d].record = record
      /\ \A e \in Deliveries \ {d} : task'[e] = task[e]
  BY DEF Task, Analysing
<1>2. PipelineTypeOK' /\ WindowsBacked'
  BY <1>1 DEF WindowsBacked
<1>3. SlotsHeld'
  <2>1. InScenario' = InScenario
    BY DEF InScenario
  <2>2. QED BY <1>1, <2>1, SlotsKept DEF Intaking, Analysing
<1>4. Early(d)'
  BY <1>1 DEF Stages, Early, Analysing
<1>5. Stored(d)' /\ analysis'[d] = NoRecord /\ ~Drafted(d)'
      /\ <<"draft", d>> \notin shown' /\ task'[d].pc # "end"
  BY <1>1 DEF Stages, Judged, Closed, Stored, Drafted, Analysing
<1>6. Judged(d)'
  BY <1>1, <1>5 DEF Judged, Agrees
<1>7. Closed(d)'
  BY <1>1, <1>5 DEF Closed
<1>8. \A e \in Deliveries \ {d} : Untouched(e)
  BY <1>1 DEF Untouched
<1>9. QED BY <1>2, <1>3, <1>4, <1>6, <1>7, <1>8, StagesKept

LEMMA ConcludeKeeps ==
    ASSUME PInv, NEW d \in Deliveries, Conclude(d) PROVE PInv'
<1> USE DEF PInv, PipelineTypeOK
<1>1. /\ task[d].pc = "analyse" /\ task[d] \in Task /\ ~Sent(d)
      /\ UNCHANGED <<answered, shown>>
      /\ UNCHANGED <<status, kept, cool, draftCool, began, slots, run, analysis,
                     unsaid, orphan>>
  BY DEF Conclude, Windows, Reports, Stages, Judged
<1>2. ~Sent(d)' /\ \A e \in Deliveries : Sent(e)' <=> Sent(e)
  BY <1>1 DEF Sent
<1>3. ASSUME NEW verdict \in Verdicts,
             task' = [task EXCEPT
                 ![d].pc = IF ShouldNotify(verdict) THEN "push" ELSE "persist",
                 ![d].record = Record("completed", verdict, FALSE)]
      PROVE  PInv'
  <2> DEFINE label == IF ShouldNotify(verdict) THEN "push" ELSE "persist"
             record == Record("completed", verdict, FALSE)
  <2>1. label \in {"push", "persist"}
    OBVIOUS
  <2>2. /\ record \in AnalysisRecord /\ ~record.notified
        /\ record.st = "completed" /\ record.verdict = verdict
    BY PipelineAssumption DEF Record, AnalysisRecord, Verdict
  <2>3. task' = [task EXCEPT ![d] = [@ EXCEPT !.pc = label, !.record = record]]
    BY <1>3
  <2>4. label = "push" => ShouldNotify(record.verdict)
    BY <2>2
  <2> HIDE DEF label, record
  <2>5. Agrees(record, d)'
    BY <1>2, <2>2 DEF Agrees, Sent
  <2>6. QED BY <1>1, <1>2, <2>1, <2>2, <2>3, <2>4, <2>5, Judging DEF Analysing
<1>4. ASSUME task' = [task EXCEPT ![d].pc = "persist",
                                  ![d].record = Record("failed", NoVerdict, FALSE)]
      PROVE  PInv'
  <2> DEFINE record == Record("failed", NoVerdict, FALSE)
  <2>1. record \in AnalysisRecord /\ ~record.notified /\ record.st = "failed"
    BY DEF Record, NoVerdict, AnalysisRecord, Verdict
  <2>2. task' = [task EXCEPT ![d] = [@ EXCEPT !.pc = "persist", !.record = record]]
    BY <1>4
  <2> HIDE DEF record
  <2>3. Agrees(record, d)'
    BY <1>2, <2>1 DEF Agrees, Sent
  <2>4. QED BY <1>1, <1>2, <2>1, <2>2, <2>3, Judging DEF Analysing
<1>5. QED BY <1>3, <1>4 DEF Conclude

LEMMA PushKeeps ==
    ASSUME PInv, NEW d \in Deliveries, Push(d) PROVE PInv'
<1> USE DEF PInv, PipelineTypeOK
<1>1. /\ task[d].pc = "push" /\ task[d] \in Task /\ ~Sent(d)
      /\ task[d].record.st = "completed" /\ ShouldNotify(task[d].record.verdict)
      /\ UNCHANGED <<status, kept, cool, draftCool, began, slots, run, analysis,
                     unsaid, orphan>>
  BY DEF Push, Windows, Stages, Judged
<1>2. PICK ok \in BOOLEAN :
         /\ answered' = IF ok THEN answered \cup {d} ELSE answered
         /\ task' = [task EXCEPT ![d].pc = "persist", ![d].record.notified = Notified(ok)]
  BY DEF Push
<1>3. PICK record \in AnalysisRecord :
         /\ record = [task[d].record EXCEPT !.notified = ok]
         /\ record.notified <=> ok
         /\ record.st = "completed" /\ record.verdict = task[d].record.verdict
  <2>1. task[d].record \in AnalysisRecord
    BY <1>1 DEF Task
  <2>2. [task[d].record EXCEPT !.notified = ok] \in AnalysisRecord
    BY <2>1 DEF AnalysisRecord
  <2>3. QED BY <1>1, <2>1, <2>2 DEF AnalysisRecord
<1>4. task' = [task EXCEPT ![d] = [@ EXCEPT !.pc = "persist", !.record = record]]
  BY <1>1, <1>2, <1>3 DEF Notified, Task
<1>5. shown' = shown \cup {<<"analysis", d>>} \/ shown' = shown
  BY DEF Push, SendFeishuMessage
<1>6. /\ d \in answered' <=> ok
      /\ \A e \in Deliveries \ {d} : /\ Sent(e)' <=> Sent(e)
                                     /\ e \in answered' <=> e \in answered
      /\ \A e \in Deliveries : <<"draft", e>> \in shown' <=> <<"draft", e>> \in shown
  BY <1>1, <1>2, <1>5 DEF Sent
<1>7. Agrees(record, d)'
  BY <1>1, <1>3, <1>6 DEF Agrees, Sent
<1>8. QED BY <1>1, <1>3, <1>4, <1>6, <1>7, Judging DEF Analysing

LEMMA FinishKeeps ==
    ASSUME PInv, NEW d \in Deliveries, FinishAnalysis(d) PROVE PInv'
<1> USE DEF PInv, PipelineTypeOK
<1> DEFINE record == task[d].record
<1>1. /\ task[d].pc = "persist" /\ task[d] \in Task /\ Persisted(d, record)
      /\ task' = [task EXCEPT ![d].pc = "end", ![d].record = NoRecord]
      /\ Release("event") /\ TriggerDraft(d)
      /\ UNCHANGED <<status, kept, cool, began, answered, shown, orphan>>
  BY DEF FinishAnalysis
<1>2. /\ Stored(d) /\ analysis[d] = NoRecord /\ run[d] = "idle"
      /\ <<"draft", d>> \notin shown /\ Agrees(record, d)
      /\ record.st # "none" /\ record \in AnalysisRecord
  BY <1>1 DEF Stages, Judged, Closed, Drafted, Analysing, Task
<1>3. /\ task' \in [Deliveries -> Task] /\ task'[d].pc = "end"
      /\ \A e \in Deliveries \ {d} : task'[e] = task[e]
  BY <1>1, InitialRecords DEF Task
<1>4. /\ run' \in [Runs -> RunPc] /\ draftCool' \in [Keys -> Nat]
      /\ \A r \in Runs \ {d} : run'[r] = run[r]
      /\ run'[d] # "idle" => Qualifies(record) /\ run'[d] = "start"
      /\ InScenario' = InScenario
  <2>1. CASE UNCHANGED <<draftCool, run>>
    BY <1>2, <2>1 DEF InScenario
  <2>2. CASE /\ Qualifies(record) /\ run' = [run EXCEPT ![d] = "start"]
             /\ draftCool' = Opened(draftCool, task[d].key, DraftWindow)
    <3>1. draftCool' \in [Keys -> Nat]
      BY <2>2, PipelineAssumption DEF Opened
    <3>2. d \in Runs
      BY DEF Runs
    <3>3. /\ run' \in [Runs -> RunPc] /\ run'[d] = "start"
          /\ \A r \in Runs \ {d} : run'[r] = run[r]
      BY <2>2, <3>2 DEF RunPc
    <3>4. InScenario' = InScenario
      BY <1>2, <3>3 DEF InScenario
    <3>5. QED BY <2>2, <3>1, <3>3, <3>4
  <2>3. QED BY <1>1, <2>1, <2>2 DEF TriggerDraft
<1>5. PipelineTypeOK' /\ WindowsBacked'
  <2>1. slots' \in [intake : Nat, event : Nat, scenario : Nat]
    BY <1>1 DEF Release, Released
  <2>2. QED BY <1>1, <1>2, <1>3, <1>4, <2>1, PersistedType DEF WindowsBacked
<1>6. SlotsHeld'
  BY <1>1, <1>3, <1>4, EventSlots DEF Intaking, Analysing
<1>7. Early(d)' /\ Judged(d)' /\ Closed(d)'
  BY <1>1, <1>2, <1>3, <1>4, PersistedStages
<1>8. \A e \in Deliveries \ {d} : Untouched(e)
  BY <1>1, <1>3, <1>4, PersistedElsewhere DEF Untouched, Sent, Runs
<1>9. QED BY <1>5, <1>6, <1>7, <1>8, StagesKept
-----------------------------------------------------------------------------
(* What a scenario run's own step leaves alone.                            *)
ScenarioQuiet ==
    UNCHANGED <<task, status, kept, cool, draftCool, began, analysis, answered, unsaid,
                orphan>>

(* The tasks inside execute_scenario after one run moved.                  *)
LEMMA ScenarioSlots ==
    ASSUME SlotsHeld, slots \in [intake : Nat, event : Nat, scenario : Nat],
           NEW r \in Runs, \A q \in Runs \ {r} : run'[q] = run[q], UNCHANGED task,
           \/ /\ run[r] \notin Composing /\ run'[r] \in Composing
              /\ Acquire("scenario")
           \/ /\ run[r] \in Composing /\ run'[r] \notin Composing
              /\ Release("scenario")
           \/ (run[r] \in Composing <=> run'[r] \in Composing) /\ UNCHANGED slots
    PROVE  SlotsHeld'
<1>1. InIntake' = InIntake /\ InAnalysis' = InAnalysis
  BY DEF InIntake, InAnalysis
<1>2. slots'.intake = slots.intake /\ slots'.event = slots.event
  BY DEF Acquire, Release, Released
<1>3. Held(slots'.scenario, InScenario')
  <2>1. CASE /\ run[r] \notin Composing /\ run'[r] \in Composing
             /\ Acquire("scenario")
    <3>1. slots'.scenario = slots.scenario + 1
      BY <2>1 DEF Acquire
    <3>2. r \notin InScenario /\ InScenario' = InScenario \cup {r}
      BY <2>1 DEF InScenario, Composing
    <3>3. QED BY <3>1, <3>2, HeldAdd DEF SlotsHeld
  <2>2. CASE /\ run[r] \in Composing /\ run'[r] \notin Composing
             /\ Release("scenario")
    <3>1. slots'.scenario = IF slots.scenario > 0 THEN slots.scenario - 1 ELSE 0
      BY <2>2 DEF Release, Released
    <3>2. r \in InScenario /\ InScenario' = InScenario \ {r}
      BY <2>2 DEF InScenario, Composing
    <3>3. Held(slots.scenario, InScenario)
      BY DEF SlotsHeld
    <3>4. Held(IF slots.scenario > 0 THEN slots.scenario - 1 ELSE 0, InScenario \ {r})
      BY <3>2, <3>3, HeldRemove
    <3>5. QED BY <3>1, <3>2, <3>4
  <2>3. CASE (run[r] \in Composing <=> run'[r] \in Composing) /\ UNCHANGED slots
    <3>1. InScenario' = InScenario
      BY <2>3 DEF InScenario, Composing
    <3>2. QED BY <2>3, <3>1 DEF SlotsHeld
  <2>4. QED BY <2>1, <2>2, <2>3
<1>4. QED BY <1>1, <1>2, <1>3 DEF SlotsHeld

(* A run that moves without returning to rest, and whose announcements are *)
(* drafts of runs that were started, keeps what is true of deliveries.     *)
LEMMA ScenarioStages ==
    ASSUME PInv, ScenarioQuiet,
           \A e \in Deliveries : run'[e] # "idle" <=> run[e] # "idle",
           \A e \in Deliveries : <<"analysis", e>> \in shown' <=> <<"analysis", e>> \in shown,
           \A e \in Deliveries : <<"draft", e>> \in shown'
                                   => <<"draft", e>> \in shown \/ run[e] # "idle"
    PROVE  Stages'
<1> SUFFICES ASSUME NEW e \in Deliveries PROVE Early(e)' /\ Judged(e)' /\ Closed(e)'
  BY DEF Stages
<1>1. Early(e) /\ Judged(e) /\ Closed(e)
  BY DEF PInv, Stages
<1>2. (Sent(e)' <=> Sent(e)) /\ (Drafted(e)' <=> Drafted(e)) /\ (Stored(e)' <=> Stored(e))
  BY DEF Sent, Drafted, Stored, ScenarioQuiet
<1>3. Early(e)'
  BY <1>1, <1>2 DEF Early, ScenarioQuiet
<1>4. Judged(e)'
  BY <1>1, <1>2 DEF Judged, ScenarioQuiet, Agrees
<1>5. Closed(e)'
  <2>1. <<"draft", e>> \in shown' => Drafted(e)'
    BY <1>1, <1>2 DEF Closed, Drafted
  <2>2. QED BY <1>1, <1>2, <2>1 DEF Closed, ScenarioQuiet, Agrees
<1>6. QED BY <1>3, <1>4, <1>5

(* The three together: one run moves.                                      *)
LEMMA RunMoves ==
    ASSUME PInv, ScenarioQuiet, NEW r \in Runs, NEW label \in RunPc \ {"idle"},
           run' = [run EXCEPT ![r] = label],
           run[r] = "idle" => r \notin Deliveries,
           \/ UNCHANGED shown
           \/ shown' = shown \cup {<<"draft", r>>},
           \/ /\ run[r] \notin Composing /\ label \in Composing
              /\ Acquire("scenario")
           \/ /\ run[r] \in Composing /\ label \notin Composing
              /\ Release("scenario")
           \/ (run[r] \in Composing <=> label \in Composing) /\ UNCHANGED slots
    PROVE  PInv'
<1> USE DEF PInv, PipelineTypeOK
<1>1. run' \in [Runs -> RunPc] /\ run'[r] = label /\ \A q \in Runs \ {r} : run'[q] = run[q]
  OBVIOUS
<1>2. slots' \in [intake : Nat, event : Nat, scenario : Nat]
  BY DEF Acquire, Release, Released
<1>3. PipelineTypeOK' /\ WindowsBacked'
  BY <1>1, <1>2 DEF ScenarioQuiet, WindowsBacked
<1>4. SlotsHeld'
  BY <1>1, ScenarioSlots DEF ScenarioQuiet
<1>5. Stages'
  <2>1. \A e \in Deliveries : run'[e] # "idle" <=> run[e] # "idle"
    BY <1>1 DEF Runs
  <2>2. \A e \in Deliveries : <<"analysis", e>> \in shown' <=> <<"analysis", e>> \in shown
    OBVIOUS
  <2>3. \A e \in Deliveries : <<"draft", e>> \in shown'
                                => <<"draft", e>> \in shown \/ run[e] # "idle"
    OBVIOUS
  <2>4. QED BY <2>1, <2>2, <2>3, ScenarioStages
<1>6. QED BY <1>3, <1>4, <1>5

LEMMA RequestKeeps ==
    ASSUME PInv, NEW m \in Manual, Request(m) PROVE PInv'
<1>1. /\ run' = [run EXCEPT ![m] = "start"] /\ run[m] = "idle" /\ ScenarioQuiet
      /\ UNCHANGED <<answered, shown, slots>>
  BY DEF Request, ScenarioQuiet, Windows, Reports
<1>2. m \in Runs /\ m \notin Deliveries
  BY PipelineAssumption DEF Runs
<1>3. "start" \in RunPc \ {"idle"} /\ "start" \notin Composing /\ "idle" \notin Composing
  BY DEF RunPc, Composing
<1>4. QED BY <1>1, <1>2, <1>3, RunMoves

LEMMA ScenarioKeeps ==
    ASSUME PInv, NEW r \in Runs, ScenarioStep(r) PROVE PInv'
<1> USE DEF ScenarioQuiet, Windows, Reports
<1>0. /\ {"insert", "compose"} \subseteq RunPc \ {"idle"}
      /\ {"end", "announce", "start"} \subseteq RunPc \ {"idle"}
      /\ {"insert", "compose"} \subseteq Composing
      /\ "end" \notin Composing /\ "announce" \notin Composing /\ "start" \notin Composing
  BY DEF RunPc, Composing
<1>1. CASE Begin(r)
  <2>1. run[r] = "start" /\ ScenarioQuiet /\ UNCHANGED shown
    BY <1>1 DEF Begin
  <2>2. CASE Acquire("scenario") /\ run' = [run EXCEPT ![r] = "insert"]
    BY <1>0, <2>1, <2>2, RunMoves
  <2>3. CASE UNCHANGED slots /\ run' = [run EXCEPT ![r] = "end"]
    BY <1>0, <2>1, <2>3, RunMoves
  <2>4. QED BY <1>1, <2>2, <2>3 DEF Begin
<1>2. CASE InsertRow(r)
  <2>1. run[r] = "insert" /\ ScenarioQuiet /\ UNCHANGED shown
    BY <1>2 DEF InsertRow
  <2>2. CASE run' = [run EXCEPT ![r] = "compose"] /\ UNCHANGED slots
    BY <1>0, <2>1, <2>2, RunMoves
  <2>3. CASE run' = [run EXCEPT ![r] = "end"] /\ Release("scenario")
    BY <1>0, <2>1, <2>3, RunMoves
  <2>4. QED BY <1>2, <2>2, <2>3 DEF InsertRow
<1>3. CASE CloseRow(r)
  <2>1. run[r] = "compose" /\ ScenarioQuiet /\ UNCHANGED shown /\ Release("scenario")
    BY <1>3 DEF CloseRow
  <2>2. PICK label \in {"end", "announce"} : run' = [run EXCEPT ![r] = label]
    BY <1>3 DEF CloseRow
  <2>3. QED BY <1>0, <2>1, <2>2, RunMoves
<1>4. CASE NotifyPostmortem(r)
  <2>1. /\ run[r] = "announce" /\ run' = [run EXCEPT ![r] = "end"]
        /\ UNCHANGED slots /\ ScenarioQuiet
        /\ shown' = shown \/ shown' = shown \cup {<<"draft", r>>}
    BY <1>4 DEF NotifyPostmortem, SendFeishuMessage
  <2>2. QED BY <1>0, <2>1, RunMoves
<1>5. QED BY <1>1, <1>2, <1>3, <1>4 DEF ScenarioStep

(* A tick shortens the open windows and the histories of their analyses    *)
(* alike.                                                                  *)
LEMMA TickKeeps == ASSUME PInv, Tick PROVE PInv'
<1> USE DEF PInv, PipelineTypeOK
<1>1. UNCHANGED <<task, status, kept, slots, run, orphan, analysis, answered, shown, unsaid>>
  BY DEF Tick, Reports
<1>2. /\ cool' \in [Keys -> Nat] /\ draftCool' \in [Keys -> Nat]
      /\ began' \in [Keys -> Nat] /\ cool' = began'
  BY DEF Tick, Less, WindowsBacked
<1>3. PipelineTypeOK' /\ WindowsBacked'
  BY <1>1, <1>2 DEF WindowsBacked
<1>4. SlotsHeld'
  BY <1>1 DEF SlotsHeld, Held, InIntake, InAnalysis, InScenario
<1>5. \A e \in Deliveries : Untouched(e)
  BY <1>1 DEF Untouched, Sent
<1>6. Stages'
  BY <1>5, UntouchedKeeps DEF Stages
<1>7. QED BY <1>3, <1>4, <1>6

LEMMA RestartKeeps == ASSUME PInv, Restart PROVE PInv'
<1> USE DEF PInv, PipelineTypeOK
<1>1. /\ orphan' = orphan \cup InIntake
      /\ unsaid' = unsaid \cup {d \in Deliveries : task[d].pc \notin {"new", "end"}}
      /\ UNCHANGED <<status, kept, analysis, answered, shown>>
  BY DEF Restart
<1>2. /\ task' = [d \in Deliveries |->
                    IF task[d].pc = "new" THEN task[d]
                    ELSE [task[d] EXCEPT !.pc = "end", !.record = NoRecord]]
      /\ run' = [r \in Runs |-> IF run[r] = "idle" THEN "idle" ELSE "end"]
      /\ slots' = [intake |-> 0, event |-> 0, scenario |-> 0]
      /\ cool' = Zero /\ draftCool' = Zero /\ began' = Zero
  BY DEF Restart
<1>3. \A d \in Deliveries :
         /\ task'[d] \in Task
         /\ task[d].pc = "new" => task'[d].pc = "new"
         /\ task[d].pc # "new" => task'[d].pc = "end"
  BY <1>2, InitialRecords DEF Task
<1>4. PipelineTypeOK' /\ WindowsBacked'
  <2>1. task' \in [Deliveries -> Task] /\ run' \in [Runs -> RunPc]
    BY <1>2, <1>3 DEF RunPc
  <2>2. cool' \in [Keys -> Nat] /\ draftCool' \in [Keys -> Nat] /\ began' = cool'
    BY <1>2 DEF Zero
  <2>3. QED BY <1>1, <1>2, <2>1, <2>2 DEF WindowsBacked
<1>5. SlotsHeld'
  <2>1. InIntake' = {} /\ InAnalysis' = {}
    BY <1>3 DEF InIntake, InAnalysis
  <2>2. InScenario' = {}
    BY <1>2 DEF InScenario
  <2>3. QED BY <1>2, <2>1, <2>2, HeldNone DEF SlotsHeld
<1>6. ASSUME NEW d \in Deliveries
      PROVE  Early(d)' /\ Judged(d)' /\ Closed(d)'
  <2>1. Early(d) /\ Judged(d) /\ Closed(d)
    BY DEF Stages
  <2>2. (Sent(d)' <=> Sent(d)) /\ (Drafted(d)' <=> Drafted(d)) /\ (Stored(d)' <=> Stored(d))
    BY <1>1, <1>2 DEF Sent, Drafted, Stored, Runs
  <2>3. Early(d)'
    BY <1>1, <1>3, <2>1 DEF Early, InIntake
  <2>4. Judged(d)'
    BY <1>1, <1>3, <2>1, <2>2 DEF Judged, Analysing
  <2>5. Closed(d)'
    <3>1. Agrees(analysis[d], d)' <=> Agrees(analysis[d], d)
      BY <1>1, <2>2 DEF Agrees
    <3>2. Qualifies(analysis'[d]) <=> Qualifies(analysis[d])
      BY <1>1
    <3>3. task'[d].pc = "end" /\ d \notin unsaid'
            /\ status'[d] \in {"processed", "conflict_pending"} => analysis'[d] # NoRecord
      <4>1. SUFFICES ASSUME task'[d].pc = "end", d \notin unsaid',
                            status'[d] \in {"processed", "conflict_pending"}
                     PROVE  analysis'[d] # NoRecord
        OBVIOUS
      <4>2. task[d].pc = "end"
        BY <1>1, <1>3, <4>1
      <4>3. QED BY <1>1, <2>1, <4>1, <4>2 DEF Closed
    <3>4. QED BY <1>1, <2>1, <2>2, <3>1, <3>2, <3>3 DEF Closed
  <2>6. QED BY <2>3, <2>4, <2>5
<1>7. QED BY <1>4, <1>5, <1>6 DEF Stages

LEMMA NextKeepsPInv == PInv /\ [Next]_vars => PInv'
<1> SUFFICES ASSUME PInv, [Next]_vars PROVE PInv'
  OBVIOUS
<1>1. ASSUME NEW d \in Deliveries, DeliveryStep(d) PROVE PInv'
  BY <1>1, RefuseKeeps, LogKeeps, ProcessKeeps, UpdateKeeps, RecordFailureKeeps,
     NoAnalysisKeeps, SkipKeeps, StartKeeps, ConcludeKeeps, PushKeeps, FinishKeeps
     DEF DeliveryStep
<1>2. ASSUME NEW d \in Deliveries, NEW k \in Keys \cup {NoKey}, Receive(d, k) PROVE PInv'
  BY <1>2, ReceiveKeeps
<1>3. ASSUME NEW m \in Manual, Request(m) PROVE PInv'
  BY <1>3, RequestKeeps
<1>4. ASSUME NEW r \in Runs, ScenarioStep(r) PROVE PInv'
  BY <1>4, ScenarioKeeps
<1>5. CASE Tick
  BY <1>5, TickKeeps
<1>6. CASE Restart
  BY <1>6, RestartKeeps
<1>7. CASE UNCHANGED vars
  BY <1>7 DEF PInv, PipelineTypeOK, SlotsHeld, Held, InIntake, InAnalysis, InScenario,
              WindowsBacked, Stages, Early, Judged, Closed, Stored, Drafted, Sent, Agrees,
              vars
<1>8. QED BY <1>1, <1>2, <1>3, <1>4, <1>5, <1>6, <1>7 DEF Next

LEMMA AlwaysPInv == Spec => []PInv
BY InitPInv, NextKeepsPInv, PTL DEF Spec
-----------------------------------------------------------------------------
(* Every variable but the histories keeps its type: the delivery tasks, the *)
(* rows, the windows, the counters and the runs of event_analysis.py and    *)
(* webhook_routes.py.                                                       *)
THEOREM PipelineTypeCorrect == Spec => []PipelineTypeOK
<1>1. PInv => PipelineTypeOK
  BY DEF PInv
<1>2. QED BY <1>1, AlwaysPInv, PTL

(* Whatever fails, is refused or is killed, each of the three counters      *)
(* equals the number of tasks that hold one of its slots (SlotLimiter,      *)
(* _process_delivery, maybe_analyze_event, execute_scenario).               *)
THEOREM SlotsAlwaysAccounted == Spec => []SlotsAccounted
<1>1. PInv => SlotsAccounted
  BY DEF PInv, SlotsHeld, Held, SlotsAccounted
<1>2. QED BY <1>1, AlwaysPInv, PTL

(* No window is open that a real analysis did not open: a busy skip gives   *)
(* back the window it took (event_analysis.py, maybe_analyze_event).        *)
THEOREM CooldownsBacked == Spec => []CooldownBacked
<1>1. PInv => CooldownBacked
  BY DEF PInv, WindowsBacked, CooldownBacked
<1>2. QED BY <1>1, AlwaysPInv, PTL

(* Every row that says 'received' has a task that will record its outcome,  *)
(* or lost it to a restart or to a database that refused it.                *)
THEOREM ReceivedAlwaysInHand == Spec => []ReceivedInHand
<1>1. PInv => ReceivedInHand
  BY DEF PInv, Stages, Early, ReceivedInHand
<1>2. QED BY <1>1, AlwaysPInv, PTL

(* The analysis column, the cards and the drafts agree at every moment,     *)
(* for any thresholds and any verdicts (event_analysis.py).                 *)
THEOREM VerdictsAlwaysAgree == Spec => []VerdictsAgree
<1>1. ASSUME PInv PROVE VerdictsAgree
  <2> SUFFICES ASSUME NEW d \in Deliveries
               PROVE  /\ d \in InAnalysis \/ analysis[d] # NoRecord \/ Sent(d) => Stored(d)
                      /\ analysis[d].notified => d \in answered
                      /\ task[d].pc = "end" /\ d \notin unsaid /\ d \in answered
                           => analysis[d].notified
                      /\ task[d].pc = "end" /\ d \notin unsaid /\ Sent(d)
                           => ShouldNotify(analysis[d].verdict)
                      /\ task[d].pc = "end" /\ d \notin unsaid
                              /\ (Drafted(d) \/ <<"draft", d>> \in shown)
                           => Qualifies(analysis[d])
                      /\ analysis[d].st \in {"failed", "skipped"}
                           => /\ ~Sent(d) /\ ~Drafted(d)
                              /\ <<"draft", d>> \notin shown
                      /\ task[d].pc = "end" /\ d \notin unsaid
                              /\ status[d] \in {"processed", "conflict_pending"}
                           => analysis[d] # NoRecord
    BY DEF VerdictsAgree, Sent, Drafted, Stored
  <2>1. Early(d) /\ Judged(d) /\ Closed(d)
    BY <1>1 DEF PInv, Stages
  <2>2. d \in InAnalysis => Stored(d)
    BY <2>1 DEF InAnalysis, Judged, Analysing
  <2>3. analysis[d] # NoRecord \/ Sent(d) \/ Drafted(d) => Stored(d)
    BY <2>1 DEF Closed
  <2>4. Stored(d) => status[d] \in {"processed", "conflict_pending"}
    BY DEF Stored, FinalStatus
  <2>5. task[d].pc = "end" /\ d \notin unsaid /\ Stored(d) => analysis[d] # NoRecord
    BY <2>1, <2>4 DEF Closed
  <2>6. analysis[d] # NoRecord => Agrees(analysis[d], d)
    BY <2>1 DEF Closed
  <2>7. analysis[d].notified => d \in answered
    BY <2>6, InitialRecords DEF Agrees
  <2>8. task[d].pc = "end" /\ d \notin unsaid
           => /\ d \in answered => analysis[d].notified
              /\ Sent(d) => ShouldNotify(analysis[d].verdict)
    BY <2>3, <2>5, <2>6 DEF Agrees, Sent
  <2>9. <<"draft", d>> \in shown => Drafted(d)
    BY <2>1 DEF Closed
  <2>10. task[d].pc = "end" /\ d \notin unsaid /\ Drafted(d) => Qualifies(analysis[d])
    BY <2>1, <2>3, <2>5 DEF Closed
  <2>11. analysis[d].st \in {"failed", "skipped"} => ~Sent(d) /\ ~Drafted(d)
    <3>1. analysis[d].st \in {"failed", "skipped"} => analysis[d] # NoRecord
      BY InitialRecords
    <3>2. QED BY <2>1, <2>6, <3>1 DEF Closed, Agrees, Qualifies
  <2>12. QED BY <2>1, <2>2, <2>3, <2>7, <2>8, <2>9, <2>10, <2>11 DEF Closed
<1>2. QED BY <1>1, AlwaysPInv, PTL

(* No step starts an analysis for an entity whose last analysis began less  *)
(* than a window ago, however the deliveries of its events interleave.      *)
THEOREM AnalysedOncePerWindow == Spec => OncePerWindow
<1> DEFINE Once == \A d \in Deliveries :
                     d \notin InAnalysis /\ d \in InAnalysis' /\ task'[d].key # NoKey
                       => began[task'[d].key] = 0
<1>1. ASSUME PInv, [Next]_vars PROVE [Once]_vars
  <2> SUFFICES ASSUME NEW d \in Deliveries, d \notin InAnalysis, d \in InAnalysis',
                      task'[d].key # NoKey
               PROVE  began[task'[d].key] = 0
    OBVIOUS
  <2>1. task[d].pc \notin Analysing /\ task'[d].pc \in Analysing
    BY DEF InAnalysis, Analysing
  <2>2. StartAnalysis(d)
    <3>1. task \in [Deliveries -> Task]
      BY <1>1 DEF PInv, PipelineTypeOK
    <3>2. task' # task
      BY <2>1
    <3>3. ASSUME NEW e \in Deliveries, DeliveryStep(e) PROVE StartAnalysis(d)
      <4>1. /\ Conclude(e) => task[e].pc \in Analysing
            /\ Push(e) => task[e].pc \in Analysing
        BY DEF Conclude, Push, Analysing
      <4>2. \A a \in Deliveries \ {e} : task'[a] = task[a]
        BY <3>1, <3>3 DEF DeliveryStep, Refuse, LogDelivery, Process, Update, RecordFailure,
               NoAnalysis, SkipCooldown, SkipConcurrency, StartAnalysis, Conclude, Push,
               FinishAnalysis, Goto
      <4>3. e = d
        BY <2>1, <4>2
      <4>4. task'[d].pc \notin Analysing \/ StartAnalysis(d) \/ task[d].pc \in Analysing
        BY <3>1, <3>3, <4>1, <4>3
           DEF DeliveryStep, Refuse, LogDelivery, Process, Update, RecordFailure,
               NoAnalysis, SkipCooldown, SkipConcurrency, FinishAnalysis, Goto, Analysing,
               AfterUpdateError, AfterFailure, Task
      <4>5. QED BY <2>1, <4>4
    <3>4. ASSUME NEW e \in Deliveries, NEW k \in Keys \cup {NoKey}, Receive(e, k)
          PROVE  FALSE
      BY <2>1, <3>1, <3>4 DEF Receive, Analysing, Task
    <3>5. ASSUME Restart PROVE FALSE
      BY <2>1, <3>1, <3>5 DEF Restart, Analysing, Task
    <3>6. ~Tick /\ ~(\E m \in Manual : Request(m)) /\ ~(\E r \in Runs : ScenarioStep(r))
      BY <3>2 DEF Tick, Request, ScenarioStep, Begin, InsertRow, CloseRow, NotifyPostmortem
    <3>7. QED BY <1>1, <3>2, <3>3, <3>4, <3>5, <3>6 DEF Next, vars
  <2>3. /\ task[d].key \in Keys \cup {NoKey} /\ task'[d].key = task[d].key
        /\ cool = began /\ cool \in [Keys -> Nat] /\ ~Cooling(task[d].key)
    BY <1>1, <2>2 DEF PInv, PipelineTypeOK, WindowsBacked, StartAnalysis, Goto, Task
  <2>4. QED BY <2>3 DEF Cooling
<1>2. QED BY <1>1, AlwaysPInv, PTL DEF Spec, OncePerWindow
==============================================================================
