---------------------------- MODULE EventPipeline ----------------------------
(***************************************************************************)
(* From a webhook to a postmortem: intake under a slot cap                 *)
(* (api/routes/webhook_routes.py), event analysis behind a per-entity      *)
(* cooldown and a second cap (runner/event_analysis.py), and the scenario  *)
(* run a recurring severe incident triggers (runner/scenarios).            *)
(*                                                                         *)
(* Every delivery is one background task; a postmortem is a task of its    *)
(* own, and scenarios are also started by hand.  Slots and cooldowns live  *)
(* in the process, delivery and run rows in the database.  Cooldowns are   *)
(* modelled by the ticks left in their windows.                            *)
(***************************************************************************)
EXTENDS Naturals, FiniteSets

CONSTANTS
    Deliveries,         \* webhook deliveries
    Manual,             \* scenario runs requested by hand
    Keys,               \* cooldown keys: source, field and value
    NoKey,              \* an event without a cooldown field
    IntakeCap,          \* _WEBHOOK_MAX_CONCURRENCY
    EventCap,           \* event_analysis.max_concurrency
    ScenarioCap,        \* max_scenario_concurrency
    Window,             \* event_analysis.cooldown_seconds, in ticks
    DraftWindow,        \* _POSTMORTEM_TRIGGER_COOLDOWN_SECONDS, in ticks
    Verdicts,           \* what the model's contract may say: known, severity
    NotifyAt,           \* rank of EVENT_ANALYSIS_NOTIFY_SEVERITY
    DraftAt             \* rank of EVENT_POSTMORTEM_SEVERITY

ASSUME PipelineAssumption ==
    /\ NoKey \notin Keys
    /\ Deliveries \cap Manual = {}
    /\ {IntakeCap, EventCap, ScenarioCap, Window, DraftWindow} \subseteq Nat \ {0}
    /\ {NotifyAt, DraftAt} \subseteq 0..2
    /\ Verdicts \subseteq [known : BOOLEAN, severity : 0..2]

VARIABLES
    task,       \* the delivery tasks
    status,     \* webhook_logs.status
    kept,       \* where the delivered content ended up
    cool,       \* _cooldowns: ticks left per key
    draftCool,  \* _postmortem_triggers: ticks left per key
    slots,      \* the three in-flight counters
    run,        \* the tasks inside execute_scenario
    analysis,   \* webhook_logs.analysis
    answered,   \* history: deliveries whose card Feishu's webhook took with a 2xx
    shown,      \* history: cards of analyses and drafts that readers got to see
    unsaid,     \* history: deliveries without a record for a good reason
    began,      \* history: ticks left of the window of the last real analysis
    orphan      \* history: deliveries whose task died or could not record

vars == <<task, status, kept, cool, draftCool, slots, run, analysis, answered, shown, unsaid,
          began, orphan>>

Runs == Deliveries \cup Manual

Windows == <<cool, draftCool, began>>
Reports == <<analysis, answered, shown, unsaid>>

NoVerdict == [known |-> FALSE, severity |-> 0]
Record(st, verdict, notified) == [st |-> st, verdict |-> verdict, notified |-> notified]
NoRecord == Record("none", NoVerdict, FALSE)

(* The pc of a delivery: new, log, extract, update, failing, gate, analyse,*)
(* push, persist or end.                                                   *)
InIntake == {d \in Deliveries : task[d].pc \in {"log", "extract", "update", "failing"}}
InAnalysis == {d \in Deliveries : task[d].pc \in {"analyse", "push", "persist"}}
InScenario == {r \in Runs : run[r] \in {"insert", "compose"}}

Zero == [k \in Keys |-> 0]

Init ==
    /\ task = [d \in Deliveries |-> [pc |-> "new", key |-> NoKey, record |-> NoRecord]]
    /\ status = [d \in Deliveries |-> "none"]
    /\ kept = [d \in Deliveries |-> "nowhere"]
    /\ cool = Zero /\ draftCool = Zero /\ began = Zero
    /\ slots = [intake |-> 0, event |-> 0, scenario |-> 0]
    /\ run = [r \in Runs |-> "idle"]
    /\ analysis = [d \in Deliveries |-> NoRecord]
    /\ answered = {} /\ shown = {} /\ unsaid = {} /\ orphan = {}

Goto(d, label) == task' = [task EXCEPT ![d].pc = label]

(* Start a window for the key of an event; an event without key has none. *)
Opened(window, k, ticks) ==
    IF k = NoKey THEN window ELSE [window EXCEPT ![k] = ticks]

Cap == [intake |-> IntakeCap, event |-> EventCap, scenario |-> ScenarioCap]

Free(pool) == slots[pool] < Cap[pool]

Acquire(pool) == slots' = [slots EXCEPT ![pool] = @ + 1]

(* SlotLimiter.release stops at zero. *)
Released(pool) == [slots EXCEPT ![pool] = IF @ > 0 THEN @ - 1 ELSE 0]
Release(pool) == slots' = Released(pool)
-----------------------------------------------------------------------------
(* A delivery refused before it takes a slot: no valid signature or no such *)
(* source, and nothing is written; a payload its connector cannot read,    *)
(* and a row that says so, unless that INSERT fails.                       *)
Refuse(d) ==
    /\ task[d].pc = "new"
    /\ \E st \in {"none", "failed"} : status' = [status EXCEPT ![d] = st]
    /\ Goto(d, "end")
    /\ UNCHANGED <<kept, Windows, slots, run, orphan, Reports>>

(* receive_webhook; a full pool is answered 503 and changes nothing. *)
Receive(d, k) ==
    /\ task[d].pc = "new"
    /\ Free("intake")
    /\ Acquire("intake")
    /\ task' = [task EXCEPT ![d].pc = "log", ![d].key = k]
    /\ UNCHANGED <<status, kept, Windows, run, orphan, Reports>>

SlotsAfterLogFailure_Kept == slots
SlotsAfterLogFailure == Released("intake")

(* The delivery row, then the background task; an INSERT that fails may    *)
(* have taken effect.                                                      *)
LogDelivery(d) ==
    /\ task[d].pc = "log"
    /\ \/ /\ status' = [status EXCEPT ![d] = "received"]
          /\ Goto(d, "extract")
          /\ UNCHANGED <<slots, orphan>>
       \/ /\ \E committed \in BOOLEAN :
                /\ status' = [status EXCEPT ![d] = IF committed THEN "received" ELSE @]
                /\ orphan' = IF committed THEN orphan \cup {d} ELSE orphan
          /\ slots' = SlotsAfterLogFailure
          /\ Goto(d, "end")
    /\ UNCHANGED <<kept, Windows, run, Reports>>

(* prepare, write_memory and, for a conflict, persist_pending_conflict. *)
Process(d) ==
    /\ task[d].pc = "extract"
    /\ \/ /\ \E place \in {"memory", "conflict"} : kept' = [kept EXCEPT ![d] = place]
          /\ Goto(d, "update")
       \/ UNCHANGED kept /\ Goto(d, "failing")
    /\ UNCHANGED <<status, Windows, slots, run, orphan, Reports>>

FinalStatus(place) == IF place = "conflict" THEN "conflict_pending" ELSE "processed"

AfterUpdateError_End == "end"
AfterUpdateError == "failing"

(* The terminal status; the slot goes back before any analysis.  An UPDATE *)
(* that fails may have taken effect.                                       *)
Update(d) ==
    /\ task[d].pc = "update"
    /\ \E committed, raised \in BOOLEAN :
        /\ committed \/ raised
        /\ status' = [status EXCEPT ![d] = IF committed THEN FinalStatus(kept[d]) ELSE @]
        /\ IF raised THEN Goto(d, AfterUpdateError) /\ UNCHANGED slots
           ELSE Goto(d, "gate") /\ Release("intake")
    /\ UNCHANGED <<kept, Windows, run, orphan, Reports>>

AfterFailure == "end"

(* status = 'failed', or an UPDATE that fails as well, in effect or not.   *)
(* There is no analysis, even where the terminal status did get through.   *)
RecordFailure(d) ==
    /\ task[d].pc = "failing"
    /\ \E committed, raised \in BOOLEAN :
        /\ committed \/ raised
        /\ status' = [status EXCEPT ![d] = IF committed THEN "failed" ELSE @]
        /\ orphan' = IF raised THEN orphan \cup {d} ELSE orphan
        /\ unsaid' = IF raised THEN unsaid \cup {d} ELSE unsaid
    /\ Release("intake")
    /\ Goto(d, AfterFailure)
    /\ UNCHANGED <<kept, Windows, run, analysis, answered, shown>>
-----------------------------------------------------------------------------
(* persist_analysis, whose failure, in effect or not, is only logged. *)
Persisted(d, record) ==
    \E committed, raised \in BOOLEAN :
        /\ committed \/ raised
        /\ analysis' = [analysis EXCEPT ![d] = IF committed THEN record ELSE @]
        /\ unsaid' = IF raised THEN unsaid \cup {d} ELSE unsaid

(* A connector that did not opt in gets no analysis. *)
NoAnalysis(d) ==
    /\ task[d].pc = "gate"
    /\ Goto(d, "end")
    /\ unsaid' = unsaid \cup {d}
    /\ UNCHANGED <<status, kept, Windows, slots, run, analysis, answered, shown, orphan>>

Skipped == Record("skipped", NoVerdict, FALSE)

Cooling_Short(k) == k # NoKey /\ cool[k] > 1
Cooling(k) == k # NoKey /\ cool[k] > 0

SkipCooldown(d) ==
    /\ task[d].pc = "gate" /\ Cooling(task[d].key)
    /\ Persisted(d, Skipped)
    /\ Goto(d, "end")
    /\ UNCHANGED <<status, kept, cool, draftCool, began, slots, run, answered, shown, orphan>>

(* Slot exhaustion takes the window it has just opened back. *)
AfterBusySkip_Burned(k) == Opened(cool, k, Window)
AfterBusySkip(k) == Opened(cool, k, 0)

SkipConcurrency(d) ==
    /\ task[d].pc = "gate" /\ ~Cooling(task[d].key)
    /\ ~Free("event")
    /\ cool' = AfterBusySkip(task[d].key)
    /\ Persisted(d, Skipped)
    /\ Goto(d, "end")
    /\ UNCHANGED <<status, kept, draftCool, began, slots, run, answered, shown, orphan>>

StartAnalysis(d) ==
    /\ task[d].pc = "gate" /\ ~Cooling(task[d].key)
    /\ Free("event")
    /\ cool' = Opened(cool, task[d].key, Window)
    /\ began' = Opened(began, task[d].key, Window)
    /\ Acquire("event")
    /\ Goto(d, "analyse")
    /\ UNCHANGED <<status, kept, draftCool, run, orphan, Reports>>

ShouldNotify(verdict) == verdict.severity >= NotifyAt
Qualifies(record) ==
    record.st = "completed" /\ record.verdict.known /\ record.verdict.severity >= DraftAt

(* run_event_analysis: a verdict that keeps to the contract, or none        *)
(* (timeout, interrupt, an error, a broken contract).                      *)
Conclude(d) ==
    /\ task[d].pc = "analyse"
    /\ \/ \E verdict \in Verdicts :
            task' = [task EXCEPT
                ![d].pc = IF ShouldNotify(verdict) THEN "push" ELSE "persist",
                ![d].record = Record("completed", verdict, FALSE)]
       \/ task' = [task EXCEPT ![d].pc = "persist", ![d].record = Record("failed", NoVerdict, FALSE)]
    /\ UNCHANGED <<status, kept, Windows, slots, run, Reports, orphan>>

(* send_feishu_message: what readers get to see does not follow from its   *)
(* answer.  A request that times out may have been delivered, and a 2xx    *)
(* counts as sent whatever code Feishu puts in its body.                   *)
SendFeishuMessage(card) == shown' = shown \cup {card} \/ UNCHANGED shown

Notified_Meant(ok) == TRUE
Notified(ok) == ok

Push(d) ==
    /\ task[d].pc = "push"
    /\ SendFeishuMessage(<<"analysis", d>>)
    /\ \E ok \in BOOLEAN :
        /\ answered' = IF ok THEN answered \cup {d} ELSE answered
        /\ task' = [task EXCEPT ![d].pc = "persist", ![d].record.notified = Notified(ok)]
    /\ UNCHANGED <<status, kept, Windows, slots, run, analysis, unsaid, orphan>>

(* maybe_trigger_postmortem. *)
TriggerDraft(d) ==
    IF \/ ~Qualifies(task[d].record)
       \/ task[d].key # NoKey /\ draftCool[task[d].key] > 0
    THEN UNCHANGED <<draftCool, run>>
    ELSE /\ draftCool' = Opened(draftCool, task[d].key, DraftWindow)
         /\ run' = [run EXCEPT ![d] = "start"]

(* The record, kept or not; the draft; and the slot goes back. *)
FinishAnalysis(d) ==
    /\ task[d].pc = "persist"
    /\ Persisted(d, task[d].record)
    /\ TriggerDraft(d)
    /\ Release("event")
    /\ task' = [task EXCEPT ![d].pc = "end", ![d].record = NoRecord]
    /\ UNCHANGED <<status, kept, cool, began, answered, shown, orphan>>
-----------------------------------------------------------------------------
Request(m) ==
    /\ run[m] = "idle"
    /\ run' = [run EXCEPT ![m] = "start"]
    /\ UNCHANGED <<task, status, kept, Windows, slots, orphan, Reports>>

(* execute_scenario: a slot, or ScenarioBusyError before anything is       *)
(* written.                                                                *)
Begin(r) ==
    /\ run[r] = "start"
    /\ IF Free("scenario")
       THEN Acquire("scenario") /\ run' = [run EXCEPT ![r] = "insert"]
       ELSE UNCHANGED slots /\ run' = [run EXCEPT ![r] = "end"]
    /\ UNCHANGED <<task, status, kept, Windows, orphan, Reports>>

(* The 'running' row; a failing INSERT raises, and the slot goes back. *)
InsertRow(r) ==
    /\ run[r] = "insert"
    /\ \/ run' = [run EXCEPT ![r] = "compose"] /\ UNCHANGED slots
       \/ run' = [run EXCEPT ![r] = "end"] /\ Release("scenario")
    /\ UNCHANGED <<task, status, kept, Windows, orphan, Reports>>

(* compose and the terminal UPDATE, failing or not: finally releases. What *)
(* an event started is announced once its row is closed.                   *)
CloseRow(r) ==
    /\ run[r] = "compose"
    /\ \/ run' = [run EXCEPT ![r] = "end"]
       \/ r \in Deliveries /\ run' = [run EXCEPT ![r] = "announce"]
    /\ Release("scenario")
    /\ UNCHANGED <<task, status, kept, Windows, Reports, orphan>>

NotifyPostmortem(r) ==
    /\ run[r] = "announce"
    /\ SendFeishuMessage(<<"draft", r>>)
    /\ run' = [run EXCEPT ![r] = "end"]
    /\ UNCHANGED <<task, status, kept, Windows, slots, analysis, answered, unsaid, orphan>>
-----------------------------------------------------------------------------
Less(window) == [k \in Keys |-> IF window[k] > 0 THEN window[k] - 1 ELSE 0]

Tick ==
    /\ cool' = Less(cool) /\ draftCool' = Less(draftCool)
    /\ began' = Less(began)
    /\ UNCHANGED <<task, status, kept, slots, run, orphan, Reports>>

(* A restart kills every task and forgets every counter and window. *)
Restart ==
    /\ orphan' = orphan \cup InIntake
    /\ unsaid' = unsaid \cup {d \in Deliveries : task[d].pc \notin {"new", "end"}}
    /\ task' = [d \in Deliveries |->
                   IF task[d].pc = "new" THEN task[d]
                   ELSE [task[d] EXCEPT !.pc = "end", !.record = NoRecord]]
    /\ run' = [r \in Runs |-> IF run[r] = "idle" THEN "idle" ELSE "end"]
    /\ slots' = [intake |-> 0, event |-> 0, scenario |-> 0]
    /\ cool' = Zero /\ draftCool' = Zero /\ began' = Zero
    /\ UNCHANGED <<status, kept, analysis, answered, shown>>

DeliveryStep(d) ==
    \/ Refuse(d) \/ LogDelivery(d) \/ Process(d) \/ Update(d) \/ RecordFailure(d)
    \/ NoAnalysis(d) \/ SkipCooldown(d) \/ SkipConcurrency(d)
    \/ StartAnalysis(d) \/ Conclude(d) \/ Push(d) \/ FinishAnalysis(d)

ScenarioStep(r) == Begin(r) \/ InsertRow(r) \/ CloseRow(r) \/ NotifyPostmortem(r)

Next ==
    \/ \E d \in Deliveries : DeliveryStep(d) \/ \E k \in Keys \cup {NoKey} : Receive(d, k)
    \/ \E m \in Manual : Request(m)
    \/ \E r \in Runs : ScenarioStep(r)
    \/ Tick \/ Restart

Spec == Init /\ [][Next]_vars
-----------------------------------------------------------------------------
(* The counters equal the tasks that hold a slot, on every failure path,   *)
(* so capacity is never lost, and an analysis pins no intake slot          *)
(* (_process_delivery: "Every exit path releases the concurrency slot").   *)
SlotsAccounted ==
    /\ slots.intake = Cardinality(InIntake)
    /\ slots.event = Cardinality(InAnalysis)
    /\ slots.scenario = Cardinality(InScenario)

(* A cooldown window is open only because an analysis really began in it:  *)
(* events skipped for lack of a slot do not silence later ones ("don't     *)
(* burn the cooldown window on a run that never happened").                *)
CooldownBacked == \A k \in Keys : cool[k] > 0 => began[k] = cool[k]

(* An entity is analysed once per window, however many of its events       *)
(* arrive together or are skipped meanwhile (docs/deployment.md:199).      *)
OncePerWindow ==
    [][\A d \in Deliveries :
          d \notin InAnalysis /\ d \in InAnalysis' /\ task'[d].key # NoKey
            => began[task'[d].key] = 0]_vars

(* A delivery logged 'received' is in the hands of a task that will record *)
(* its outcome, unless the process died or the database refused both       *)
(* status updates (_webhook_tasks: the row "would silently never advance").*)
ReceivedInHand ==
    \A d \in Deliveries :
        status[d] = "received" =>
            task[d].pc \in {"extract", "update", "failing"} \/ d \in orphan

(* The analysis column, the cards and the drafts agree, whatever fails, is *)
(* killed or takes effect behind an error in between.  Only content that   *)
(* is stored or queued, by a row that says so, is analysed ("A delivery    *)
(* that failed to ingest gets no analysis", _process_delivery); a card is  *)
(* seen or answered only for a completed verdict worth one; the column     *)
(* says notified exactly when the webhook answered, which does not mean    *)
(* that the card is there; a draft runs, and is announced, only for a      *)
(* recurrence at the draft severity; a broken verdict causes neither; and  *)
(* a stored event without a record opted out, lost its task or was refused *)
(* by the database ("Skips are recorded ... so silence is distinguishable  *)
(* from 'not enabled'", maybe_analyze_event).                              *)
VerdictsAgree ==
    \A d \in Deliveries :
        LET sent == d \in answered \/ <<"analysis", d>> \in shown
            drafted == run[d] # "idle" \/ <<"draft", d>> \in shown
            over == task[d].pc = "end" /\ d \notin unsaid
        IN /\ d \in InAnalysis \/ analysis[d] # NoRecord \/ sent
                 => kept[d] # "nowhere" /\ status[d] = FinalStatus(kept[d])
           /\ analysis[d].notified => d \in answered
           /\ over /\ d \in answered => analysis[d].notified
           /\ over /\ sent => ShouldNotify(analysis[d].verdict)
           /\ over /\ drafted => Qualifies(analysis[d])
           /\ analysis[d].st \in {"failed", "skipped"} => ~sent /\ ~drafted
           /\ over /\ status[d] \in {"processed", "conflict_pending"} => analysis[d] # NoRecord
=============================================================================
