----------------------------- MODULE PatrolRuns ------------------------------
(***************************************************************************)
(* Unattended patrols of one type: run_patrol (runner/patrol.py), the      *)
(* polling loop and the catch-up check (runner/scheduler.py), the startup  *)
(* and shutdown code that drives them (main.py) and the manual trigger     *)
(* (api/routes/patrol_routes.py).                                          *)
(*                                                                         *)
(* Time is counted in ticks, and the local clock shows now plus the UTC    *)
(* offset in force; the schedule's slots are the multiples of Period on    *)
(* the local clock.  A slot the code holds (daily_slot, fired_for) is kept *)
(* as the moment it was computed at, from which its instant follows.       *)
(* Every run is one task and at most one row of patrol_logs; rows survive  *)
(* the process, tasks and the loop's marker do not.                        *)
(***************************************************************************)
EXTENDS Integers

CONSTANTS
    MaxRuns,        \* bound: patrol ids handed out
    MaxNow,         \* bound: ticks that elapse
    MaxStops,       \* bound: shutdowns and crashes
    Period,         \* ticks from one slot to the next on the local clock
    Offset          \* the UTC offset at every moment, daylight saving included

Moments == 0..MaxNow

ASSUME PatrolAssumption ==
    /\ {MaxRuns, MaxNow, MaxStops} \subseteq Nat
    /\ Period \in Nat \ {0}
    /\ Offset \in [Moments -> Int]

VARIABLES
    now,        \* the clock
    server,     \* where the lifespan of the process is
    due,        \* daily_slot: when the slot the startup checks was computed
    loop,       \* the polling loop, and when its marker fired_for was computed
    run,        \* the tasks, with the started_at of their rows
    log,        \* patrol_logs.status, the terminal ones as one
    waived,     \* history: slots this process gave up, by their instants
    stuck,      \* history: runs whose write this process saw fail
    stops       \* shutdowns and crashes so far

vars == <<now, server, due, loop, run, log, waived, stuck, stops>>

Runs == 1..MaxRuns

(* pc: idle, task, check, insert, agent, close, cancelled or end; by: cron,*)
(* catchup or manual; read: when the slot of a scheduled run was computed.  *)
IdleRun == [pc |-> "idle", by |-> "manual", read |-> 0, started |-> 0]

InHand == {r \in Runs : run[r].pc \notin {"idle", "end"}}
Scheduled == {r \in Runs : run[r].by # "manual"}
Running == {r \in Runs : log[r] = "running"}
Logged == {r \in Runs : log[r] # "none"}

NoLoop == [pc |-> "off", read |-> 0]

(* Ids are handed out in order. *)
Fresh(r) == run[r].pc = "idle" /\ \A s \in 1..(r - 1) : run[s].pc # "idle"

(* Tasks awaiting the INSERT or the final UPDATE of their row. *)
Writing == {r \in Runs : run[r].pc \in {"insert", "close", "cancelled"}}

Init ==
    /\ now = 0 /\ due = 0 /\ stops = 0
    /\ server = "down"
    /\ loop = NoLoop
    /\ run = [r \in Runs |-> IdleRun]
    /\ log = [r \in Runs |-> "none"]
    /\ waived = {} /\ stuck = {}

Goto(r, label) == run' = [run EXCEPT ![r].pc = label]

(* The row a statement leaves behind once it took effect. *)
Written(r) == IF run[r].pc = "insert" THEN "running" ELSE "over"

(* previous_daily_slot and previous_weekly_slot: the latest slot strictly  *)
(* before a moment, by the offset in force at that moment.                 *)
PreviousSlotAt(t) ==
    ((t + Offset[t] - 1) \div Period) * Period - Offset[t]

Elapse ==
    /\ now < MaxNow
    /\ now' = now + 1
    /\ UNCHANGED <<server, due, loop, run, log, waived, stuck, stops>>
-----------------------------------------------------------------------------
Boot ==
    /\ server = "down"
    /\ server' = "mark"
    /\ UNCHANGED <<now, due, loop, run, log, waived, stuck, stops>>

Swept_Nothing == log
Swept == [r \in Runs |-> IF log[r] = "running" THEN "over" ELSE log[r]]

(* mark_stale_patrols_failed; if it fails the process serves without a     *)
(* scheduler.                                                              *)
MarkStale ==
    /\ server = "mark"
    /\ \/ /\ log' = Swept
          /\ server' = "catchup" /\ due' = now
          /\ UNCHANGED stuck
       \/ /\ server' = "up"
          /\ stuck' = Running
          /\ UNCHANGED <<log, due>>
    /\ UNCHANGED <<now, loop, run, waived, stops>>

RanSince(slot) == \E r \in Logged : run[r].started >= slot

(* should_catch_up, the catch-up task, and the task of the loop. *)
CatchUp ==
    /\ server = "catchup"
    /\ server' = "up"
    /\ \/ /\ loop' = [loop EXCEPT !.pc = "seed"]
          /\ IF Logged = {} \/ RanSince(PreviousSlotAt(due))
             THEN /\ waived' = IF Logged = {} THEN waived \cup {PreviousSlotAt(due)}
                                ELSE waived
                  /\ UNCHANGED run
             ELSE /\ \E r \in Runs :
                        /\ Fresh(r)
                        /\ run' = [run EXCEPT ![r].pc = "task", ![r].by = "catchup",
                                              ![r].read = due]
                  /\ UNCHANGED waived
       \/ UNCHANGED <<loop, run, waived>>
    /\ UNCHANGED <<now, due, log, stuck, stops>>

Seeded_Unset == 0
Seeded == now

(* The loop starts; a slot that passed since the check is taken as done. *)
Seed ==
    /\ loop.pc = "seed"
    /\ loop' = [pc |-> "poll", read |-> Seeded]
    /\ waived' = IF PreviousSlotAt(now) # PreviousSlotAt(due)
                 THEN waived \cup {PreviousSlotAt(now)} ELSE waived
    /\ UNCHANGED <<now, server, due, run, log, stuck, stops>>

(* The loop awaits its callback, so one cron run is in hand at a time. *)
Fire(r) ==
    /\ loop.pc = "poll" /\ PreviousSlotAt(now) # PreviousSlotAt(loop.read)
    /\ \A s \in InHand : run[s].by # "cron"
    /\ Fresh(r)
    /\ loop' = [loop EXCEPT !.read = now]
    /\ run' = [run EXCEPT ![r].pc = "check", ![r].by = "cron",
                          ![r].read = now, ![r].started = now]
    /\ UNCHANGED <<now, server, due, log, waived, stuck, stops>>

(* POST /patrol/trigger *)
Trigger(r) ==
    /\ server = "up"
    /\ Fresh(r)
    /\ run' = [run EXCEPT ![r].pc = "task"]
    /\ UNCHANGED <<now, server, due, loop, log, waived, stuck, stops>>
-----------------------------------------------------------------------------
Begin(r) ==
    /\ run[r].pc = "task"
    /\ run' = [run EXCEPT ![r].pc = "check", ![r].started = now]
    /\ UNCHANGED <<now, server, due, loop, log, waived, stuck, stops>>

SlotOf(r) == PreviousSlotAt(run[r].read)

Waive(r) == waived' = IF r \in Scheduled THEN waived \cup {SlotOf(r)} ELSE waived

(* The overlap guard, a session of its own. *)
Check(r) ==
    /\ run[r].pc = "check"
    /\ \/ Running = {} /\ Goto(r, "insert") /\ UNCHANGED waived
       \/ Goto(r, "end") /\ Waive(r)       \* an overlapping run, or an error
    /\ UNCHANGED <<now, server, due, loop, log, stuck, stops>>

Insert(r) ==
    /\ run[r].pc = "insert"
    /\ log' = [log EXCEPT ![r] = Written(r)]
    /\ Goto(r, "agent")
    /\ UNCHANGED <<now, server, due, loop, waived, stuck, stops>>

(* The agent's run, bounded by PATROL_TIMEOUT, completed or not. *)
Execute(r) ==
    /\ run[r].pc = "agent"
    /\ Goto(r, "close")
    /\ UNCHANGED <<now, server, due, loop, log, waived, stuck, stops>>

Close(r) ==
    /\ run[r].pc \in {"close", "cancelled"}
    /\ log' = [log EXCEPT ![r] = Written(r)]
    /\ Goto(r, "end")
    /\ UNCHANGED <<now, server, due, loop, waived, stuck, stops>>

(* An INSERT or UPDATE that ends in an error or in a cancellation: it may  *)
(* have taken effect, and nobody will write the row again.                 *)
Abort(r) ==
    /\ \E committed \in BOOLEAN :
          log' = [log EXCEPT ![r] = IF committed THEN Written(r) ELSE @]
    /\ stuck' = IF log'[r] = "running" THEN stuck \cup {r} ELSE stuck
    /\ Goto(r, "end")
    /\ Waive(r)

WriteFails(r) ==
    /\ r \in Writing
    /\ Abort(r)
    /\ UNCHANGED <<now, server, due, loop, stops>>
-----------------------------------------------------------------------------
Stop ==
    /\ server = "up" /\ stops < MaxStops
    /\ server' = "stopping" /\ stops' = stops + 1
    /\ loop' = NoLoop
    /\ UNCHANGED <<now, due, run, log, waived, stuck>>

AfterCancel_End == "end"
AfterCancel == "cancelled"

(* The shutdown cancels scheduled and catch-up runs, and waits for them;   *)
(* the end of the event loop cancels what else is in hand.                 *)
Cancel(r) ==
    /\ server = "stopping"
    /\ \/ /\ run[r].pc \in {"task", "check"}
          /\ Goto(r, "end")
          /\ UNCHANGED <<log, waived, stuck>>
       \/ run[r].pc \in {"insert", "close"} /\ Abort(r)
       \/ /\ run[r].pc = "agent"
          /\ Goto(r, AfterCancel)
          /\ UNCHANGED <<log, waived, stuck>>
    /\ UNCHANGED <<now, server, due, loop, stops>>

(* The process ends, and every task with it. *)
Die ==
    /\ server' = "down"
    /\ loop' = NoLoop /\ due' = 0 /\ waived' = {} /\ stuck' = {}
    /\ \E committed \in SUBSET Writing :
          log' = [r \in Runs |-> IF r \in committed THEN Written(r) ELSE log[r]]
    /\ run' = [r \in Runs |->
                  CASE log'[r] # "none"     -> [run[r] EXCEPT !.pc = "end"]
                    [] run[r].pc = "idle"   -> IdleRun
                    [] OTHER                -> [IdleRun EXCEPT !.pc = "end"]]
    /\ UNCHANGED now

Exit ==
    /\ server = "stopping"
    /\ InHand \cap Scheduled = {}
    /\ Die
    /\ UNCHANGED stops

Crash ==
    /\ server # "down" /\ stops < MaxStops
    /\ Die
    /\ stops' = stops + 1

RunStep(r) ==
    Begin(r) \/ Check(r) \/ Insert(r) \/ Execute(r) \/ Close(r) \/ WriteFails(r)

Startup == Boot \/ MarkStale \/ CatchUp \/ Seed

Next ==
    \/ Elapse \/ Startup \/ Stop \/ Exit \/ Crash
    \/ \E r \in Runs : Fire(r) \/ Trigger(r) \/ RunStep(r) \/ Cancel(r)

Spec == Init /\ [][Next]_vars

(* The service is restarted after it stopped, every await ends (the agent's *)
(* by PATROL_TIMEOUT) and a cancellation is delivered: as long as any of    *)
(* these can happen, some of them does.                                     *)
Progress == Startup \/ Exit \/ \E r \in Runs : RunStep(r) \/ Cancel(r)

FairSpec == Spec /\ WF_vars(Progress)
-----------------------------------------------------------------------------
(* Once a process has swept its predecessor's rows, a row says 'running'   *)
(* only while a task works on it, or after the database refused that       *)
(* task's write: otherwise "the overlap guard would skip every future      *)
(* patrol of this type until restart" (run_patrol).                        *)
RunningInHand ==
    server \notin {"down", "mark"} => Running \subseteq InHand \cup stuck

(* Two computations of one slot, with the same offset in force throughout. *)
SameSlot(t, u) ==
    /\ PreviousSlotAt(t) = PreviousSlotAt(u)
    /\ \A v \in (t..u) \cup (u..t) : Offset[v] = Offset[t]

SlotRunOnce ==
    \A r, s \in Scheduled \cap Logged : SameSlot(run[r].read, run[s].read) => r = s

SlotServedOrWaived ==
    loop.pc = "poll" /\ InHand \cap Scheduled = {} =>
        LET slot == PreviousSlotAt(loop.read)
        IN  slot \in waived \/ \E r \in Logged : run[r].started >= slot

(* Over restarts, catch-up and the loop's seeding together a slot gets at  *)
(* most one scheduled run ("caught up once", scheduler.py), unless the UTC *)
(* offset changed meanwhile, which makes the loop take the slot for a new  *)
(* one; and at least one: when the loop waits for its next slot and no     *)
(* scheduled run is under way, the slot it holds for done has a run        *)
(* started since, or was given up for a reason: a fresh install, an        *)
(* overlapping run, a database error, or a startup that straddled it.  A   *)
(* slot that passed while the server was down is not lost, and none is     *)
(* lost to a change of the offset.                                         *)
SlotServedOnce == SlotRunOnce /\ SlotServedOrWaived

(* No row stays 'running' for ever, except by a refused write: over and    *)
(* over the rows still 'running' are down to those.                        *)
RowsTerminate == []<>(Running \subseteq stuck)
=============================================================================
