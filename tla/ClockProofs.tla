----------------------------- MODULE ClockProofs -----------------------------
(***************************************************************************)
(* TLAPS proofs about the two components that live by the clock: the       *)
(* breakers of Resilience, for any number of calls, threshold, cooldown    *)
(* and attempts, and the patrols of PatrolRuns, for any number of runs,    *)
(* slots, crashes and restarts.                                            *)
(***************************************************************************)
EXTENDS Resilience, PatrolRuns, TLAPS

(* PatrolRuns. *)

Unlogged == {"idle", "task", "check", "insert"}

Task == [pc : Unlogged \cup {"agent", "close", "cancelled", "end"},
         by : {"cron", "catchup", "manual"}, read : Moments, started : Moments]

Row == {"none", "running", "over"}

(* The process, its tasks and the rows have their types.                   *)
PatrolTypeOK ==
    /\ now \in Moments /\ due \in Moments /\ stops \in Nat
    /\ server \in {"down", "mark", "catchup", "up", "stopping"}
    /\ loop \in [pc : {"off", "seed", "poll"}, read : Moments]
    /\ run \in [Runs -> Task]
    /\ log \in [Runs -> Row]
    /\ waived \subseteq Int /\ stuck \subseteq Runs

Starting == {"down", "mark", "catchup"}

(* No task runs before the sweep and the catch-up check are over, and no   *)
(* loop but while the process serves.                                      *)
Lifecycle ==
    /\ due <= now /\ loop.read <= now
    /\ loop.pc # "off" => server = "up"
    /\ server \in Starting => InHand = {}

(* A scheduled run that has a row, or may still get one.                   *)
Tracked(r) == r \in Scheduled /\ (r \in Logged \/ r \in InHand)

(* What is true of a run by the place its task has reached.                *)
RunSound(r) ==
    /\ run[r].pc = "idle" => run[r] = IdleRun
    /\ run[r].pc \in Unlogged => log[r] = "none"
    /\ log[r] = "running" => r \in InHand \/ r \in stuck \/ server \in {"down", "mark"}
    /\ Tracked(r) =>
          /\ run[r].read <= now
          /\ run[r].pc # "task" => run[r].read <= run[r].started
          /\ loop.pc = "poll" => run[r].read <= loop.read

RunsSound == \A r \in Runs : RunSound(r)

SlotsUnique == \A r, s \in Runs :
    Tracked(r) /\ Tracked(s) /\ SameSlot(run[r].read, run[s].read) => r = s

(* A slot the process knows of was given up, has a run started since, or   *)
(* its scheduled run is under way.                                         *)
Covered(slot) ==
    \/ slot \in waived
    \/ RanSince(slot)
    \/ \E r \in InHand \cap Scheduled : SlotOf(r) = slot

SlotsCovered ==
    /\ loop.pc = "seed" => Covered(PreviousSlotAt(due))
    /\ loop.pc = "poll" => Covered(PreviousSlotAt(loop.read))

RInv == PatrolTypeOK /\ Lifecycle /\ RunsSound /\ SlotsUnique /\ SlotsCovered
-----------------------------------------------------------------------------
(* The slot computed at a moment lies before it, and never goes back while *)
(* the offset stays the same.                                              *)
LEMMA Floor ==
    ASSUME NEW a \in Int, NEW p \in Nat \ {0}
    PROVE  /\ a \div p \in Int
           /\ (a \div p) * p <= a /\ a < (a \div p) * p + p
OBVIOUS

LEMMA SlotBefore ==
    ASSUME NEW t \in Moments
    PROVE  PreviousSlotAt(t) \in Int /\ PreviousSlotAt(t) < t
<1>1. t \in Int /\ Offset[t] \in Int /\ Period \in Nat \ {0}
  BY PatrolAssumption DEF Moments
<1>2. t + Offset[t] - 1 \in Int
  BY <1>1
<1>3. QED BY <1>1, <1>2, Floor DEF PreviousSlotAt

LEMMA FloorMonotone ==
    ASSUME NEW a \in Int, NEW b \in Int, a <= b, NEW p \in Nat \ {0}
    PROVE  (a \div p) * p <= (b \div p) * p
<1> DEFINE m == a \div p
           n == b \div p
<1>1. m \in Int /\ n \in Int /\ m * p <= a /\ b < n * p + p
  BY Floor
<1> HIDE DEF m, n
<1>2. m * p < (n + 1) * p
  BY <1>1
<1>3. m < n + 1
  <2>1. CASE m >= n + 1
    <3>1. (m - (n + 1)) * p >= 0
      BY <1>1, <2>1
    <3>2. QED BY <1>1, <1>2, <3>1
  <2>2. QED BY <1>1, <2>1
<1>4. (n - m) * p >= 0
  BY <1>1, <1>3
<1>5. QED BY <1>1, <1>4 DEF m, n

LEMMA SlotMonotone ==
    ASSUME NEW t \in Moments, NEW u \in Moments, t <= u, Offset[t] = Offset[u]
    PROVE  PreviousSlotAt(t) <= PreviousSlotAt(u)
<1>1. t \in Int /\ u \in Int /\ Offset[t] \in Int /\ Period \in Nat \ {0}
  BY PatrolAssumption DEF Moments
<1>2. /\ t + Offset[t] - 1 \in Int /\ u + Offset[u] - 1 \in Int
      /\ t + Offset[t] - 1 <= u + Offset[u] - 1
  BY <1>1
<1> DEFINE m == ((t + Offset[t] - 1) \div Period) * Period
           n == ((u + Offset[u] - 1) \div Period) * Period
<1>3. m <= n /\ m \in Int /\ n \in Int
  BY <1>1, <1>2, FloorMonotone, Floor
<1> HIDE DEF m, n
<1>4. QED BY <1>1, <1>3 DEF PreviousSlotAt, m, n

(* Between two computations of a slot no other slot comes up.              *)
LEMMA SlotBetween ==
    ASSUME NEW t \in Moments, NEW v \in Moments, NEW u \in Moments,
           t <= v, v <= u, SameSlot(t, u)
    PROVE  PreviousSlotAt(v) = PreviousSlotAt(u)
<1>1. Offset[v] = Offset[t] /\ Offset[u] = Offset[t]
  BY DEF SameSlot, Moments
<1>2. PreviousSlotAt(t) <= PreviousSlotAt(v) /\ PreviousSlotAt(v) <= PreviousSlotAt(u)
  BY <1>1, SlotMonotone
<1>3. QED BY <1>2, SlotBefore DEF SameSlot

LEMMA SameSlotSymmetric ==
    ASSUME NEW t \in Moments, NEW u \in Moments, SameSlot(t, u)
    PROVE  SameSlot(u, t)
BY DEF SameSlot, Moments

LEMMA IdleRunType ==
    /\ IdleRun \in Task /\ IdleRun.pc = "idle" /\ IdleRun.by = "manual"
    /\ [IdleRun EXCEPT !.pc = "end"] \in Task
    /\ [IdleRun EXCEPT !.pc = "end"].pc = "end"
    /\ [IdleRun EXCEPT !.pc = "end"].by = "manual"
BY PatrolAssumption DEF IdleRun, Task, Unlogged, Moments

LEMMA InitRInv == Init => RInv
<1> SUFFICES ASSUME Init PROVE RInv
  OBVIOUS
<1> USE IdleRunType, PatrolAssumption DEF Init, NoLoop, Moments
<1>1. PatrolTypeOK
  BY DEF PatrolTypeOK, Row
<1>2. InHand = {} /\ \A r \in Runs : ~Tracked(r)
  BY DEF InHand, Scheduled, Tracked
<1>3. Lifecycle
  BY <1>2 DEF Lifecycle
<1>4. RunsSound
  BY <1>2 DEF RunsSound, RunSound
<1>5. SlotsUnique /\ SlotsCovered
  BY <1>2 DEF SlotsUnique, SlotsCovered
<1>6. QED BY <1>1, <1>3, <1>4, <1>5 DEF RInv
-----------------------------------------------------------------------------
(* A run under way moves on, with whatever it writes to its row.           *)
LEMMA RunMoves ==
    ASSUME RInv, NEW r \in InHand, NEW new \in Task, NEW row \in Row,
           run' = [run EXCEPT ![r] = new], log' = [log EXCEPT ![r] = row],
           UNCHANGED <<now, server, due, loop, stops>>,
           waived \subseteq waived', waived' \subseteq Int,
           stuck \subseteq stuck', stuck' \subseteq Runs,
           new.pc # "idle", new.by = run[r].by, new.read = run[r].read,
           new.pc \in Unlogged => row = "none",
           log[r] # "none" => row # "none" /\ new.started = run[r].started,
           row = "running" => new.pc # "end" \/ r \in stuck',
           new.pc # "task" => new.started = run[r].started \/ new.started = now,
           new.pc = "task" => run[r].pc = "task",
           run[r].pc = "task" /\ new.pc \notin {"task", "end"} => new.started = now,
           new.pc = "end" /\ r \in Scheduled /\ loop.pc # "off"
              => SlotOf(r) \in waived' \/ (row # "none" /\ run[r].read <= new.started),
           new.pc = "end" /\ run[r].pc = "task" => row = "none"
    PROVE  RInv'
<1> USE DEF RInv, PatrolTypeOK
<1>1. /\ r \in Runs /\ run' \in [Runs -> Task] /\ log' \in [Runs -> Row]
      /\ run'[r] = new /\ log'[r] = row
      /\ \A s \in Runs \ {r} : run'[s] = run[s] /\ log'[s] = log[s]
  BY DEF InHand
<1>2. PatrolTypeOK'
  BY <1>1
<1>3. server \notin Starting
  BY DEF Lifecycle
<1>4. /\ \A s \in Runs \ {r} : (s \in InHand' <=> s \in InHand)
                                /\ (s \in Logged' <=> s \in Logged)
      /\ \A s \in Runs : s \in Scheduled' <=> s \in Scheduled
      /\ \A s \in Runs : s \in Logged => s \in Logged'
      /\ \A s \in Runs : Tracked(s)' => Tracked(s)
      /\ r \in InHand' <=> new.pc # "end"
  BY <1>1 DEF InHand, Scheduled, Logged, Tracked, Row
<1>5. Lifecycle'
  BY <1>3 DEF Lifecycle
<1>6. RunsSound'
  <2>1. RunSound(r)'
    <3>1. RunSound(r)
      BY <1>1 DEF RunsSound
    <3>2. row = "running" => r \in InHand' \/ r \in stuck'
      BY <1>4
    <3>3. ASSUME Tracked(r)'
          PROVE  /\ new.read <= now
                 /\ new.pc # "task" => new.read <= new.started
                 /\ loop.pc = "poll" => new.read <= loop.read
      <4>1. Tracked(r) /\ new.read \in Nat /\ new.started \in Nat
        BY <1>4, <3>3, <1>1 DEF Task, Moments
      <4>2. new.pc = "end" => row # "none"
        BY <1>1, <1>4, <3>3 DEF Tracked, Logged
      <4>3. run[r].read <= now /\ (loop.pc = "poll" => run[r].read <= loop.read)
        BY <3>1, <4>1 DEF RunSound
      <4>4. ASSUME new.pc # "task" PROVE new.read <= new.started
        <5>1. CASE run[r].pc = "task"
          BY <4>1, <4>2, <4>3, <4>4, <5>1
        <5>2. CASE run[r].pc # "task"
          <6>1. run[r].read <= run[r].started
            BY <3>1, <4>1, <5>2 DEF RunSound
          <6>2. QED BY <4>3, <4>4, <6>1
        <5>3. QED BY <5>1, <5>2
      <4>5. QED BY <4>3, <4>4
    <3>4. run'[r].pc = "idle" => run'[r] = IdleRun
      BY <1>1
    <3>5. run'[r].pc \in Unlogged => log'[r] = "none"
      BY <1>1
    <3>6. log'[r] = "running" => r \in InHand' \/ r \in stuck'
      BY <1>1, <3>2
    <3>7. Tracked(r)' => /\ run'[r].read <= now'
                         /\ run'[r].pc # "task" => run'[r].read <= run'[r].started
                         /\ loop'.pc = "poll" => run'[r].read <= loop'.read
      BY <1>1, <3>3
    <3>8. QED BY <3>4, <3>5, <3>6, <3>7 DEF RunSound
  <2>2. ASSUME NEW s \in Runs \ {r} PROVE RunSound(s)'
    <3>1. RunSound(s) /\ run'[s] = run[s] /\ log'[s] = log[s]
      BY <1>1 DEF RunsSound
    <3>2. QED BY <1>4, <3>1 DEF RunSound
  <2>3. QED BY <2>1, <2>2 DEF RunsSound
<1>7. SlotsUnique'
  <2>1. \A s \in Runs : run'[s].read = run[s].read
    BY <1>1
  <2>2. QED BY <1>4, <2>1 DEF SlotsUnique
<1>8. ASSUME NEW slot, Covered(slot), loop.pc # "off" PROVE Covered(slot)'
  <2>1. CASE slot \in waived
    BY <2>1 DEF Covered
  <2>2. CASE RanSince(slot)
    <3>1. PICK s \in Logged : run[s].started >= slot
      BY <2>2 DEF RanSince
    <3>2. s \in Logged' /\ run'[s].started = run[s].started
      BY <1>1, <1>4, <3>1 DEF Logged
    <3>3. QED BY <3>1, <3>2 DEF Covered, RanSince
  <2>3. CASE \E s \in InHand \cap Scheduled : SlotOf(s) = slot
    <3>1. PICK s \in InHand \cap Scheduled : SlotOf(s) = slot
      BY <2>3
    <3>2. s \in Runs
      BY <3>1 DEF InHand
    <3>3. CASE s # r \/ new.pc # "end"
      <4>1. s \in InHand' \cap Scheduled' /\ SlotOf(s)' = slot
        BY <1>1, <1>4, <3>1, <3>2, <3>3 DEF SlotOf
      <4>2. QED BY <4>1 DEF Covered
    <3>4. CASE s = r /\ new.pc = "end"
      <4>1. CASE slot \in waived'
        BY <4>1 DEF Covered
      <4>2. CASE row # "none" /\ run[r].read <= new.started
        <5>1. slot \in Int /\ slot < run[r].read /\ run[r].read \in Int /\ new.started \in Int
          BY <3>1, <3>2, <3>4, SlotBefore DEF SlotOf, Task, Moments
        <5>2. r \in Logged' /\ run'[r].started >= slot
          BY <1>1, <3>4, <4>2, <5>1 DEF Logged
        <5>3. QED BY <5>2 DEF Covered, RanSince
      <4>3. QED BY <1>8, <3>1, <3>4, <4>1, <4>2
    <3>5. QED BY <3>3, <3>4
  <2>4. QED BY <1>8, <2>1, <2>2, <2>3 DEF Covered
<1>9. SlotsCovered'
  BY <1>8 DEF SlotsCovered
<1>10. QED BY <1>2, <1>5, <1>6, <1>7, <1>9

LEMMA BeginKeeps == ASSUME RInv, NEW r \in Runs, Begin(r) PROVE RInv'
<1> DEFINE new == [run[r] EXCEPT !.pc = "check", !.started = now]
<1> USE DEF RInv, PatrolTypeOK
<1>1. /\ run[r].pc = "task" /\ run' = [run EXCEPT ![r] = new]
      /\ UNCHANGED <<now, server, due, loop, log, waived, stuck, stops>>
  BY DEF Begin
<1>2. /\ r \in InHand /\ log[r] = "none" /\ log' = [log EXCEPT ![r] = "none"]
      /\ "none" \in Row
  BY <1>1 DEF InHand, RunsSound, RunSound, Unlogged, Row
<1>3. /\ new \in Task /\ new.pc = "check" /\ new.by = run[r].by
      /\ new.read = run[r].read /\ new.started = now
  BY DEF Task, Unlogged
<1> HIDE DEF new
<1>4. QED BY <1>1, <1>2, <1>3, RunMoves

(* The step of a run that only moves its task, and its row perhaps.        *)
LEMMA Goes ==
    ASSUME RInv, NEW r \in InHand, NEW row \in Row,
           NEW label \in {"insert", "agent", "close", "cancelled", "end"},
           Goto(r, label),
           log' = [log EXCEPT ![r] = row],
           UNCHANGED <<now, server, due, loop, stops>>,
           waived \subseteq waived', waived' \subseteq Int,
           stuck \subseteq stuck', stuck' \subseteq Runs,
           run[r].pc = "task" => label = "end" /\ row = "none",
           label = "insert" => row = "none",
           log[r] # "none" => row # "none",
           row = "running" => label # "end" \/ r \in stuck',
           label = "end" /\ r \in Scheduled /\ loop.pc # "off"
              => SlotOf(r) \in waived' \/ row # "none"
    PROVE  RInv'
<1> DEFINE new == [run[r] EXCEPT !.pc = label]
<1> USE DEF RInv, PatrolTypeOK
<1>1. run' = [run EXCEPT ![r] = new]
  BY DEF Goto
<1>2. r \in Runs /\ run[r] \in Task
  BY DEF InHand
<1>3. /\ new \in Task /\ new.pc = label /\ new.by = run[r].by
      /\ new.read = run[r].read /\ new.started = run[r].started
  BY <1>2 DEF Task, Unlogged
<1>4. r \in Scheduled /\ run[r].pc # "task" => run[r].read <= run[r].started
  BY <1>2 DEF RunsSound, RunSound, Tracked
<1> HIDE DEF new
<1>5. label = "insert" <=> label \in Unlogged
  BY DEF Unlogged
<1>6. RInv /\ (run[r].pc = "task" => label \notin {"insert", "agent", "close", "cancelled"})
  OBVIOUS
<1> HIDE DEF RInv, PatrolTypeOK
<1>7. QED BY <1>1, <1>2, <1>3, <1>4, <1>5, <1>6, RunMoves

LEMMA CheckKeeps == ASSUME RInv, NEW r \in Runs, Check(r) PROVE RInv'
<1> USE DEF RInv, PatrolTypeOK
<1>1. /\ run[r].pc = "check" /\ UNCHANGED <<now, server, due, loop, log, stuck, stops>>
  BY DEF Check
<1>2. /\ r \in InHand /\ log[r] = "none" /\ log' = [log EXCEPT ![r] = "none"]
      /\ "none" \in Row
  BY <1>1 DEF InHand, RunsSound, RunSound, Unlogged, Row
<1>3. CASE Goto(r, "insert") /\ UNCHANGED waived
  BY <1>1, <1>2, <1>3, Goes
<1>4. CASE Goto(r, "end") /\ Waive(r)
  <2>1. /\ waived \subseteq waived' /\ waived' \subseteq Int
        /\ r \in Scheduled => SlotOf(r) \in waived'
    BY <1>4, SlotBefore DEF Waive, SlotOf, Task
  <2>2. QED BY <1>1, <1>2, <1>4, <2>1, Goes
<1>5. QED BY <1>3, <1>4 DEF Check

LEMMA InsertKeeps == ASSUME RInv, NEW r \in Runs, Insert(r) PROVE RInv'
<1> USE DEF RInv, PatrolTypeOK
<1>1. /\ run[r].pc = "insert" /\ Goto(r, "agent") /\ log' = [log EXCEPT ![r] = "running"]
      /\ UNCHANGED <<now, server, due, loop, waived, stuck, stops>>
  BY DEF Insert, Written
<1>2. r \in InHand /\ "running" \in Row
  BY <1>1 DEF InHand, Row
<1>3. QED BY <1>1, <1>2, Goes

LEMMA ExecuteKeeps == ASSUME RInv, NEW r \in Runs, Execute(r) PROVE RInv'
<1> USE DEF RInv, PatrolTypeOK
<1>1. /\ run[r].pc = "agent" /\ Goto(r, "close") /\ log' = [log EXCEPT ![r] = log[r]]
      /\ UNCHANGED <<now, server, due, loop, waived, stuck, stops>>
  BY DEF Execute
<1>2. r \in InHand /\ log[r] \in Row
  BY <1>1 DEF InHand
<1>3. QED BY <1>1, <1>2, Goes

LEMMA CloseKeeps == ASSUME RInv, NEW r \in Runs, Close(r) PROVE RInv'
<1> USE DEF RInv, PatrolTypeOK
<1>1. /\ run[r].pc \in {"close", "cancelled"} /\ Goto(r, "end")
      /\ log' = [log EXCEPT ![r] = "over"]
      /\ UNCHANGED <<now, server, due, loop, waived, stuck, stops>>
  BY DEF Close, Written
<1>2. r \in InHand /\ "over" \in Row
  BY <1>1 DEF InHand, Row
<1>3. QED BY <1>1, <1>2, Goes

(* A write that fails or is cancelled ends its task; the slot is given up. *)
LEMMA AbortKeeps ==
    ASSUME RInv, NEW r \in Writing, Abort(r), UNCHANGED <<now, server, due, loop, stops>>
    PROVE  RInv'
<1> USE DEF RInv, PatrolTypeOK
<1>1. r \in Runs /\ r \in InHand /\ run[r].pc # "task" /\ run[r] \in Task
  BY DEF Writing, InHand
<1>2. PICK row \in Row :
         log' = [log EXCEPT ![r] = row] /\ (log[r] # "none" => row # "none")
  BY <1>1 DEF Abort, Written, Row
<1>3. log'[r] = row
  BY <1>1, <1>2
<1>4. /\ stuck \subseteq stuck' /\ stuck' \subseteq Runs
      /\ row = "running" => r \in stuck'
  BY <1>1, <1>3 DEF Abort
<1>5. /\ waived \subseteq waived' /\ waived' \subseteq Int
      /\ r \in Scheduled => SlotOf(r) \in waived'
  BY <1>1, SlotBefore DEF Abort, Waive, SlotOf, Task
<1>6. Goto(r, "end")
  BY DEF Abort
<1>7. QED BY <1>1, <1>2, <1>4, <1>5, <1>6, Goes

LEMMA CancelKeeps == ASSUME RInv, NEW r \in Runs, Cancel(r) PROVE RInv'
<1> USE DEF RInv, PatrolTypeOK
<1>1. server = "stopping" /\ UNCHANGED <<now, server, due, loop, stops>>
  BY DEF Cancel
<1>2. loop.pc = "off"
  BY <1>1 DEF Lifecycle
<1>3. CASE run[r].pc \in {"task", "check"} /\ Goto(r, "end") /\ UNCHANGED <<log, waived, stuck>>
  <2>1. /\ r \in InHand /\ log[r] = "none" /\ log' = [log EXCEPT ![r] = "none"]
        /\ "none" \in Row
    BY <1>3 DEF InHand, RunsSound, RunSound, Unlogged, Row
  <2>2. QED BY <1>1, <1>2, <1>3, <2>1, Goes
<1>4. CASE run[r].pc \in {"insert", "close"} /\ Abort(r)
  BY <1>1, <1>4, AbortKeeps DEF Writing
<1>5. CASE run[r].pc = "agent" /\ Goto(r, AfterCancel) /\ UNCHANGED <<log, waived, stuck>>
  <2>1. r \in InHand /\ log[r] \in Row /\ log' = [log EXCEPT ![r] = log[r]]
    BY <1>5 DEF InHand
  <2>2. QED BY <1>1, <1>5, <2>1, Goes DEF AfterCancel
<1>6. QED BY <1>3, <1>4, <1>5 DEF Cancel
-----------------------------------------------------------------------------
(* What no step on the process alone changes.                              *)
LEMMA RunsAlone ==
    ASSUME UNCHANGED <<run, log>>
    PROVE  /\ InHand' = InHand /\ Scheduled' = Scheduled /\ Logged' = Logged
           /\ \A r \in Runs : Tracked(r)' <=> Tracked(r)
           /\ \A slot : RanSince(slot)' <=> RanSince(slot)
           /\ \A slot : Covered(slot) /\ waived \subseteq waived' => Covered(slot)'
           /\ SlotsUnique => SlotsUnique'
<1>1. InHand' = InHand /\ Scheduled' = Scheduled /\ Logged' = Logged
  BY DEF InHand, Scheduled, Logged
<1>2. \A r \in Runs : Tracked(r)' <=> Tracked(r)
  BY <1>1 DEF Tracked
<1>3. \A slot : RanSince(slot)' <=> RanSince(slot)
  BY <1>1 DEF RanSince
<1>4. ASSUME NEW slot, Covered(slot), waived \subseteq waived' PROVE Covered(slot)'
  BY <1>1, <1>3, <1>4 DEF Covered, SlotOf
<1>5. SlotsUnique => SlotsUnique'
  BY <1>2 DEF SlotsUnique
<1>6. QED BY <1>1, <1>2, <1>3, <1>4, <1>5

LEMMA ElapseKeeps == ASSUME RInv, Elapse PROVE RInv'
<1> USE DEF RInv, PatrolTypeOK
<1>1. /\ now' = now + 1 /\ now' \in Moments
      /\ UNCHANGED <<server, due, loop, run, log, waived, stuck, stops>>
  BY PatrolAssumption DEF Elapse, Moments
<1>2. PatrolTypeOK'
  BY <1>1
<1>3. Lifecycle'
  BY <1>1, RunsAlone DEF Lifecycle, Moments
<1>4. RunsSound'
  <2> SUFFICES ASSUME NEW r \in Runs PROVE RunSound(r)'
    BY DEF RunsSound
  <2>1. RunSound(r) /\ run[r] \in Task
    BY DEF RunsSound
  <2>2. Tracked(r)' => run'[r].read <= now'
    BY <1>1, <2>1, RunsAlone DEF RunSound, Task, Moments
  <2>3. QED BY <1>1, <2>1, <2>2, RunsAlone DEF RunSound
<1>5. SlotsUnique' /\ SlotsCovered'
  BY <1>1, RunsAlone DEF SlotsCovered
<1>6. QED BY <1>2, <1>3, <1>4, <1>5

LEMMA BootKeeps == ASSUME RInv, Boot PROVE RInv'
<1> USE DEF RInv, PatrolTypeOK
<1>1. /\ server = "down" /\ server' = "mark"
      /\ UNCHANGED <<now, due, loop, run, log, waived, stuck, stops>>
  BY DEF Boot
<1>2. PatrolTypeOK'
  BY <1>1
<1>3. Lifecycle'
  BY <1>1, RunsAlone DEF Lifecycle, Starting
<1>4. RunsSound'
  BY <1>1, RunsAlone DEF RunsSound, RunSound
<1>5. SlotsUnique' /\ SlotsCovered'
  BY <1>1, RunsAlone DEF SlotsCovered
<1>6. QED BY <1>2, <1>3, <1>4, <1>5

(* The sweep, or its failure, leaves no row 'running' without a reason.    *)
LEMMA MarkStaleKeeps == ASSUME RInv, MarkStale PROVE RInv'
<1> USE DEF RInv, PatrolTypeOK
<1>1. /\ server = "mark" /\ server' \in {"catchup", "up"}
      /\ UNCHANGED <<now, loop, run, waived, stops>>
  BY DEF MarkStale
<1>2. InHand = {} /\ loop.pc = "off"
  BY <1>1 DEF Lifecycle, Starting
<1>3. /\ due' \in Moments /\ due' <= now /\ log' \in [Runs -> Row] /\ stuck' \subseteq Runs
      /\ \A r \in Runs : (log'[r] # "none" <=> log[r] # "none")
                         /\ (log'[r] = "running" => r \in stuck')
  <2>1. CASE log' = Swept /\ due' = now /\ UNCHANGED stuck
    BY <2>1 DEF Swept, Row, Moments
  <2>2. CASE stuck' = Running /\ UNCHANGED <<log, due>>
    BY <2>2 DEF Running, Lifecycle
  <2>3. QED BY <2>1, <2>2 DEF MarkStale
<1>4. PatrolTypeOK'
  BY <1>1, <1>3
<1>5. InHand' = {} /\ \A r \in Runs : Tracked(r)' <=> Tracked(r)
  BY <1>1, <1>2, <1>3 DEF InHand, Tracked, Scheduled, Logged
<1>6. Lifecycle'
  BY <1>1, <1>2, <1>3, <1>5 DEF Lifecycle
<1>7. RunsSound'
  <2> SUFFICES ASSUME NEW r \in Runs PROVE RunSound(r)'
    BY DEF RunsSound
  <2>1. RunSound(r)
    BY DEF RunsSound
  <2>2. run[r].pc \in Unlogged => log'[r] = "none"
    BY <1>3, <2>1 DEF RunSound
  <2>3. QED BY <1>1, <1>2, <1>3, <1>5, <2>1, <2>2 DEF RunSound
<1>8. SlotsUnique' /\ SlotsCovered'
  BY <1>1, <1>2, <1>5 DEF SlotsUnique, SlotsCovered
<1>9. QED BY <1>4, <1>6, <1>7, <1>8

LEMMA SeedKeeps == ASSUME RInv, Seed PROVE RInv'
<1> USE DEF RInv, PatrolTypeOK
<1>1. /\ loop.pc = "seed" /\ loop' = [pc |-> "poll", read |-> now]
      /\ UNCHANGED <<now, server, due, run, log, stuck, stops>>
      /\ waived \subseteq waived' /\ waived' \subseteq Int
      /\ PreviousSlotAt(now) = PreviousSlotAt(due) \/ PreviousSlotAt(now) \in waived'
  BY SlotBefore DEF Seed, Seeded
<1>2. PatrolTypeOK'
  BY <1>1
<1>3. Lifecycle'
  BY <1>1, RunsAlone DEF Lifecycle, Moments
<1>4. RunsSound'
  BY <1>1, RunsAlone DEF RunsSound, RunSound
<1>5. Covered(PreviousSlotAt(now))'
  <2>1. PreviousSlotAt(now) \in waived' => Covered(PreviousSlotAt(now))'
    BY <1>1 DEF Covered, PreviousSlotAt
  <2>2. QED BY <1>1, <2>1, RunsAlone DEF SlotsCovered
<1>6. SlotsUnique' /\ SlotsCovered'
  BY <1>1, <1>5, RunsAlone DEF SlotsCovered
<1>7. QED BY <1>2, <1>3, <1>4, <1>6

LEMMA StopKeeps == ASSUME RInv, Stop PROVE RInv'
<1> USE DEF RInv, PatrolTypeOK
<1>1. /\ server = "up" /\ server' = "stopping" /\ stops' \in Nat /\ loop' = NoLoop
      /\ UNCHANGED <<now, due, run, log, waived, stuck>>
  BY DEF Stop
<1>2. loop' \in [pc : {"off", "seed", "poll"}, read : Moments]
      /\ loop'.pc = "off" /\ loop'.read = 0
  BY <1>1, PatrolAssumption DEF NoLoop, Moments
<1>3. PatrolTypeOK'
  BY <1>1, <1>2
<1>4. Lifecycle'
  BY <1>1, <1>2 DEF Lifecycle, Starting, Moments
<1>5. RunsSound'
  BY <1>1, <1>2, RunsAlone DEF RunsSound, RunSound
<1>6. SlotsUnique' /\ SlotsCovered'
  BY <1>1, <1>2, RunsAlone DEF SlotsCovered
<1>7. QED BY <1>3, <1>4, <1>5, <1>6
-----------------------------------------------------------------------------
(* A run is started, by hand or for a slot no other run is tracked for.    *)
LEMMA Launched ==
    ASSUME RInv, NEW r \in Runs, run[r].pc = "idle", NEW new \in Task,
           run' = [run EXCEPT ![r] = new],
           UNCHANGED <<now, due, log, stuck, stops>>, server' = "up",
           server \notin {"down", "mark"}, waived' = waived,
           loop' \in [pc : {"off", "seed", "poll"}, read : Moments], loop'.read <= now,
           new.pc \in {"task", "check"},
           new.pc # "task" => new.read <= new.started,
           new.by # "manual" =>
              /\ new.read <= now
              /\ loop'.pc = "poll" => new.read = loop'.read
              /\ \A s \in Runs : Tracked(s) => ~SameSlot(run[s].read, new.read),
           \/ loop' = loop
           \/ loop'.pc = "seed" /\ loop.pc = "off" /\ new.read = due /\ new.by # "manual"
           \/ loop'.pc = "poll" /\ loop'.read = now /\ new.read = now /\ new.by # "manual"
    PROVE  RInv'
<1> USE DEF RInv, PatrolTypeOK
<1>1. /\ run' \in [Runs -> Task] /\ run'[r] = new
      /\ \A s \in Runs \ {r} : run'[s] = run[s]
  OBVIOUS
<1>2. PatrolTypeOK'
  BY <1>1
<1>3. log[r] = "none" /\ run[r] = IdleRun
  BY DEF RunsSound, RunSound, Unlogged
<1>4. /\ \A s \in Runs \ {r} : Tracked(s)' <=> Tracked(s)
      /\ \A s \in Runs : s \in InHand => s \in InHand'
      /\ \A s \in Runs \ {r} : s \in Scheduled => s \in Scheduled'
      /\ r \in InHand' /\ r \notin InHand
      /\ Tracked(r)' <=> new.by # "manual"
      /\ Logged' = Logged
  BY <1>1, <1>3 DEF Tracked, InHand, Scheduled, Logged
<1>5. Lifecycle'
  BY DEF Lifecycle, Starting
<1>6. RunsSound'
  <2>1. RunSound(r)'
    <3>1. new.pc \in Unlogged /\ new.pc # "idle"
      BY DEF Unlogged
    <3>2. Tracked(r)' => /\ new.read <= now
                         /\ loop'.pc = "poll" => new.read <= loop'.read
      BY <1>4, <1>1 DEF Task, Moments
    <3>3. QED BY <1>1, <1>3, <3>1, <3>2 DEF RunSound
  <2>2. ASSUME NEW s \in Runs \ {r} PROVE RunSound(s)'
    <3>1. RunSound(s) /\ run'[s] = run[s]
      BY <1>1 DEF RunsSound
    <3>2. log'[s] = "running" => s \in InHand' \/ s \in stuck'
      BY <1>4, <3>1 DEF RunSound
    <3>3. Tracked(s)' => (loop'.pc = "poll" => run[s].read <= loop'.read)
      BY <1>4, <3>1 DEF RunSound
    <3>4. QED BY <1>4, <3>1, <3>2, <3>3 DEF RunSound
  <2>3. QED BY <2>1, <2>2 DEF RunsSound
<1>7. SlotsUnique'
  <2> SUFFICES ASSUME NEW a \in Runs, NEW b \in Runs, Tracked(a)', Tracked(b)',
                      SameSlot(run'[a].read, run'[b].read)
               PROVE  a = b
    BY DEF SlotsUnique, SameSlot, PreviousSlotAt
  <2>1. CASE a # r /\ b # r
    BY <1>1, <1>4, <2>1 DEF SlotsUnique
  <2>2. CASE a = r /\ b # r
    <3>1. SameSlot(new.read, run[b].read) /\ Tracked(b) /\ new.by # "manual"
      BY <1>1, <1>4, <2>2
    <3>2. SameSlot(run[b].read, new.read)
      BY <3>1, SameSlotSymmetric DEF Task
    <3>3. QED BY <3>1, <3>2
  <2>3. CASE a # r /\ b = r
    BY <1>1, <1>4, <2>3
  <2>4. QED BY <2>1, <2>2, <2>3
<1>8. ASSUME NEW slot, Covered(slot) PROVE Covered(slot)'
  <2>1. CASE slot \in waived
    BY <2>1 DEF Covered
  <2>2. CASE RanSince(slot)
    <3>1. PICK s \in Logged : run[s].started >= slot
      BY <2>2 DEF RanSince
    <3>2. s \in Runs \ {r}
      BY <1>3, <3>1 DEF Logged
    <3>3. QED BY <1>1, <1>4, <3>1, <3>2 DEF Covered, RanSince
  <2>3. CASE \E s \in InHand \cap Scheduled : SlotOf(s) = slot
    <3>1. PICK s \in InHand \cap Scheduled : SlotOf(s) = slot
      BY <2>3
    <3>2. s \in Runs \ {r}
      BY <1>4, <3>1 DEF InHand
    <3>3. s \in InHand' \cap Scheduled' /\ SlotOf(s)' = slot
      BY <1>1, <1>4, <3>1, <3>2 DEF SlotOf
    <3>4. QED BY <3>3 DEF Covered
  <2>4. QED BY <1>8, <2>1, <2>2, <2>3 DEF Covered
<1>9. new.by # "manual" => Covered(PreviousSlotAt(new.read))'
  <2>1. new.by # "manual" => /\ r \in InHand' \cap Scheduled'
                             /\ SlotOf(r)' = PreviousSlotAt(new.read)
    BY <1>1, <1>4 DEF Scheduled, SlotOf, PreviousSlotAt
  <2>2. QED BY <2>1 DEF Covered
<1>10. SlotsCovered'
  BY <1>8, <1>9 DEF SlotsCovered
<1>11. QED BY <1>2, <1>5, <1>6, <1>7, <1>10

LEMMA TriggerKeeps == ASSUME RInv, NEW r \in Runs, Trigger(r) PROVE RInv'
<1> USE DEF RInv, PatrolTypeOK
<1> DEFINE new == [run[r] EXCEPT !.pc = "task"]
<1>1. /\ server = "up" /\ run[r].pc = "idle" /\ run' = [run EXCEPT ![r] = new]
      /\ UNCHANGED <<now, server, due, loop, log, waived, stuck, stops>>
  BY DEF Trigger, Fresh
<1>2. run[r] = IdleRun
  BY <1>1 DEF RunsSound, RunSound
<1>3. new \in Task /\ new.pc = "task" /\ new.by = "manual"
  BY <1>2 DEF IdleRun, Task, Unlogged
<1>4. loop.read <= now
  BY DEF Lifecycle
<1> HIDE DEF new
<1>5. QED BY <1>1, <1>3, <1>4, Launched

LEMMA FireKeeps == ASSUME RInv, NEW r \in Runs, Fire(r) PROVE RInv'
<1> USE DEF RInv, PatrolTypeOK
<1> DEFINE new == [run[r] EXCEPT !.pc = "check", !.by = "cron", !.read = now, !.started = now]
<1>1. /\ run[r].pc = "idle" /\ run' = [run EXCEPT ![r] = new]
      /\ loop.pc = "poll" /\ PreviousSlotAt(now) # PreviousSlotAt(loop.read)
      /\ loop' = [loop EXCEPT !.read = now]
      /\ UNCHANGED <<now, server, due, log, waived, stuck, stops>>
  BY DEF Fire, Fresh
<1>2. /\ new \in Task /\ new.pc = "check" /\ new.by = "cron" /\ new.read = now
      /\ new.started = now
  BY DEF Task, Unlogged
<1>3. /\ loop' \in [pc : {"off", "seed", "poll"}, read : Moments]
      /\ loop'.pc = "poll" /\ loop'.read = now /\ server = "up" /\ loop.read <= now
  BY <1>1 DEF Lifecycle
<1>4. ASSUME NEW s \in Runs, Tracked(s), SameSlot(run[s].read, now) PROVE FALSE
  <2>1. run[s].read \in Moments /\ run[s].read <= loop.read
    BY <1>1, <1>4 DEF RunsSound, RunSound, Task
  <2>2. QED BY <1>1, <1>3, <1>4, <2>1, SlotBetween
<1>5. /\ new.read <= now /\ new.read <= new.started
      /\ server' = "up" /\ server \notin {"down", "mark"} /\ waived' = waived
      /\ loop'.read <= now
  BY <1>1, <1>2, <1>3 DEF Moments
<1> HIDE DEF new
<1>6. QED BY <1>1, <1>2, <1>3, <1>4, <1>5, Launched

(* should_catch_up answers for the slot before now; a run since that slot, *)
(* or a fresh install, needs no other.                                     *)
LEMMA CatchUpKeeps == ASSUME RInv, CatchUp PROVE RInv'
<1> USE DEF RInv, PatrolTypeOK
<1>1. /\ server = "catchup" /\ server' = "up" /\ UNCHANGED <<now, due, log, stuck, stops>>
  BY DEF CatchUp
<1>2. InHand = {} /\ loop.pc = "off" /\ loop.read <= now /\ due <= now
  BY <1>1 DEF Lifecycle, Starting
<1>3. ASSUME UNCHANGED run, waived \subseteq waived', waived' \subseteq Int,
             loop' \in [pc : {"off", "seed", "poll"}, read : Moments],
             loop'.read <= now, loop'.pc \in {"off", "seed"},
             loop'.pc = "seed" => Covered(PreviousSlotAt(due))'
      PROVE  RInv'
  <2>1. PatrolTypeOK'
    BY <1>1, <1>3
  <2>2. Lifecycle'
    BY <1>1, <1>2, <1>3 DEF Lifecycle, Starting
  <2>3. RunsSound'
    BY <1>1, <1>2, <1>3, RunsAlone DEF RunsSound, RunSound
  <2>4. SlotsUnique' /\ SlotsCovered'
    BY <1>1, <1>2, <1>3, RunsAlone DEF SlotsCovered
  <2>5. QED BY <2>1, <2>2, <2>3, <2>4
<1>4. CASE UNCHANGED <<loop, run, waived>>
  BY <1>2, <1>3, <1>4
<1>5. CASE /\ loop' = [loop EXCEPT !.pc = "seed"]
           /\ Logged = {} \/ RanSince(PreviousSlotAt(due))
           /\ waived' = IF Logged = {} THEN waived \cup {PreviousSlotAt(due)} ELSE waived
           /\ UNCHANGED run
  <2>1. Covered(PreviousSlotAt(due))'
    <3>1. RanSince(PreviousSlotAt(due))' <=> RanSince(PreviousSlotAt(due))
      BY <1>1, <1>5, RunsAlone
    <3>2. QED BY <1>1, <1>5, <3>1 DEF Covered, PreviousSlotAt
  <2>2. waived \subseteq waived' /\ waived' \subseteq Int
    BY <1>5, SlotBefore
  <2>3. QED BY <1>2, <1>3, <1>5, <2>1, <2>2
<1>6. ASSUME NEW r \in Runs, Fresh(r), ~RanSince(PreviousSlotAt(due)), UNCHANGED waived,
             loop' = [loop EXCEPT !.pc = "seed"],
             run' = [run EXCEPT ![r].pc = "task", ![r].by = "catchup", ![r].read = due]
      PROVE  RInv'
  <2> DEFINE new == [run[r] EXCEPT !.pc = "task", !.by = "catchup", !.read = due]
  <2>1. run[r].pc = "idle" /\ run' = [run EXCEPT ![r] = new]
    BY <1>6 DEF Fresh
  <2>2. new \in Task /\ new.pc = "task" /\ new.by = "catchup" /\ new.read = due
    BY DEF Task, Unlogged
  <2>3. /\ loop' \in [pc : {"off", "seed", "poll"}, read : Moments]
        /\ loop'.pc = "seed" /\ loop'.read <= now
    BY <1>2, <1>6
  <2>4. ASSUME NEW s \in Runs, Tracked(s) PROVE ~SameSlot(run[s].read, due)
    <3>1. s \in Logged /\ log[s] # "none"
      BY <1>2, <2>4 DEF Tracked, Logged
    <3>2. run[s].read <= run[s].started /\ run[s] \in Task
      BY <2>4, <3>1 DEF RunsSound, RunSound, Unlogged
    <3>3. ~(run[s].started >= PreviousSlotAt(due))
      BY <1>6, <3>1 DEF RanSince
    <3>4. PreviousSlotAt(run[s].read) \in Int /\ PreviousSlotAt(run[s].read) < run[s].read
      BY <3>2, SlotBefore DEF Task
    <3>5. QED BY <3>2, <3>3, <3>4 DEF SameSlot, Task, Moments
  <2> HIDE DEF new
  <2>5. /\ new.pc \in {"task", "check"} /\ (new.pc # "task" => new.read <= new.started)
        /\ new.read = due /\ new.by # "manual" /\ due <= now /\ loop'.pc # "poll"
    BY <1>1, <1>2, <2>2, <2>3
  <2>6. \A s \in Runs : Tracked(s) => ~SameSlot(run[s].read, new.read)
    BY <2>2, <2>4
  <2>7. RInv
    OBVIOUS
  <2>8. /\ loop.pc = "off" /\ server \notin {"down", "mark"} /\ new.read <= now
        /\ loop' \in [pc : {"off", "seed", "poll"}, read : Moments] /\ loop'.read <= now
    BY <1>1, <1>2, <2>3, <2>5
  <2> HIDE DEF RInv, PatrolTypeOK
  <2>9. QED BY <1>1, <1>6, <2>1, <2>2, <2>3, <2>5, <2>6, <2>7, <2>8, Launched
<1>7. QED BY <1>4, <1>5, <1>6 DEF CatchUp

(* The death of the process ends its tasks; a write under way may have     *)
(* taken effect, and only runs with a row are remembered.                  *)
LEMMA DieKeeps == ASSUME RInv, Die, stops' \in Nat PROVE RInv'
<1> USE DEF RInv, PatrolTypeOK
<1>1. /\ server' = "down" /\ loop' = NoLoop /\ due' = 0 /\ waived' = {} /\ stuck' = {}
      /\ now' = now
  BY DEF Die
<1>2. PICK committed \in SUBSET Writing :
         log' = [r \in Runs |-> IF r \in committed THEN Written(r) ELSE log[r]]
  BY DEF Die
<1>3. log' \in [Runs -> Row]
  BY <1>2 DEF Written, Row
<1>4. ASSUME NEW r \in Runs
      PROVE  /\ run'[r] \in Task /\ run'[r].pc \in {"idle", "end"}
             /\ run'[r].pc = "idle" => run'[r] = IdleRun /\ log'[r] = "none"
             /\ Tracked(r)' => Tracked(r) /\ run[r].pc # "task"
             /\ Tracked(r)' => /\ run'[r].read = run[r].read
                               /\ run'[r].started = run[r].started
  <2>1. run'[r] = CASE log'[r] # "none"     -> [run[r] EXCEPT !.pc = "end"]
                    [] run[r].pc = "idle"   -> IdleRun
                    [] OTHER                -> [IdleRun EXCEPT !.pc = "end"]
    BY DEF Die
  <2>2. RunSound(r)
    BY DEF RunsSound
  <2>3. CASE log'[r] # "none"
    <3>1. run[r] \in Task
      OBVIOUS
    <3>2. run[r].pc # "idle"
      BY <1>2, <2>2, <2>3 DEF RunSound, Unlogged, Writing
    <3>3. run'[r] = [run[r] EXCEPT !.pc = "end"]
      BY <2>1, <2>3, <3>2
    <3>4. /\ run'[r] \in Task /\ run'[r].pc = "end" /\ run'[r].by = run[r].by
          /\ run'[r].read = run[r].read /\ run'[r].started = run[r].started
      BY <3>1, <3>3 DEF Task
    <3>5. r \in Writing \/ log[r] # "none"
      BY <1>2, <2>3
    <3>6. (r \in InHand \/ r \in Logged) /\ run[r].pc # "task"
      BY <2>2, <3>5 DEF Writing, InHand, Logged, RunSound, Unlogged
    <3>7. Tracked(r)' => Tracked(r)
      BY <3>4, <3>6 DEF Tracked, Scheduled
    <3>8. QED BY <3>4, <3>6, <3>7
  <2>4. CASE log'[r] = "none"
    <3>1. run'[r] = IF run[r].pc = "idle" THEN IdleRun ELSE [IdleRun EXCEPT !.pc = "end"]
      BY <2>1, <2>4
    <3>2. /\ run'[r] \in Task /\ run'[r].by = "manual" /\ run'[r].pc \in {"idle", "end"}
          /\ run'[r].pc = "idle" => run'[r] = IdleRun
      BY <3>1, IdleRunType
    <3>3. ~Tracked(r)'
      BY <3>2 DEF Tracked, Scheduled
    <3>4. QED BY <2>4, <3>2, <3>3
  <2>5. QED BY <2>3, <2>4
<1>5. run' \in [Runs -> Task]
  <2> DEFINE last(r) == CASE log'[r] # "none"     -> [run[r] EXCEPT !.pc = "end"]
                          [] run[r].pc = "idle"   -> IdleRun
                          [] OTHER                -> [IdleRun EXCEPT !.pc = "end"]
  <2>1. run' = [r \in Runs |-> last(r)]
    BY DEF Die
  <2> HIDE DEF last
  <2>2. \A r \in Runs : last(r) \in Task
    BY <1>4, <2>1
  <2>3. QED BY <2>1, <2>2
<1>6. /\ loop' \in [pc : {"off", "seed", "poll"}, read : Moments]
      /\ loop'.pc = "off" /\ loop'.read = 0
  BY <1>1, PatrolAssumption DEF NoLoop, Moments
<1>7. PatrolTypeOK'
  BY <1>1, <1>3, <1>5, <1>6
<1>8. InHand' = {}
  BY <1>4 DEF InHand
<1>9. Lifecycle'
  BY <1>1, <1>6, <1>8 DEF Lifecycle, Starting, Moments
<1>10. RunsSound'
  <2> SUFFICES ASSUME NEW r \in Runs PROVE RunSound(r)'
    BY DEF RunsSound
  <2>1. RunSound(r)
    BY DEF RunsSound
  <2>2. QED BY <1>1, <1>4, <1>6, <2>1 DEF RunSound, Unlogged
<1>11. SlotsUnique'
  BY <1>4 DEF SlotsUnique
<1>12. SlotsCovered'
  BY <1>6 DEF SlotsCovered
<1>13. QED BY <1>7, <1>9, <1>10, <1>11, <1>12

LEMMA NextKeepsRInv == RInv /\ [Next]_vars => RInv'
<1> SUFFICES ASSUME RInv, [Next]_vars PROVE RInv'
  OBVIOUS
<1>1. CASE Startup
  BY <1>1, BootKeeps, MarkStaleKeeps, CatchUpKeeps, SeedKeeps DEF Startup
<1>2. CASE Elapse \/ Stop
  BY <1>2, ElapseKeeps, StopKeeps
<1>3. CASE Exit \/ Crash
  <2>1. stops' \in Nat /\ Die
    BY <1>3 DEF Exit, Crash, RInv, PatrolTypeOK
  <2>2. QED BY <2>1, DieKeeps
<1>4. ASSUME NEW r \in Runs, Fire(r) \/ Trigger(r) \/ RunStep(r) \/ Cancel(r) PROVE RInv'
  <2>1. CASE Fire(r) \/ Trigger(r)
    BY <2>1, FireKeeps, TriggerKeeps
  <2>2. CASE RunStep(r)
    <3>1. CASE WriteFails(r)
      BY <3>1, AbortKeeps DEF WriteFails
    <3>2. QED BY <2>2, <3>1, BeginKeeps, CheckKeeps, InsertKeeps, ExecuteKeeps, CloseKeeps
              DEF RunStep
  <2>3. CASE Cancel(r)
    BY <2>3, CancelKeeps
  <2>4. QED BY <1>4, <2>1, <2>2, <2>3
<1>5. CASE UNCHANGED vars
  <2>1. UNCHANGED <<now, server, due, loop, run, log, waived, stuck, stops>>
    BY <1>5 DEF vars
  <2>2. PatrolTypeOK' /\ Lifecycle'
    BY <2>1, RunsAlone DEF RInv, PatrolTypeOK, Lifecycle
  <2>3. RunsSound' /\ SlotsUnique' /\ SlotsCovered'
    BY <2>1, RunsAlone DEF RInv, RunsSound, RunSound, SlotsCovered
  <2>4. QED BY <2>2, <2>3 DEF RInv
<1>6. QED BY <1>1, <1>2, <1>3, <1>4, <1>5 DEF Next

LEMMA AlwaysRInv == Spec => []RInv
BY InitRInv, NextKeepsRInv, PTL DEF Spec
-----------------------------------------------------------------------------
(* The process, its tasks and the rows of patrol_logs have their types.    *)
THEOREM PatrolTypeCorrect == Spec => []PatrolTypeOK
<1>1. RInv => PatrolTypeOK
  BY DEF RInv
<1>2. QED BY <1>1, AlwaysRInv, PTL

(* After the startup sweep a row says 'running' only while a task works on *)
(* it, or after the database refused that task's write, over any number of *)
(* crashes, shutdowns and concurrent runs (run_patrol, main.py).           *)
THEOREM RunningAlwaysInHand == Spec => []RunningInHand
<1>1. RInv => RunningInHand
  BY DEF RInv, RunsSound, RunSound, RunningInHand, Running
<1>2. QED BY <1>1, AlwaysRInv, PTL

(* Over restarts, catch-up and the loop's seeding together every slot gets *)
(* at most one scheduled run as long as the UTC offset stays the same, and *)
(* none is lost without a reason, whatever the offset does (scheduler.py,  *)
(* previous_daily_slot).                                                   *)
THEOREM SlotsServedOnce == Spec => []SlotServedOnce
<1>1. ASSUME RInv PROVE SlotRunOnce
  <2>1. \A r \in Scheduled \cap Logged : r \in Runs /\ Tracked(r)
    BY DEF Scheduled, Tracked
  <2>2. QED BY <1>1, <2>1 DEF RInv, SlotsUnique, SlotRunOnce
<1>2. ASSUME RInv PROVE SlotServedOrWaived
  BY <1>2 DEF RInv, SlotsCovered, Covered, RanSince, SlotServedOrWaived
<1>3. RInv => SlotServedOnce
  BY <1>1, <1>2 DEF SlotServedOnce
<1>4. QED BY <1>3, AlwaysRInv, PTL
-----------------------------------------------------------------------------
(* Resilience. *)
USE DEF Providers, Kinds

LEMMA IdleTyped == IdleCall \in Call
BY ParametersAssumption DEF IdleCall, Call

LEMMA EnteringTyped ==
    ASSUME NEW kind \in Kinds, NEW prov \in Providers, NEW token \in BOOLEAN
    PROVE  Entering(kind, prov, token) \in Call
BY ParametersAssumption DEF Entering, Call

(* Giving up moves the call to the fallback's breaker or ends it. *)
LEMMA GiveUpTyped ==
    ASSUME NEW c \in Calls, TypeOK, GiveUp(c)
    PROVE  call' \in [Calls -> Call]
<1>1. call[c] \in Call /\ call \in [Calls -> Call]
  BY DEF TypeOK
<1>2. CASE MayFailOver(c)
  <2> DEFINE moved == Entering(call[c].kind, "fallback", call[c].token)
  <2>1. moved \in Call
    BY <1>1, EnteringTyped DEF Call
  <2>2. call' = [call EXCEPT ![c] = moved]
    BY <1>2 DEF GiveUp
  <2> QED BY <1>1, <2>1, <2>2
<1>3. CASE ~MayFailOver(c)
  BY <1>1, <1>3, IdleTyped DEF GiveUp, End
<1> QED BY <1>2, <1>3

(* A recorded failure keeps the counter below the threshold. *)
LEMMA FailureTyped ==
    ASSUME NEW p \in Providers, TypeOK, RecordFailure(p)
    PROVE  /\ failures' \in [Providers -> 0..(Threshold - 1)]
           /\ opened' \in [Providers -> BOOLEAN]
           /\ left' \in [Providers -> 0..Cooldown]
           /\ since' \in [Providers -> 0..Cooldown]
<1>1. CASE Trips(p)
  <2>1. 0 \in 0..(Threshold - 1) /\ 0 \in 0..Cooldown /\ Cooldown \in 0..Cooldown
    BY ParametersAssumption
  <2>2. /\ failures' = [failures EXCEPT ![p] = 0]
        /\ opened' = [opened EXCEPT ![p] = TRUE]
        /\ left' = [left EXCEPT ![p] = Cooldown]
        /\ since' = [since EXCEPT ![p] = 0]
    BY <1>1 DEF RecordFailure
  <2> QED BY <2>1, <2>2 DEF TypeOK
<1>2. CASE ~Trips(p)
  <2>1. failures[p] + 1 \in 0..(Threshold - 1)
    BY <1>2, ParametersAssumption DEF TypeOK, Trips
  <2>2. failures' = [failures EXCEPT ![p] = failures[p] + 1]
    BY <1>2 DEF RecordFailure
  <2> QED BY <1>2, <2>1, <2>2 DEF TypeOK, RecordFailure
<1> QED BY <1>1, <1>2
-----------------------------------------------------------------------------
(* One step of one call keeps every variable in its type. *)
LEMMA CallStepTyped ==
    ASSUME NEW c \in Calls, TypeOK,
           (\E kind \in Kinds : Start(c, kind)) \/ Enter(c) \/ Outcome(c) \/ YieldToken(c)
    PROVE  TypeOK'
<1> DEFINE p == call[c].prov
<1>1. call[c] \in Call /\ call \in [Calls -> Call] /\ p \in Providers
  BY DEF TypeOK, Call
<1>2. ASSUME NEW kind \in Kinds, Start(c, kind) PROVE TypeOK'
  <2>1. Entering(kind, "primary", FALSE) \in Call
    BY EnteringTyped
  <2> QED BY <1>1, <1>2, <2>1 DEF Start, TypeOK, breakers
<1>3. CASE Enter(c)
  <2>1. CASE Admits(p)
    <3>1. Readmit(p) /\ call' = [call EXCEPT ![c].pc = "try"]
      BY <1>3, <2>1 DEF Enter
    <3>2. call' \in [Calls -> Call]
      BY <1>1, <3>1 DEF Call
    <3>3. /\ failures' = [failures EXCEPT ![p] = IF opened[p] THEN 0 ELSE failures[p]]
          /\ opened' = [opened EXCEPT ![p] = FALSE]
          /\ left' = left /\ since' = since
      BY <3>1 DEF Readmit
    <3>4. (IF opened[p] THEN 0 ELSE failures[p]) \in 0..(Threshold - 1)
      BY <1>1, ParametersAssumption DEF TypeOK
    <3> QED BY <1>1, <3>2, <3>3, <3>4 DEF TypeOK
  <2>2. CASE ~Admits(p)
    BY <1>3, <2>2, GiveUpTyped DEF Enter, TypeOK, breakers
  <2> QED BY <2>1, <2>2
<1>4. CASE AttemptFails(c)
  <2>1. CASE call[c].att < AttemptLimit(call[c].kind)
    <3>1. call[c].att + 1 \in 1..MaxAttempts
      BY <1>1, <2>1, ParametersAssumption DEF AttemptLimit, Call
    <3>2. call' = [call EXCEPT ![c].att = call[c].att + 1] /\ UNCHANGED breakers
      BY <1>4, <2>1 DEF AttemptFails
    <3>3. call' \in [Calls -> Call]
      BY <1>1, <3>1, <3>2 DEF Call
    <3> QED BY <3>2, <3>3 DEF TypeOK, breakers
  <2>2. CASE ~(call[c].att < AttemptLimit(call[c].kind))
    BY <1>1, <1>4, <2>2, GiveUpTyped, FailureTyped DEF AttemptFails, TypeOK
  <2> QED BY <2>1, <2>2
<1>5. CASE Abandon(c)
  BY <1>1, <1>5, IdleTyped DEF Abandon, End, breakers, TypeOK
<1>6. ASSUME RecordSuccess(p) PROVE
        /\ failures' \in [Providers -> 0..(Threshold - 1)]
        /\ UNCHANGED <<opened, left, since>>
  BY <1>1, <1>6, ParametersAssumption DEF RecordSuccess, TypeOK
<1>7. CASE AttemptSucceeds(c)
  <2>1. CASE call[c].kind = "stream"
    BY <1>1, <1>7, <2>1 DEF AttemptSucceeds, breakers, TypeOK, Call
  <2>2. CASE call[c].kind # "stream"
    BY <1>1, <1>6, <1>7, <2>2, IdleTyped DEF AttemptSucceeds, End, TypeOK
  <2> QED BY <2>1, <2>2
<1>8. CASE BodyFails(c)
  BY <1>1, <1>8, GiveUpTyped, FailureTyped DEF BodyFails, TypeOK
<1>9. CASE BodyEnds(c)
  BY <1>1, <1>6, <1>9, IdleTyped DEF BodyEnds, End, TypeOK
<1>10. CASE YieldToken(c)
  BY <1>1, <1>10 DEF YieldToken, breakers, TypeOK, Call
<1> QED BY <1>2, <1>3, <1>4, <1>5, <1>7, <1>8, <1>9, <1>10 DEF Outcome

LEMMA TickTyped ==
    ASSUME TypeOK, Tick
    PROVE  TypeOK'
BY ParametersAssumption DEF TypeOK, Tick

(* Every reachable state of the breakers and calls is well typed; in       *)
(* particular a breaker trips at its threshold, never beyond it, and a     *)
(* call makes at most MaxAttempts attempts per provider.                   *)
THEOREM TypeCorrect == BreakerSpec => []TypeOK
<1>1. BreakerInit => TypeOK
  BY IdleTyped, ParametersAssumption DEF BreakerInit, TypeOK
<1>2. TypeOK /\ [BreakerNext]_breaker_vars => TypeOK'
  <2> SUFFICES ASSUME TypeOK, [BreakerNext]_breaker_vars PROVE TypeOK'
    OBVIOUS
  <2>1. CASE BreakerNext
    BY <2>1, CallStepTyped, TickTyped DEF BreakerNext
  <2>2. CASE UNCHANGED breaker_vars
    BY <2>2 DEF breaker_vars, TypeOK
  <2> QED BY <2>1, <2>2
<1> QED BY <1>1, <1>2, PTL DEF BreakerSpec
-----------------------------------------------------------------------------
(* Until a full cooldown has passed since the trip the breaker is open and *)
(* its deadline is exactly that far away: what makes late outcomes         *)
(* harmless.                                                               *)
CooldownInv ==
    \A p \in Providers :
        since[p] < Cooldown => opened[p] /\ left[p] = Cooldown - since[p]

(* The invariant is disturbed by a trip, by a readmission and by the clock. *)
LEMMA FailureKeepsCooldown ==
    ASSUME NEW p \in Providers, TypeOK, CooldownInv, RecordFailure(p)
    PROVE  CooldownInv'
<1>1. CASE Trips(p)
  <2> SUFFICES ASSUME NEW q \in Providers, since'[q] < Cooldown
               PROVE  opened'[q] /\ left'[q] = Cooldown - since'[q]
    BY DEF CooldownInv
  <2>1. CASE q = p
    <3>1. opened'[q]
      BY <1>1, <2>1 DEF RecordFailure, TypeOK
    <3>2. left'[q] = Cooldown /\ since'[q] = 0
      BY <1>1, <2>1 DEF RecordFailure, TypeOK
    <3>3. left'[q] = Cooldown - since'[q]
      BY <3>2, ParametersAssumption
    <3> QED BY <3>1, <3>3
  <2>2. CASE q # p
    BY <1>1, <2>2 DEF RecordFailure, TypeOK, CooldownInv
  <2> QED BY <2>1, <2>2
<1>2. CASE ~Trips(p)
  BY <1>2 DEF RecordFailure, CooldownInv
<1> QED BY <1>1, <1>2

LEMMA ReadmitKeepsCooldown ==
    ASSUME NEW p \in Providers, TypeOK, CooldownInv, Admits(p), Readmit(p)
    PROVE  CooldownInv' /\ since[p] = Cooldown
<1>1. since[p] = Cooldown
  BY ParametersAssumption DEF TypeOK, CooldownInv, Admits
<1>2. ASSUME NEW q \in Providers, since'[q] < Cooldown
      PROVE  opened'[q] /\ left'[q] = Cooldown - since'[q]
  <2>1. since' = since /\ left' = left /\ opened' = [opened EXCEPT ![p] = FALSE]
    BY DEF Readmit
  <2>2. since[q] < Cooldown
    BY <1>2, <2>1
  <2>3. q # p
    BY <1>1, <2>2, ParametersAssumption
  <2>4. opened'[q] = opened[q]
    BY <2>1, <2>3 DEF TypeOK
  <2>5. opened[q] /\ left[q] = Cooldown - since[q]
    BY <2>2 DEF CooldownInv
  <2> QED BY <2>1, <2>4, <2>5
<1> QED BY <1>1, <1>2 DEF CooldownInv

LEMMA TickKeepsCooldown ==
    ASSUME TypeOK, CooldownInv, Tick
    PROVE  CooldownInv'
<1> SUFFICES ASSUME NEW p \in Providers, since'[p] < Cooldown
             PROVE  opened'[p] /\ left'[p] = Cooldown - since'[p]
  BY DEF CooldownInv
<1>1. since[p] < Cooldown /\ since'[p] = since[p] + 1
  BY ParametersAssumption DEF Tick, TypeOK
<1>2. opened[p] /\ left[p] = Cooldown - since[p]
  BY <1>1 DEF CooldownInv
<1> QED BY <1>1, <1>2, ParametersAssumption DEF Tick, TypeOK

LEMMA CallStepKeepsCooldown ==
    ASSUME NEW c \in Calls, TypeOK, CooldownInv,
           (\E kind \in Kinds : Start(c, kind)) \/ Enter(c) \/ Outcome(c) \/ YieldToken(c)
    PROVE  CooldownInv'
<1> DEFINE p == call[c].prov
<1>1. p \in Providers
  BY DEF TypeOK, Call
<1>2. CASE UNCHANGED <<opened, left, since>>
  BY <1>2 DEF CooldownInv
<1>3. CASE Enter(c)
  BY <1>1, <1>2, <1>3, ReadmitKeepsCooldown DEF Enter, breakers
<1>4. CASE AttemptFails(c)
  BY <1>1, <1>2, <1>4, FailureKeepsCooldown DEF AttemptFails, breakers
<1>5. CASE BodyFails(c)
  BY <1>1, <1>5, FailureKeepsCooldown DEF BodyFails
<1>6. CASE (\E kind \in Kinds : Start(c, kind)) \/ Abandon(c) \/ YieldToken(c)
  BY <1>2, <1>6 DEF Start, Abandon, YieldToken, breakers
<1>7. CASE AttemptSucceeds(c) \/ BodyEnds(c)
  BY <1>2, <1>7 DEF AttemptSucceeds, BodyEnds, RecordSuccess, breakers
<1> QED BY <1>3, <1>4, <1>5, <1>6, <1>7 DEF Outcome

THEOREM CooldownHolds == BreakerSpec => [](TypeOK /\ CooldownInv)
<1>1. BreakerInit => TypeOK /\ CooldownInv
  BY IdleTyped, ParametersAssumption DEF BreakerInit, TypeOK, CooldownInv
<1>2. TypeOK /\ CooldownInv /\ [BreakerNext]_breaker_vars => CooldownInv'
  <2> SUFFICES ASSUME TypeOK, CooldownInv, [BreakerNext]_breaker_vars PROVE CooldownInv'
    OBVIOUS
  <2>1. CASE BreakerNext
    BY <2>1, CallStepKeepsCooldown, TickKeepsCooldown DEF BreakerNext
  <2>2. CASE UNCHANGED breaker_vars
    BY <2>2 DEF breaker_vars, CooldownInv
  <2> QED BY <2>1, <2>2
<1> QED BY <1>1, <1>2, TypeCorrect, PTL DEF BreakerSpec
-----------------------------------------------------------------------------
(* What one step may do to one call. *)
LEMMA OnlyEnterAdmits ==
    ASSUME NEW c \in Calls, TypeOK, BreakerNext, call[c].pc = "enter", call'[c].pc = "try"
    PROVE  Enter(c) /\ Admits(call[c].prov) /\ Readmit(call[c].prov)
<1>1. call \in [Calls -> Call]
  BY DEF TypeOK
<1>2. ~Tick
  BY DEF Tick
<1>3. PICK d \in Calls : (\E kind \in Kinds : Start(d, kind)) \/ Enter(d)
                           \/ Outcome(d) \/ YieldToken(d)
  BY <1>2 DEF BreakerNext
<1>4. \E k : call' = [call EXCEPT ![d] = k]
  <2>1. ASSUME GiveUp(d) PROVE \E k : call' = [call EXCEPT ![d] = k]
    BY <2>1 DEF GiveUp, End
  <2>2. CASE \E kind \in Kinds : Start(d, kind)
    BY <2>2 DEF Start
  <2>3. CASE Enter(d)
    <3>1. \/ call' = [call EXCEPT ![d].pc = "try"]
          \/ GiveUp(d)
      BY <2>3 DEF Enter
    <3>2. [call EXCEPT ![d].pc = "try"] = [call EXCEPT ![d] = [call[d] EXCEPT !.pc = "try"]]
      OBVIOUS
    <3> QED BY <2>1, <3>1, <3>2
  <2>4. CASE Outcome(d)
    BY <2>1, <2>4 DEF Outcome, AttemptFails, Abandon, AttemptSucceeds, BodyFails, BodyEnds, End
  <2>5. CASE YieldToken(d)
    BY <2>5 DEF YieldToken
  <2> QED BY <1>3, <2>2, <2>3, <2>4, <2>5
<1>5. d = c
  BY <1>1, <1>4
<1>6. ~(\E kind \in Kinds : Start(c, kind)) /\ ~Outcome(c) /\ ~YieldToken(c)
  BY DEF Start, Outcome, AttemptFails, Abandon, AttemptSucceeds, BodyFails, BodyEnds, YieldToken
<1>7. Enter(c)
  BY <1>3, <1>5, <1>6
<1>8. ~GiveUp(c)
  <2>1. IdleCall.pc = "idle" /\ \A k, t : Entering(k, "fallback", t).pc = "enter"
    BY DEF IdleCall, Entering
  <2> QED BY <1>1, <2>1 DEF GiveUp, End
<1> QED BY <1>7, <1>8 DEF Enter

(* After a trip no call is admitted before a whole cooldown has passed,    *)
(* whatever calls admitted earlier report in the meantime.                 *)
THEOREM CooldownRespected == BreakerSpec => NoAdmissionDuringCooldown
<1>1. TypeOK /\ CooldownInv /\ [BreakerNext]_breaker_vars =>
        [\A c \in Calls :
            call[c].pc = "enter" /\ call'[c].pc = "try"
              => since[call[c].prov] = Cooldown]_breaker_vars
  <2> SUFFICES ASSUME TypeOK, CooldownInv, BreakerNext, NEW c \in Calls,
                      call[c].pc = "enter", call'[c].pc = "try"
               PROVE  since[call[c].prov] = Cooldown
    OBVIOUS
  <2>1. call[c].prov \in Providers
    BY DEF TypeOK, Call
  <2>2. Admits(call[c].prov) /\ Readmit(call[c].prov)
    BY OnlyEnterAdmits
  <2> QED BY <2>1, <2>2, ReadmitKeepsCooldown
<1> QED BY <1>1, CooldownHolds, PTL DEF BreakerSpec, NoAdmissionDuringCooldown
-----------------------------------------------------------------------------
(* Only a stream whose body is being read has yielded.                     *)
TokenInBody == \A c \in Calls : call[c].token => call[c].pc = "body"

(* A step of call d keeps that, and ends d or leaves it with its provider  *)
(* once it has yielded: with a token out, GiveUp raises to the caller.     *)
LEMMA StepKeepsToken ==
    ASSUME NEW d \in Calls, TypeOK, TokenInBody,
           (\E kind \in Kinds : Start(d, kind)) \/ Enter(d) \/ Outcome(d) \/ YieldToken(d)
    PROVE  /\ \A c \in Calls \ {d} : call'[c] = call[c]
           /\ call'[d].token => call'[d].pc = "body"
           /\ call[d].token => call'[d].pc = "idle" \/ call'[d].prov = call[d].prov
<1>1. call \in [Calls -> Call]
  BY DEF TypeOK
<1>2. IdleCall.pc = "idle" /\ IdleCall.token = FALSE
  BY DEF IdleCall
<1>3. ASSUME GiveUp(d)
      PROVE  /\ \A c \in Calls \ {d} : call'[c] = call[c]
             /\ call'[d].token => call'[d].pc = "body"
             /\ call[d].token => call'[d].pc = "idle" \/ call'[d].prov = call[d].prov
  <2>1. CASE MayFailOver(d)
    <3> DEFINE moved == Entering(call[d].kind, "fallback", call[d].token)
    <3>1. ~call[d].token
      BY <2>1 DEF MayFailOver
    <3>2. call' = [call EXCEPT ![d] = moved]
      BY <1>3, <2>1 DEF GiveUp
    <3>3. moved.token = call[d].token
      BY DEF Entering
    <3> QED BY <1>1, <3>1, <3>2, <3>3
  <2>2. CASE ~MayFailOver(d)
    BY <1>1, <1>2, <1>3, <2>2 DEF GiveUp, End
  <2> QED BY <2>1, <2>2
<1>4. CASE \E kind \in Kinds : Start(d, kind)
  <2>1. PICK kind \in Kinds : call[d].pc = "idle"
                              /\ call' = [call EXCEPT ![d] = Entering(kind, "primary", FALSE)]
    BY <1>4 DEF Start
  <2>2. Entering(kind, "primary", FALSE).token = FALSE
    BY DEF Entering
  <2>3. ~call[d].token
    BY <2>1 DEF TokenInBody
  <2> QED BY <1>1, <2>1, <2>2, <2>3
<1>5. CASE Enter(d)
  <2>1. ~call[d].token
    BY <1>5 DEF Enter, TokenInBody
  <2> QED BY <1>1, <1>3, <1>5, <2>1 DEF Enter, Call
<1>6. CASE AttemptFails(d)
  <2>1. ~call[d].token
    BY <1>6 DEF AttemptFails, TokenInBody
  <2> QED BY <1>1, <1>3, <1>6, <2>1 DEF AttemptFails, Call
<1>7. CASE Abandon(d) \/ BodyEnds(d)
  BY <1>1, <1>2, <1>7 DEF Abandon, BodyEnds, End
<1>8. CASE AttemptSucceeds(d)
  BY <1>1, <1>2, <1>8 DEF AttemptSucceeds, End, Call
<1>9. CASE BodyFails(d)
  BY <1>3, <1>9 DEF BodyFails
<1>10. CASE YieldToken(d)
  BY <1>1, <1>10 DEF YieldToken, Call
<1> QED BY <1>4, <1>5, <1>6, <1>7, <1>8, <1>9, <1>10 DEF Outcome

(* What every step of the system does to every call.                       *)
LEMMA NextKeepsToken ==
    ASSUME TypeOK, TokenInBody, [BreakerNext]_breaker_vars
    PROVE  /\ TokenInBody'
           /\ \A c \in Calls : call[c].token =>
                  call'[c].pc = "idle" \/ call'[c].prov = call[c].prov
<1>1. CASE UNCHANGED call
  BY <1>1 DEF TokenInBody
<1>2. CASE call' # call
  <2>1. PICK d \in Calls : (\E kind \in Kinds : Start(d, kind)) \/ Enter(d)
                             \/ Outcome(d) \/ YieldToken(d)
    BY <1>2 DEF BreakerNext, Tick, breaker_vars
  <2> QED BY <2>1, StepKeepsToken DEF TokenInBody
<1> QED BY <1>1, <1>2

(* A stream that has yielded never starts over on the other provider.      *)
THEOREM YieldedStaysPut == BreakerSpec => NoFailoverAfterToken
<1>1. BreakerInit => TokenInBody
  BY DEF BreakerInit, TokenInBody, IdleCall
<1>2. TypeOK /\ TokenInBody /\ [BreakerNext]_breaker_vars => TokenInBody'
  BY NextKeepsToken
<1>3. TypeOK /\ TokenInBody /\ [BreakerNext]_breaker_vars =>
        [\A c \in Calls : call[c].token =>
             call'[c].pc = "idle" \/ call'[c].prov = call[c].prov]_breaker_vars
  BY NextKeepsToken
<1> QED BY <1>1, <1>2, <1>3, TypeCorrect, PTL DEF BreakerSpec, NoFailoverAfterToken
==============================================================================
