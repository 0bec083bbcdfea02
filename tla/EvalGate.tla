------------------------------- MODULE EvalGate -------------------------------
(***************************************************************************)
(* The quality gate of the LLM evaluations (src/evals): run_llm_eval       *)
(* writes a report of each run, multi_run_gate aggregates some of them     *)
(* and holds the lower end of a confidence interval against the floors of  *)
(* floors.json, and recalibrate derives new floors from reports of the     *)
(* model that is in use now.                                               *)
(*                                                                         *)
(* Scores are in units (module EvalMetrics); the interval is compared      *)
(* without its square root.                                                *)
(***************************************************************************)
EXTENDS EvalMetrics

CONSTANTS
    Channels,           \* the (provider, model) pairs the environment may name
    Items,              \* suite -> its labelled items, a sequence
    Outputs,            \* suite -> item -> what the model may answer to it
    Verdicts,           \* what the judge may say of an answer
    SuiteSets,          \* the values of --suite that are used
    NRuns,              \* --n-runs
    MaxReports,         \* how many reports are written (bound)
    Grid,               \* units between two floors: one hundredth in the code
    Headroom, Tolerance \* of derive_floors and of the gate, in units

(* The labels of an item, and what may be answered to it, are finite.      *)
Labelled(suite, item, outputs) ==
    CASE suite = "tool_selection" -> IsFiniteSet(item.expected)
      [] suite = "extraction" -> /\ IsList(item.entities) /\ IsList(item.relations)
                                 /\ \A out \in outputs : IsList(out.entities) /\ IsList(out.relations)
      [] suite = "write_conflict" -> item \in BOOLEAN
      [] OTHER -> IsFiniteSet(item.facts)

ASSUME EvalGateAssumption ==
    /\ {Grid, NRuns} \subseteq Nat \ {0}
    /\ {MaxReports, Headroom, Tolerance} \subseteq Nat
    /\ SuiteSets \subseteq SUBSET DOMAIN Items
    /\ \A suite \in DOMAIN Items :
        /\ IsList(Items[suite]) /\ Items[suite] # <<>>
        /\ \A i \in DOMAIN Items[suite] : Labelled(suite, Items[suite][i], Outputs[suite][i])

VARIABLES
    channel,    \* what LLM_PROVIDER and LLM_MODEL say
    disk,       \* the reports written so far
    floors,     \* evals/floors.json; `from` is a ghost, the reports it was derived from
    job         \* the gate or the recalibration that is running, or its exit code

gate_vars == <<channel, disk, floors, job>>

-----------------------------------------------------------------------------
(* A run of the evaluation. What becomes of an item: the model's output    *)
(* with the judge's verdict on it (--judge llm), a judge that failed, or   *)
(* an error.                                                               *)
Judged == {"answer"}
Outcomes(suite, i, judge) ==
    LET out == Outputs[suite][i]
    IN {[how |-> "error"]} \cup
       IF judge = "llm" /\ suite \in Judged
       THEN [how : {"judge failed"}, out : out] \cup [how : {"judged"}, out : out, verdict : Verdicts]
       ELSE [how : {"unjudged"}, out : out]

ZeroJudgeKeys == [fact_coverage |-> 0, groundedness |-> 0]

(* A judge that fails leaves no trace of the substring scores. *)
AnswerRow(item, o) ==
    LET scores == CASE o.how = "judged" -> AnswerJudgeMetrics(o.verdict, item)
                    [] o.how = "judge failed" -> ZeroJudgeKeys
                    [] OTHER -> AnswerDeterministicMetrics(o.out, item)
    IN [fact_coverage |-> scores.fact_coverage, groundedness |-> scores.groundedness,
        citation_rate |-> CitationPresence(o.out, item)]

WriteMergeRow(item, o) == [merge_fact_coverage |-> Coverage(o.out, item.facts)]

ItemRow(suite, item, o) ==
    CASE suite = "tool_selection" -> ToolSelectionMetrics(o.out, item)
      [] suite = "extraction" -> [entity_f1 |-> EntityMetrics(o.out.entities, item.entities).entity_f1,
                                  relation_f1 |-> RelationMetrics(o.out.relations, item.relations).relation_f1]
      [] suite = "write_merge" -> WriteMergeRow(item, o)
      [] OTHER -> AnswerRow(item, o)

Keys(suite) ==
    CASE suite = "tool_selection" -> {"tool_accuracy", "expected_recall"}
      [] suite = "extraction" -> {"entity_f1", "relation_f1"}
      [] suite = "write_merge" -> {"merge_fact_coverage"}
      [] OTHER -> {"fact_coverage", "groundedness", "citation_rate"}

(* core.aggregate: a key that a row lacks, and a failed row, count as zero *)
Mean(rows, m) ==
    Total([i \in DOMAIN rows |-> IF m \in DOMAIN rows[i] THEN rows[i][m] ELSE 0], DOMAIN rows) \div Len(rows)

RunBinary(suite, outcome) ==
    [m \in {"conflict_f1"} |->
        BinaryF1([i \in DOMAIN outcome |->
            IF outcome[i].how = "error" THEN "-" ELSE Cell(outcome[i].out, Items[suite][i])])]

Overall(suite, outcome) ==
    IF suite = "write_conflict" THEN RunBinary(suite, outcome)
    ELSE LET rows == [i \in DOMAIN outcome |->
                        IF outcome[i].how = "error" THEN <<>> ELSE ItemRow(suite, Items[suite][i], outcome[i])]
         IN [m \in Keys(suite) |-> Mean(rows, m)]

Failed(outcome, how) == Cardinality({i \in DOMAIN outcome : outcome[i].how = how})
JudgeChannelDegraded(outcome) ==
    /\ Failed(outcome, "judge failed") > 0
    /\ 2 * Failed(outcome, "judge failed") >= Len(outcome)

Outcome(suite, judge) ==
    {o \in [DOMAIN Items[suite] -> UNION {Outcomes(suite, i, judge) : i \in DOMAIN Items[suite]}] :
        \A i \in DOMAIN o : o[i] \in Outcomes(suite, i, judge)}

Result(suite, outcome) ==
    [overall |-> Overall(suite, outcome),
     broken |-> Failed(outcome, "error") > 0 \/ JudgeChannelDegraded(outcome)]
Results ==
    [suite \in DOMAIN Items |->
        [judge \in {"llm", "deterministic"} |-> {Result(suite, o) : o \in Outcome(suite, judge)}]]

(* What run_llm_eval writes, and whether it exits with 1. *)
Report(results) ==
    [channel |-> channel,
     overall |-> [suite \in DOMAIN results |-> results[suite].overall],
     broken |-> \E suite \in DOMAIN results : results[suite].broken]

Writes(suites, judge) ==
    \E r \in [suites -> UNION {Results[s][judge] : s \in suites}] :
        /\ \A s \in suites : r[s] \in Results[s][judge]
        /\ disk' = Append(disk, Report(r))

-----------------------------------------------------------------------------
(* The aggregate of some reports, and the gate. *)
Metrics(report) == UNION {DOMAIN report.overall[s] : s \in DOMAIN report.overall}
Value(i, m) ==
    LET s == CHOOSE s \in DOMAIN disk[i].overall : m \in DOMAIN disk[i].overall[s]
    IN disk[i].overall[s][m]
Having(reports, m) == {i \in reports : m \in Metrics(disk[i])}

(* t_value, in hundredths *)
TValue(n) ==
    LET t == <<1271, 430, 318, 278, 257, 245, 237, 231, 226>>
    IN IF n - 1 \in DOMAIN t THEN t[n - 1] ELSE 223

(* The runs that have m: how many, and the sums of their values and squares. *)
Sample(reports, m) ==
    LET values == [i \in Having(reports, m) |-> Value(i, m)]
    IN [n |-> Cardinality(DOMAIN values),
        S |-> Total(values, DOMAIN values),
        Q |-> Total([i \in DOMAIN values |-> values[i] * values[i]], DOMAIN values)]

(* ci95_lower < floor *)
LowerBelow_Upper(x, floor) ==
    LET gap == x.n * floor - x.S
    IN IF x.n < 2 THEN gap > 0
       ELSE gap > 0 /\ 10000 * (x.n - 1) * gap * gap > TValue(x.n) * TValue(x.n) * (x.n * x.Q - x.S * x.S)
LowerBelow(x, floor) ==
    LET gap == x.S - x.n * floor
    IN \/ gap < 0
       \/ x.n >= 2 /\ TValue(x.n) * TValue(x.n) * (x.n * x.Q - x.S * x.S) > 10000 * (x.n - 1) * gap * gap

(* check_channel_match: a report without provenance agrees with everything *)
Mismatch_First(calibrated, reports) ==
    calibrated # "unknown" /\ disk[Min(reports)].channel \notin {"unknown", calibrated}
Mismatch(calibrated, reports) ==
    calibrated # "unknown" /\ \E i \in reports : disk[i].channel \notin {"unknown", calibrated}

Failures(reports) ==
    {m \in DOMAIN floors.least :
        LET x == Sample(reports, m) IN x.n > 0 /\ LowerBelow(x, floors.least[m] - Tolerance)}

ExitCode(reports) == IF Mismatch(floors.channel, reports) \/ Failures(reports) # {} THEN 2 ELSE 0

-----------------------------------------------------------------------------
(* derive_floors: the greatest floor on the grid that leaves the headroom, *)
(* or zero                                                                 *)
Floor_Mean(x) ==
    LET mean == x.S \div x.n
    IN IF mean < Headroom THEN 0 ELSE Grid * ((mean - Headroom) \div Grid)
Floor(x) ==
    LET on == {g \in 0..Scale : g % Grid = 0 /\ ~LowerBelow(x, g + Headroom)}
    IN Max(on \cup {0})

Derived(reports) ==
    [m \in UNION {Metrics(disk[i]) : i \in reports} |-> Floor(Sample(reports, m))]

(* recalibrate --confirm for the channel c, up to the channel check *)
Recalibrated(reports, c) ==
    IF Mismatch(c, reports) THEN UNCHANGED floors
    ELSE floors' = [channel |-> c, least |-> Derived(reports), from |-> reports]

-----------------------------------------------------------------------------
Idle == [pc |-> "idle", runs |-> {}, suites |-> {}, judge |-> "-", rc |-> 0]
Exit(rc, reports) == [job EXCEPT !.pc = "done", !.judge = "-", !.rc = rc, !.runs = reports]
Free == job.pc \in {"idle", "done"}

(* The baseline in the repository: perfect, and without provenance. *)
Baseline == [channel |-> "unknown", overall |-> [answer |-> [m \in Keys("answer") |-> Scale]], broken |-> FALSE]

GateInit ==
    /\ channel \in Channels
    /\ disk = <<Baseline>>
    /\ floors = [channel |-> "unknown", least |-> <<>>, from |-> {}]
    /\ job = Idle

SwapModel == channel' \in Channels \ {channel} /\ UNCHANGED <<disk, floors, job>>

(* run_llm_eval by itself *)
Evaluate ==
    /\ Free /\ Len(disk) < MaxReports
    /\ \E suites \in SuiteSets, judge \in {"llm", "deterministic"} : Writes(suites, judge)
    /\ UNCHANGED <<channel, floors, job>>

(* --n-runs, of the gate and of a recalibration *)
StartRuns(pc, judges) ==
    /\ Free /\ Len(disk) + NRuns <= MaxReports
    /\ \E suites \in SuiteSets, judge \in judges :
        job' = [Idle EXCEPT !.pc = pc, !.suites = suites, !.judge = judge]
    /\ UNCHANGED <<channel, disk, floors>>

(* One run: a non-zero exit of it ends the whole. *)
OneRun ==
    /\ job.pc \in {"gate", "recalibrate"} /\ Cardinality(job.runs) < NRuns
    /\ Writes(job.suites, job.judge)
    /\ job' = IF Last(disk').broken THEN Exit(1, job.runs)
              ELSE [job EXCEPT !.runs = @ \cup {Len(disk')}]
    /\ UNCHANGED <<channel, floors>>

GateRuns ==
    /\ job.pc = "gate" /\ Cardinality(job.runs) = NRuns
    /\ job' = Exit(ExitCode(job.runs), job.runs)
    /\ UNCHANGED <<channel, disk, floors>>

RecalibrateRuns ==
    /\ job.pc = "recalibrate" /\ Cardinality(job.runs) = NRuns
    /\ \E c \in Channels : Recalibrated(job.runs, c)
    /\ job' = Idle
    /\ UNCHANGED <<channel, disk>>

(* --reports: any that are there *)
GateReports ==
    /\ Free
    /\ \E reports \in (SUBSET DOMAIN disk) \ {{}} :
        job' = [Exit(ExitCode(reports), reports) EXCEPT !.suites = {}]
    /\ UNCHANGED <<channel, disk, floors>>

RecalibrateReports ==
    /\ Free
    /\ \E reports \in (SUBSET DOMAIN disk) \ {{}}, c \in Channels : Recalibrated(reports, c)
    /\ job' = Idle
    /\ UNCHANGED <<channel, disk>>

GateNext ==
    \/ SwapModel \/ Evaluate
    \/ StartRuns("gate", {"llm", "deterministic"}) \/ StartRuns("recalibrate", {"deterministic"}) \/ OneRun
    \/ GateRuns \/ RecalibrateRuns \/ GateReports \/ RecalibrateReports

GateSpec == GateInit /\ [][GateNext]_gate_vars

-----------------------------------------------------------------------------

(* derive_floors, gate: the reports that floors were derived from pass the *)
(* gate under these floors, except on a metric whose floor was clamped at  *)
(* zero (its interval may reach below zero) - never for their channel.     *)
FreshFloorsPass ==
    job.pc = "done" /\ job.rc = 2 /\ job.runs = floors.from =>
        /\ ~Mismatch(floors.channel, job.runs)
        /\ \A m \in Failures(job.runs) : floors.least[m] = 0

(* check_channel_match, _run_eval_runs: a gate that passes compared runs   *)
(* of one known channel, the floors' own, and, when it made the runs       *)
(* itself, none that failed - although the model may have been swapped     *)
(* between two of its runs.                                                *)
PassMeansComparable ==
    job.pc = "done" /\ job.rc = 0 =>
        /\ floors.channel # "unknown" =>
              \A i \in job.runs : disk[i].channel \in {"unknown", floors.channel}
        /\ job.suites # {} => \A i \in job.runs : ~disk[i].broken

(* gate: no spread between the runs hides a drop that all of them show: a  *)
(* gate that passes had, for each metric it measured, a run at the floor.  *)
SustainedDropFails ==
    job.pc = "done" /\ job.rc = 0 =>
        \A m \in DOMAIN floors.least :
            Having(job.runs, m) # {} =>
                \E i \in Having(job.runs, m) : Value(i, m) >= floors.least[m] - Tolerance
=============================================================================
