----------------------------- MODULE UsageBuffer -----------------------------
(***************************************************************************)
(* service/usage.py: LLM call observations are appended to an in-memory    *)
(* buffer by record_call and drained into the llm_usage table by           *)
(* usage_flusher_loop, with a requeue of failed batches, and once more by  *)
(* the shutdown code of main.py; the loop also releases old samples, and   *)
(* the summaries, traces and samples are read from the table.              *)
(*                                                                         *)
(* Rows are numbered in the order they are recorded.  A batch leaves the   *)
(* buffer before the INSERT is awaited, so observations recorded meanwhile *)
(* meet the batch again only when it is requeued.                          *)
(***************************************************************************)
EXTENDS Integers, Sequences, FiniteSets, Collections

CONSTANTS
    Calls,          \* bound: the calls observed in a behaviour, in order
    MaxDay,         \* bound: the last day
    BufferMax,      \* usage_buffer_max
    MaxAttempts,    \* _FLUSH_MAX_ATTEMPTS
    Retention,      \* usage_sample_retention_days
    PriceRules,     \* _PRICE_RULES: fragment, input and output price
    DefaultPrice    \* _DEFAULT_PRICE

ASSUME UsageAssumption ==
    /\ Len(Calls) \in Nat /\ DOMAIN Calls = 1..Len(Calls)
    /\ {MaxDay, Retention} \subseteq Nat
    /\ BufferMax \in Nat \ {0}
    /\ MaxAttempts \in Nat \ {0}
    /\ \A i \in DOMAIN Calls :
         {Calls[i].input, Calls[i].output, Calls[i].read, Calls[i].creation} \subseteq Nat
    /\ Len(PriceRules) \in Nat /\ DOMAIN PriceRules = 1..Len(PriceRules)
    /\ \A n \in DOMAIN PriceRules : {PriceRules[n].in, PriceRules[n].out} \subseteq Nat
    /\ {DefaultPrice.in, DefaultPrice.out} \subseteq Nat

VARIABLES
    last,       \* number of observations recorded so far
    pending,    \* _pending
    inflight,   \* the batch a running flush_usage_buffer holds
    failing,    \* _consecutive_flush_failures > 0
    flusher,    \* where usage_flusher_loop, then the shutdown code, is
    table,      \* llm_usage, in the order of its seq column
    today, due, \* the day, and whether a day passed since the last purge
    dropped,    \* history: observations given up with a log line
    unacked     \* history: inserted by a flush that saw an error nonetheless

vars == <<last, pending, inflight, failing, flusher, table, today, due, dropped, unacked>>

Ids == DOMAIN Calls
Row == [id : Ids, attempts : 0..(MaxAttempts - 1)]

IdsOf(rows) == {rows[i].id : i \in DOMAIN rows}

Init ==
    /\ last = 0
    /\ pending = <<>>
    /\ inflight = <<>>
    /\ failing = FALSE
    /\ flusher = "sleep"
    /\ table = <<>> /\ today = 0
    /\ due \in BOOLEAN     \* time.monotonic() starts anywhere
    /\ dropped = {}
    /\ unacked = {}
-----------------------------------------------------------------------------
(* A full buffer drops its oldest observation before the append. *)
MakeRoom(rows) == IF Len(rows) >= BufferMax THEN Tail(rows) ELSE rows

(* record_call: background tasks may still call the LLM during shutdown. *)
Record ==
    /\ last < Len(Calls)
    /\ flusher # "closed"
    /\ last' = last + 1
    /\ pending' = Append(MakeRoom(pending), [id |-> last + 1, attempts |-> 0])
    /\ dropped' = dropped \cup (IdsOf(pending) \ IdsOf(MakeRoom(pending)))
    /\ UNCHANGED <<inflight, failing, flusher, table, today, due, unacked>>

(* The buffer is copied and cleared under its lock. *)
AfterDrain(rows) == <<>>

Drain(next) ==
    /\ pending # <<>>
    /\ inflight' = pending
    /\ pending' = AfterDrain(pending)
    /\ flusher' = next
    /\ UNCHANGED <<last, failing, table, today, due, dropped, unacked>>

Goto(next) ==
    /\ flusher' = next
    /\ UNCHANGED <<last, pending, inflight, failing, table, today, due, dropped, unacked>>

(* usage_flusher_loop wakes up; an empty flush keeps the failure counter. *)
Wake ==
    /\ flusher = "sleep"
    /\ \/ Drain("flush")
       \/ pending = <<>> /\ failing /\ Goto("backoff")
       \/ pending = <<>> /\ ~failing /\ due /\ Goto("purge")

BackoffEnds == flusher = "backoff" /\ Goto("purge")

(* _purge_expired_samples, at most once a day even when it fails: the row  *)
(* stays and loses its text.                                               *)
Expired(r) == today - r.day > Retention

Purge ==
    /\ flusher = "purge"
    /\ \/ /\ due
          /\ table' = [n \in DOMAIN table |-> [table[n] EXCEPT !.sample = @ /\ ~Expired(table[n])]]
       \/ UNCHANGED table
    /\ due' = FALSE
    /\ flusher' = "sleep"
    /\ UNCHANGED <<last, pending, inflight, failing, today, dropped, unacked>>
-----------------------------------------------------------------------------
(* _requeue_failed_rows *)
Aged_NotCounted(rows) == rows

Aged(rows) == [i \in DOMAIN rows |-> [rows[i] EXCEPT !.attempts = @ + 1]]

Retained(rows) == Chosen(Aged(rows), {i \in DOMAIN rows : Aged(rows)[i].attempts < MaxAttempts})

Requeued_Replaces(rows) == Retained(rows)

Requeued(rows) == Retained(rows) \o pending

(* Errors are always sampled, successes by chance; the database dates the  *)
(* row, so its day is the flush's.                                         *)
Sampled(c) == c.status = "error" \/ c.drawn

Inserted(committed) ==
    IF committed
    THEN table \o [n \in DOMAIN inflight |->
            [id |-> inflight[n].id, day |-> today, sample |-> Sampled(Calls[inflight[n].id])]]
    ELSE table

(* flush_usage_buffer, the INSERT and its COMMIT went through. *)
Succeed(next) ==
    /\ table' = Inserted(TRUE)
    /\ inflight' = <<>>
    /\ failing' = FALSE
    /\ flusher' = next
    /\ UNCHANGED <<last, pending, today, due, dropped, unacked>>

(* An error or a cancellation: the COMMIT may have taken effect although   *)
(* the caller never learns it.                                             *)
Requeue(committed, next) ==
    /\ table' = Inserted(committed)
    /\ unacked' = IF committed THEN unacked \cup IdsOf(inflight) ELSE unacked
    /\ pending' = Requeued(inflight)
    /\ dropped' = dropped \cup (IdsOf(inflight) \ IdsOf(Retained(inflight)))
    /\ inflight' = <<>>
    /\ failing' = TRUE
    /\ flusher' = next
    /\ UNCHANGED <<last, today, due>>

FlushEnds ==
    /\ flusher = "flush"
    /\ \/ Succeed("purge")
       \/ \E committed \in BOOLEAN : Requeue(committed, "backoff")

(* main.py, shutdown: the loop is cancelled wherever it awaits. *)
Cancel ==
    \/ flusher \in {"sleep", "backoff", "purge"} /\ Goto("final")
    \/ flusher = "flush" /\ \E committed \in BOOLEAN : Requeue(committed, "final")

FinalDrain ==
    /\ flusher = "final"
    /\ \/ Drain("finalflush")
       \/ pending = <<>> /\ Goto("closed")

FinalFlushEnds ==
    /\ flusher = "finalflush"
    /\ \/ Succeed("closed")
       \/ \E committed \in BOOLEAN : Requeue(committed, "closed")

NextDay ==
    /\ today < MaxDay
    /\ today' = today + 1 /\ due' = TRUE
    /\ UNCHANGED <<last, pending, inflight, failing, flusher, table, dropped, unacked>>

FlusherStep == Wake \/ BackoffEnds \/ Purge \/ FlushEnds \/ FinalDrain \/ FinalFlushEnds

Next == Record \/ FlusherStep \/ Cancel \/ NextDay

Spec == Init /\ [][Next]_vars

(* The event loop runs the flusher, and every await on the database ends. *)
FairSpec == Spec /\ WF_vars(FlusherStep)
-----------------------------------------------------------------------------
(* The read side.  A model's name is the set of price fragments it holds.  *)

(* _cache_read_price_factor, in tenths. *)
CacheReadFactor(provider, model) ==
    IF provider = "anthropic" \/ model \cap {"claude", "deepseek"} # {} THEN 1 ELSE 5

(* The first rule of the table that matches prices the model. *)
Price(model) ==
    LET matching == {n \in DOMAIN PriceRules : PriceRules[n].fragment \in model}
    IN IF matching = {} THEN DefaultPrice ELSE PriceRules[CHOOSE n \in matching : \A m \in matching : n <= m]

(* estimate_cost, ten times as large to stay whole. *)
EstimateCost(provider, model, used) ==
    LET price == Price(model)
    IN 10 * (used.input * price.in + used.output * price.out + used.creation * price.in)
       + used.read * price.in * CacheReadFactor(provider, model)

Recent(days) == {n \in DOMAIN table : today - table[n].day <= days}
Call(n) == Calls[table[n].id]

Key(kind, n) ==
    CASE kind = "day" -> table[n].day
      [] kind = "scenario" -> Call(n).scenario
      [] kind = "model" -> <<Call(n).provider, Call(n).model>>

(* The tokens of some rows, added up. *)
Used(rows) ==
    [input |-> Total([n \in rows |-> Call(n).input], rows),
     output |-> Total([n \in rows |-> Call(n).output], rows),
     read |-> Total([n \in rows |-> Call(n).read], rows),
     creation |-> Total([n \in rows |-> Call(n).creation], rows)]

Group_ByModel(kind, n) == <<Key(kind, n), Call(n).model>>
Group(kind, n) == <<Key(kind, n), Call(n).model, Call(n).provider>>

(* The rows that GROUP BY puts with row n, and the first row of each group. *)
GroupWith(kind, days, n) == {m \in Recent(days) : Group(kind, m) = Group(kind, n)}
Firsts(kind, days) == {n \in Recent(days) : \A m \in GroupWith(kind, days, n) : n <= m}
Line(kind, days, k) == {n \in Recent(days) : Key(kind, n) = k}

(* A group is priced as one call of the provider and model it names. *)
GroupCost(kind, days, n) ==
    EstimateCost(Call(n).provider, Call(n).model, Used(GroupWith(kind, days, n)))

(* _fold_summary: one line per key. *)
Summary(kind, days) ==
    [k \in {Key(kind, n) : n \in Recent(days)} |->
        LET heads == Firsts(kind, days) \cap Line(kind, days, k)
        IN [calls |-> Cardinality(Line(kind, days, k)),
            errors |-> Cardinality({n \in Line(kind, days, k) : Call(n).status = "error"}),
            cost |-> Total([n \in heads |-> GroupCost(kind, days, n)], heads)]]

(* _with_totals *)
Totals(lines) ==
    [calls |-> Total([k \in DOMAIN lines |-> lines[k].calls], DOMAIN lines),
     cost |-> Total([k \in DOMAIN lines |-> lines[k].cost], DOMAIN lines)]

FirstN(s, n) == SubSeq(s, 1, IF n < Len(s) THEN n ELSE Len(s))

(* get_trace: the first calls of a trace, by seq. *)
GetTrace(trace, limit) == FirstN(Chosen(table, {n \in DOMAIN table : Call(n).trace = trace}), limit)

(* get_samples with a status, newest first. *)
GetSamples(status, limit) ==
    LET found == {n \in DOMAIN table : table[n].sample /\ Call(n).status = status}
    IN {n \in found : Cardinality({m \in found : table[m].day > table[n].day}) < limit}
-----------------------------------------------------------------------------
(* The abstract log, under the mapping that forgets the flusher's steps,   *)
(* the attempts and the samples.                                           *)
Log == INSTANCE UsageLog WITH
    seen <- 1..last,
    waiting <- IdsOf(pending),
    batch <- IdsOf(inflight),
    given <- dropped,
    log <- [n \in DOMAIN table |-> table[n].id],
    open <- flusher # "closed"

(* The buffer, its flusher and the shutdown implement that log: no order   *)
(* of recordings, failed or doubtful flushes and the cancellation loses an *)
(* observation without a log line ("the already-drained rows would be      *)
(* silently discarded", flush_usage_buffer), writes one twice unless an    *)
(* INSERT was in doubt, or drops any but the oldest ("dropping oldest      *)
(* observation", record_call).                                             *)
ImplementsLog == Log!Spec

(* Every observation is inserted or given up while the process lives:      *)
(* retries end after _FLUSH_MAX_ATTEMPTS failed flushes.                   *)
EventuallySettled ==
    \A i \in Ids :
        i <= last ~> \/ \E n \in DOMAIN table : table[n].id = i
                     \/ i \in dropped \/ flusher = "closed"

SummariesAddUp ==
    \A kind \in {"day", "scenario", "model"}, days \in 0..MaxDay :
        LET rows == Recent(days)
            alone == [n \in rows |-> EstimateCost(Call(n).provider, Call(n).model, Call(n))]
        IN Totals(Summary(kind, days)) = [calls |-> Cardinality(rows), cost |-> Total(alone, rows)]

TracesReplay ==
    \A trace \in {Calls[i].trace : i \in Ids} :
        LET replay == GetTrace(trace, Len(table))
        IN \A m, n \in DOMAIN replay :
            m < n /\ replay[m].id \notin unacked => replay[m].id < replay[n].id

ErrorsSampled ==
    \A n \in DOMAIN table :
        Call(n).status = "error" /\ today - table[n].day <= Retention
            => n \in GetSamples("error", Len(table))

(* What is read is what was recorded.  The summaries by day, scenario and  *)
(* model add up to the calls of their window and to what these cost one by *)
(* one, although they are priced by groups ("All summaries group by their  *)
(* key *and* (provider, model)"); a trace whose flushes were not in doubt  *)
(* replays in call order ("replay a single agent run end-to-end",          *)
(* get_trace); and the text of a failed call is there as long as its       *)
(* retention lasts ("Error calls are always sampled").                     *)
ReadsFaithful == SummariesAddUp /\ TracesReplay /\ ErrorsSampled
=============================================================================
