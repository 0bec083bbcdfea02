------------------------------ MODULE Gateway ------------------------------
(***************************************************************************)
(* What a request to /api passes before and around the work it asks for:   *)
(* the rate limiter (api/ratelimit.py), the key (api/auth.py), the slots   *)
(* of agent runs (shared/slots.py), and the chat, stream and delete routes *)
(* of api/routes/agent_routes.py on one thread, up to what the graph does  *)
(* (module AgentThread).                                                   *)
(*                                                                         *)
(* Tokens are counted in units of which a whole one has window * Second,   *)
(* so that a bucket gains `requests` units with each tick of the clock.    *)
(***************************************************************************)
EXTENDS Integers, Sequences, FiniteSets, Functions

CONSTANTS
    Requests,           \* how many can be handled at a time (bound)
    MaxAdmitted,        \* how many the limiter lets through (bound)
    Keys, Accepted,     \* bucket keys ("anonymous" among them); EMA_API_KEY, VITE_EMA_API_KEY
    Quota,              \* tier -> [requests, window], window in seconds
    Second,             \* ticks in a second
    IdleTimeout,        \* _IDLE_TIMEOUT, in ticks
    MaxBuckets,         \* _MAX_BUCKETS
    MaxConcurrency,     \* MAX_AGENT_CONCURRENCY
    Tables,             \* the checkpointer's tables, in the order of their deletion
    MaxTime             \* bound on the clock

ASSUME GatewayAssumption ==
    /\ {Requests, MaxAdmitted, MaxTime} \subseteq Nat
    /\ {Second, IdleTimeout, MaxBuckets, MaxConcurrency} \subseteq Nat \ {0}
    /\ Accepted \subseteq Keys
    /\ Tables \in Seq(Range(Tables))
    /\ \A tier \in {"chat", "general"} :
        /\ {Quota[tier].requests, Quota[tier].window} \subseteq Nat \ {0}
        /\ Quota[tier].window * Second <= IdleTimeout

VARIABLES
    time,       \* time.monotonic
    buckets,    \* RateLimiter._buckets
    request,    \* the requests under way, and where their handlers are
    slots,      \* _agent_slots
    listed,     \* the thread's row in conversations
    rows,       \* the tables that hold checkpoints of the thread
    admitted,   \* ghost: how many the limiter let through, per bucket and tick
    promise     \* ghost: when a refused caller was told to come back, per bucket

vars == <<time, buckets, request, slots, listed, rows, admitted, promise>>

Kinds == {"chat", "stream", "delete"}
Tier(kind) == IF kind = "delete" THEN "general" ELSE "chat"
Ids == {"chat", "general"} \X Keys
Now == 0..MaxTime
None == -1

NoRequest == [pc |-> "none", kind |-> "-", todo |-> <<>>, gone |-> {}, spoilt |-> FALSE]
Goes(r, pc) == request' = [request EXCEPT ![r].pc = pc]
Answered(r) == request' = [request EXCEPT ![r] = NoRequest]
At(r, pc) == request[r].pc = pc

-----------------------------------------------------------------------------
(* RateLimiter.allow                                                       *)
Whole(b) == Quota[b[1]].window * Second
Capacity(b) == Quota[b[1]].requests * Whole(b)
Refilled(b) ==
    LET tokens == buckets[b].tokens + (time - buckets[b].last) * Quota[b[1]].requests
    IN IF tokens < Capacity(b) THEN tokens ELSE Capacity(b)

(* max(1, ceil(wait)) seconds, in ticks *)
RetryAfter_Floor(b, tokens) ==
    LET wait == (Whole(b) - tokens) \div (Quota[b[1]].requests * Second)
    IN Second * (IF wait < 1 THEN 1 ELSE wait)
RetryAfter(b, tokens) ==
    LET rate == Quota[b[1]].requests * Second
        wait == (Whole(b) - tokens + rate - 1) \div rate
    IN Second * (IF wait < 1 THEN 1 ELSE wait)

Kept ==
    IF Cardinality(DOMAIN buckets) < MaxBuckets THEN buckets
    ELSE Restrict(buckets, {b \in DOMAIN buckets : time - buckets[b].last <= IdleTimeout})

Bucket(tokens) == [tokens |-> tokens, last |-> time]
With(table, b, bucket) == [i \in DOMAIN table \cup {b} |-> IF i = b THEN bucket ELSE table[i]]

Fresh(b) == With(Kept, b, Bucket(Capacity(b) - Whole(b)))

Admitted == FoldFunction(LAMBDA log, n : n + FoldFunction(+, 0, log), 0, admitted)
Reached(b, tokens) == buckets' = With(buckets, b, Bucket(tokens))

(* The limiter, the key and the slot share no state: a request passes them *)
(* in one step.                                                            *)
Admit(kind, key) ==
    LET b == <<Tier(kind), key>>
    IN /\ Admitted < MaxAdmitted
       /\ \/ b \notin DOMAIN buckets /\ buckets' = Fresh(b)
          \/ b \in DOMAIN buckets /\ Refilled(b) >= Whole(b) /\ Reached(b, Refilled(b) - Whole(b))
       /\ admitted' = [admitted EXCEPT ![b][time] = @ + 1]
       /\ promise' = [promise EXCEPT ![b] = None]
       /\ UNCHANGED time

(* A 429 with the seconds to wait. *)
Refuse(b) ==
    /\ b \in DOMAIN buckets /\ Refilled(b) < Whole(b)
    /\ Reached(b, Refilled(b))
    /\ promise' = [promise EXCEPT ![b] = IF @ = None THEN time + RetryAfter(b, Refilled(b)) ELSE @]
    /\ UNCHANGED <<time, request, slots, listed, rows, admitted>>

Tick ==
    /\ time < MaxTime /\ time' = time + 1
    /\ UNCHANGED <<buckets, request, slots, listed, rows, admitted, promise>>

(* require_api_key comes after the limiter: a 401 has used its bucket. *)
Reject(kind, key) ==
    /\ key \notin Accepted /\ Admit(kind, key)
    /\ UNCHANGED <<request, slots, listed, rows>>

Handler(r, kind) ==
    /\ At(r, "none")
    /\ \E key \in Accepted : Admit(kind, key)

Limiter == <<time, buckets, admitted, promise>>

-----------------------------------------------------------------------------
(* The chat routes: a slot or a 503, the row of the conversation, the run. *)
Enough == slots < MaxConcurrency
Body(kind) == IF kind = "stream" THEN "start" ELSE "run"

(* A resumed run, and a message without text, list no conversation. *)
Take(r, kind) ==
    /\ Enough /\ Handler(r, kind)
    /\ slots' = slots + 1
    /\ \E pc \in {"upsert", Body(kind)} : request' = [request EXCEPT ![r].pc = pc, ![r].kind = kind]
    /\ UNCHANGED <<listed, rows>>

Busy(kind) ==
    /\ ~Enough /\ \E key \in Accepted : Admit(kind, key)
    /\ UNCHANGED <<request, slots, listed, rows>>

(* upsert_conversation swallows its errors. *)
Upsert(r) ==
    /\ At(r, "upsert")
    /\ listed' \in {TRUE, listed}
    /\ Goes(r, Body(request[r].kind))
    /\ UNCHANGED <<slots, rows, Limiter>>

(* The slot of a stream is released by the generator's finally, which a    *)
(* generator that is never started does not have.                          *)
Start(r) ==
    /\ At(r, "start")
    /\ Goes(r, "run")
    /\ UNCHANGED <<slots, listed, rows, Limiter>>

Abandon(r) ==
    /\ At(r, "start")
    /\ Goes(r, "abandoned")
    /\ UNCHANGED <<slots, listed, rows, Limiter>>

(* Checkpoints written after a DELETE are not among the rows it deletes.   *)
Spoilt(q) == [q EXCEPT !.gone = {}, !.spoilt = q.kind = "delete"]
Writes(r, ends) ==
    /\ rows' = Range(Tables)
    /\ request' = [i \in DOMAIN request |->
            IF i # r THEN Spoilt(request[i]) ELSE IF ends THEN NoRequest ELSE request[i]]

Run(r) ==
    /\ At(r, "run")
    /\ Writes(r, FALSE)
    /\ UNCHANGED <<slots, listed, Limiter>>

Release_Marked(r) == slots' = IF request[r].pc = "mark" THEN slots ELSE slots - 1
Release(r) == slots' = IF slots > 0 THEN slots - 1 ELSE 0

(* Completion, an interrupt of the graph, an error; also a stream that the *)
(* server cancels, for a client that went away or stopped reading.         *)
Finish(r) ==
    /\ At(r, "run")
    /\ Answered(r) /\ Release(r)
    /\ UNCHANGED <<listed, rows, Limiter>>

(* The deadline, and a disconnect that the loop over the stream notices.   *)
Interrupted(r) ==
    /\ At(r, "run")
    /\ Goes(r, "mark")
    /\ UNCHANGED <<slots, listed, rows, Limiter>>

Mark_Slot(r) ==
    /\ At(r, "mark") /\ Enough
    /\ Release(r)
    /\ Writes(r, TRUE)
    /\ UNCHANGED <<listed, Limiter>>
Mark(r) ==
    /\ At(r, "mark")
    /\ Release(r)
    /\ Writes(r, TRUE) \/ (Answered(r) /\ UNCHANGED rows)
    /\ UNCHANGED <<listed, Limiter>>

-----------------------------------------------------------------------------
(* delete_thread: one transaction, in which a failing statement rolls back *)
(* what came before it and lets the rest go on.                            *)
FindThread_Short(r) ==
    /\ Handler(r, "delete")
    /\ request' = IF listed THEN [request EXCEPT ![r].pc = "delete", ![r].kind = "delete", ![r].todo = Tail(Tables)]
                            ELSE request
    /\ UNCHANGED <<slots, listed, rows>>
FindThread(r) ==
    /\ Handler(r, "delete")
    /\ request' = IF listed THEN [request EXCEPT ![r].pc = "delete", ![r].kind = "delete", ![r].todo = Tables]
                            ELSE request
    /\ UNCHANGED <<slots, listed, rows>>

DeleteRows(r) ==
    /\ At(r, "delete") /\ request[r].todo # <<>>
    /\ request' = [request EXCEPT ![r].todo = Tail(@), ![r].gone = @ \cup {Head(request[r].todo)}]
    /\ UNCHANGED <<slots, listed, rows, Limiter>>

StatementFails(r) ==
    /\ At(r, "delete") /\ request[r].todo # <<>>
    /\ request' = [request EXCEPT ![r].todo = Tail(@), ![r].gone = {}, ![r].spoilt = TRUE]
    /\ UNCHANGED <<slots, listed, rows, Limiter>>

Commit(r) ==
    /\ At(r, "delete") /\ request[r].todo = <<>>
    /\ listed' = FALSE /\ rows' = rows \ request[r].gone /\ Answered(r)
    /\ UNCHANGED <<slots, Limiter>>

CommitFails(r) ==
    /\ At(r, "delete") /\ request[r].todo = <<>>
    /\ Answered(r)
    /\ UNCHANGED <<slots, listed, rows, Limiter>>

-----------------------------------------------------------------------------
Init ==
    /\ time = 0 /\ buckets = [b \in {} |-> 0] /\ request = [r \in 1..Requests |-> NoRequest]
    /\ slots = 0 /\ listed = FALSE /\ rows = {}
    /\ admitted = [b \in Ids |-> [t \in Now |-> 0]] /\ promise = [b \in Ids |-> None]

Handle(r) == Upsert(r) \/ Start(r) \/ Mark(r) \/ DeleteRows(r) \/ Commit(r)

Next ==
    \/ \E kind \in Kinds, key \in Keys : Reject(kind, key)
    \/ \E r \in DOMAIN request, kind \in {"chat", "stream"} : Take(r, kind)
    \/ \E r \in DOMAIN request : FindThread(r)
    \/ \E kind \in {"chat", "stream"} : Busy(kind)
    \/ \E b \in Ids : Refuse(b)
    \/ Tick
    \/ \E r \in DOMAIN request :
        \/ Handle(r) \/ Run(r) \/ Finish(r) \/ Interrupted(r) \/ Abandon(r)
        \/ StatementFails(r) \/ CommitFails(r)

(* The event loop runs every handler that can run; asyncio.timeout ends a  *)
(* run in any case.                                                        *)
Fairness == \A r \in 1..Requests : WF_vars(Handle(r)) /\ WF_vars(Finish(r) \/ Interrupted(r))
Spec == Init /\ [][Next]_vars /\ Fairness

-----------------------------------------------------------------------------
(* How many requests of a bucket were let through since a moment. *)
Passed(b, since) ==
    LET upTo[t \in Now] ==
            IF t < since THEN 0 ELSE admitted[b][t] + IF t = 0 THEN 0 ELSE upTo[t - 1]
    IN upTo[time]

QuotaHeld ==
    \A b \in Ids : \A since \in 0..time :
        Passed(b, since) * Whole(b) <= Capacity(b) + (time - since) * Quota[b[1]].requests

Holds(r) == At(r, "upsert") \/ At(r, "start") \/ At(r, "run") \/ At(r, "mark") \/ At(r, "abandoned")
SlotsAccounted == slots = Cardinality({r \in DOMAIN request : Holds(r)})

(* The two limits of the gateway.  Over every interval up to now, a key is *)
(* let through no more often than a full bucket and the refill of that     *)
(* interval allow, the first request, the refusals in between and pruned   *)
(* buckets included (RateLimiter.allow); and the counter of the slots is   *)
(* the number of the runs that hold one, on every path out of a chat or a  *)
(* stream (SlotLimiter; "all land here exactly once").                     *)
LimitsHeld == QuotaHeld /\ SlotsAccounted

(* A caller told to wait is let through when it comes back after that      *)
(* time, if nobody used the bucket meanwhile (Retry-After of a 429).       *)
RetryHonest ==
    [][\A b \in Ids : promise[b] # None /\ time >= promise[b] =>
        ~Refuse(b)]_vars

(* A thread whose deletion was reported leaves no checkpoint of it, unless *)
(* one of the statements failed or a run wrote while it was deleted        *)
(* (delete_thread).                                                        *)
DeletedMeansGone ==
    [][\A r \in DOMAIN request : Commit(r) /\ ~request[r].spoilt => rows' = {}]_vars

(* A slot comes back, whatever the run does, but for that of a stream      *)
(* whose body never starts.                                                *)
SlotsReturn ==
    \A r \in 1..Requests : Holds(r) ~> (~Holds(r) \/ At(r, "abandoned"))
=============================================================================
