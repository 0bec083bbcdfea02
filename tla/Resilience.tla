----------------------------- MODULE Resilience ------------------------------
(***************************************************************************)
(* Provider calls under shared/resilience.py (circuit breaker, transport   *)
(* retry) and service/llm_service.py (cross-provider failover).            *)
(*                                                                         *)
(* Several calls are in flight at once and share one breaker per provider, *)
(* so a call can report its outcome long after the breaker tripped, or     *)
(* even after it recovered.  time.monotonic() is modelled by what is left  *)
(* of the cooldown: left = max(_open_until - now, 0), and opened is        *)
(* _open_until # 0.0.                                                      *)
(***************************************************************************)
EXTENDS Naturals

CONSTANTS
    Calls,          \* concurrent provider calls
    Threshold,      \* circuit_breaker_threshold
    Cooldown,       \* circuit_breaker_cooldown, in ticks
    MaxAttempts     \* retry attempts of call_with_resilience

ASSUME ParametersAssumption ==
    /\ Threshold \in Nat \ {0}
    /\ Cooldown \in Nat \ {0}
    /\ MaxAttempts \in Nat \ {0}

VARIABLES
    failures,   \* _failures of every breaker
    opened,     \* _open_until # 0.0
    left,       \* what is left of the cooldown
    since,      \* history: ticks since the last trip, saturating at Cooldown
    call        \* the calls

breaker_vars == <<failures, opened, left, since, call>>
breakers == <<failures, opened, left, since>>

Providers == {"primary", "fallback"}

(* chat and chat_raw retry; chat_json does not; a stream retries only its  *)
(* connection.                                                             *)
Kinds == {"chat", "json", "stream"}

AttemptLimit(kind) == IF kind = "json" THEN 1 ELSE MaxAttempts

Call == [pc : {"idle", "enter", "try", "body"}, kind : Kinds,
         prov : Providers, att : 1..MaxAttempts, token : BOOLEAN]

IdleCall == [pc |-> "idle", kind |-> "chat", prov |-> "primary", att |-> 1,
             token |-> FALSE]

(* A call about to consult the breaker of a provider. *)
Entering(kind, prov, token) ==
    [pc |-> "enter", kind |-> kind, prov |-> prov, att |-> 1, token |-> token]

BreakerInit ==
    /\ failures = [p \in Providers |-> 0]
    /\ opened = [p \in Providers |-> FALSE]
    /\ left = [p \in Providers |-> 0]
    /\ since = [p \in Providers |-> Cooldown]
    /\ call = [c \in Calls |-> IdleCall]
-----------------------------------------------------------------------------
(* CircuitBreaker.before_call: once the cooldown is over, open or not. *)
Admits_NeverAgain(p) == ~opened[p]

Admits(p) == left[p] = 0

Readmit(p) ==
    /\ opened' = [opened EXCEPT ![p] = FALSE]
    /\ failures' = [failures EXCEPT ![p] = IF opened[p] THEN 0 ELSE @]
    /\ UNCHANGED <<left, since>>

(* CircuitBreaker.record_success: ignored while the breaker is open. *)
RecordSuccess_ClosesBreaker(p) ==
    /\ failures' = [failures EXCEPT ![p] = 0]
    /\ opened' = [opened EXCEPT ![p] = FALSE]
    /\ left' = [left EXCEPT ![p] = 0]
    /\ UNCHANGED since

RecordSuccess(p) ==
    /\ failures' = [failures EXCEPT ![p] = IF opened[p] THEN @ ELSE 0]
    /\ UNCHANGED <<opened, left, since>>

(* CircuitBreaker.record_failure: counts, and trips, even while open. *)
Trips(p) == failures[p] + 1 >= Threshold

RecordFailure(p) ==
    IF Trips(p)
    THEN /\ failures' = [failures EXCEPT ![p] = 0]
         /\ opened' = [opened EXCEPT ![p] = TRUE]
         /\ left' = [left EXCEPT ![p] = Cooldown]
         /\ since' = [since EXCEPT ![p] = 0]
    ELSE /\ failures' = [failures EXCEPT ![p] = @ + 1]
         /\ UNCHANGED <<opened, left, since>>

(* One tick of the clock. *)
Tick ==
    /\ left' = [p \in Providers |-> IF left[p] > 0 THEN left[p] - 1 ELSE 0]
    /\ since' = [p \in Providers |->
                    IF since[p] < Cooldown THEN since[p] + 1 ELSE Cooldown]
    /\ UNCHANGED <<failures, opened, call>>
-----------------------------------------------------------------------------
End(c) == call' = [call EXCEPT ![c] = IdleCall]

MayFailOver_AfterToken(c) == call[c].prov = "primary"

(* FallbackLLMProvider: the primary is in trouble and nothing was yielded. *)
MayFailOver(c) == call[c].prov = "primary" /\ ~call[c].token

(* Fail over to the second provider, or raise to the caller. *)
GiveUp(c) ==
    IF MayFailOver(c)
    THEN call' = [call EXCEPT ![c] = Entering(@.kind, "fallback", @.token)]
    ELSE End(c)

Start(c, kind) ==
    /\ call[c].pc = "idle"
    /\ call' = [call EXCEPT ![c] = Entering(kind, "primary", FALSE)]
    /\ UNCHANGED breakers

(* The breaker is consulted once per call, before the first attempt. *)
Enter(c) ==
    /\ call[c].pc = "enter"
    /\ IF Admits(call[c].prov)
       THEN Readmit(call[c].prov) /\ call' = [call EXCEPT ![c].pc = "try"]
       ELSE GiveUp(c) /\ UNCHANGED breakers

(* A retryable error: another attempt, or one failure for the whole call. *)
AttemptFails(c) ==
    /\ call[c].pc = "try"
    /\ IF call[c].att < AttemptLimit(call[c].kind)
       THEN call' = [call EXCEPT ![c].att = @ + 1] /\ UNCHANGED breakers
       ELSE RecordFailure(call[c].prov) /\ GiveUp(c)

(* A non-retryable error (or a cancelled caller) records nothing. *)
Abandon(c) ==
    /\ call[c].pc \in {"try", "body"}
    /\ End(c)
    /\ UNCHANGED breakers

AttemptSucceeds(c) ==
    /\ call[c].pc = "try"
    /\ IF call[c].kind = "stream"
       THEN call' = [call EXCEPT ![c].pc = "body"] /\ UNCHANGED breakers
       ELSE RecordSuccess(call[c].prov) /\ End(c)

(* resilient_stream_guard: the outcome is that of the stream's body. *)
YieldToken(c) ==
    /\ call[c].pc = "body" /\ ~call[c].token
    /\ call' = [call EXCEPT ![c].token = TRUE]
    /\ UNCHANGED breakers

BodyFails(c) ==
    /\ call[c].pc = "body"
    /\ RecordFailure(call[c].prov)
    /\ GiveUp(c)

BodyEnds(c) ==
    /\ call[c].pc = "body"
    /\ RecordSuccess(call[c].prov)
    /\ End(c)

Outcome(c) ==
    AttemptFails(c) \/ Abandon(c) \/ AttemptSucceeds(c) \/ BodyFails(c) \/ BodyEnds(c)

BreakerNext ==
    \/ Tick
    \/ \E c \in Calls : \/ \E kind \in Kinds : Start(c, kind)
                        \/ Enter(c) \/ Outcome(c) \/ YieldToken(c)

(* Time passes, every SDK call has a timeout, and traffic keeps coming.   *)
Fairness ==
    /\ WF_breaker_vars(Tick)
    /\ \A c \in Calls : /\ WF_breaker_vars(Outcome(c))
                        /\ WF_breaker_vars(Enter(c))
                        /\ WF_breaker_vars(\E kind \in Kinds : Start(c, kind))

BreakerSpec == BreakerInit /\ [][BreakerNext]_breaker_vars

BreakerFairSpec == BreakerSpec /\ Fairness
-----------------------------------------------------------------------------
(* Every variable keeps its type; a breaker never counts to its threshold *)
(* without tripping, and no call attempts more often than configured.     *)
TypeOK ==
    /\ failures \in [Providers -> 0..(Threshold - 1)]
    /\ opened \in [Providers -> BOOLEAN]
    /\ left \in [Providers -> 0..Cooldown]
    /\ since \in [Providers -> 0..Cooldown]
    /\ call \in [Calls -> Call]

(* After a trip no call is admitted for a whole cooldown, whatever calls   *)
(* already in flight report meanwhile: a late success cannot close the     *)
(* breaker (record_success, "a stale success ... is simply ignored").      *)
NoAdmissionDuringCooldown ==
    [][\A c \in Calls :
          call[c].pc = "enter" /\ call'[c].pc = "try"
            => since[call[c].prov] = Cooldown]_breaker_vars

(* Once a token reached the client the call never moves to the fallback:   *)
(* "tokens already delivered are never retried" (resilient_stream_guard).  *)
NoFailoverAfterToken ==
    [][\A c \in Calls :
          call[c].token => call'[c].pc = "idle" \/ call'[c].prov = call[c].prov]_breaker_vars

(* An open breaker admits traffic again ("when the cooldown elapses the    *)
(* breaker admits calls again", CircuitBreaker): calls admitted before the *)
(* trip may fail late and trip it anew, but each of them only once, and    *)
(* those that come meanwhile are refused and record nothing.               *)
PrimaryReadmitted == opened["primary"] ~> ~opened["primary"]
=============================================================================
