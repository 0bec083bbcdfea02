------------------------------- MODULE UsageLog -------------------------------
(***************************************************************************)
(* What service/usage.py promises its callers, without the flusher: every  *)
(* recorded observation waits, is taken into one batch with all the others *)
(* that wait, and comes out of it written, waiting again, or given up.  A  *)
(* batch is written in recording order; only a batch whose writing was in  *)
(* doubt may be written again; what a full buffer gives up is the oldest   *)
(* observation that waits.                                                 *)
(***************************************************************************)
EXTENDS Naturals, Sequences, FiniteSets

CONSTANT Ids        \* a set of naturals: the observations, numbered in recording order

VARIABLES
    seen,       \* observations recorded
    waiting,    \* those that wait to be taken
    batch,      \* those being written
    given,      \* those given up
    log,        \* the table, in insertion order
    open        \* the process runs

log_vars == <<seen, waiting, batch, given, log, open>>

Init ==
    /\ seen = {} /\ waiting = {} /\ batch = {} /\ given = {}
    /\ log = <<>>
    /\ open = TRUE

Oldest(S) == {i \in S : \A j \in S : i <= j}
Ascending(s, S) ==
    /\ {s[k] : k \in DOMAIN s} = S
    /\ \A k, l \in DOMAIN s : k < l => s[k] < s[l]

Observe ==
    /\ open
    /\ \E i \in Ids \ seen, lost \in {{}, Oldest(waiting)} :
        /\ \A j \in seen : j < i
        /\ seen' = seen \cup {i}
        /\ waiting' = (waiting \ lost) \cup {i}
        /\ given' = given \cup lost
    /\ UNCHANGED <<batch, log, open>>

Take ==
    /\ open /\ batch = {} /\ waiting # {}
    /\ batch' = waiting /\ waiting' = {}
    /\ UNCHANGED <<seen, given, log, open>>

Write ==
    /\ Len(log') = Len(log) + Cardinality(batch)
    /\ SubSeq(log', 1, Len(log)) = log
    /\ Ascending(SubSeq(log', Len(log) + 1, Len(log')), batch)

Closing == open' \in {open, FALSE}

Written ==
    /\ batch # {} /\ Write /\ Closing
    /\ batch' = {}
    /\ UNCHANGED <<seen, waiting, given>>

Doubted ==
    /\ batch # {} /\ Closing
    /\ Write \/ UNCHANGED log
    /\ \E lost \in SUBSET batch :
        /\ given' = given \cup lost
        /\ waiting' = waiting \cup (batch \ lost)
    /\ batch' = {}
    /\ UNCHANGED seen

Close == open /\ batch = {} /\ open' = FALSE /\ UNCHANGED <<seen, waiting, batch, given, log>>

Next == Observe \/ Take \/ Written \/ Doubted \/ Close

Spec == Init /\ [][Next]_log_vars
===============================================================================
