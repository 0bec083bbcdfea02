----------------------------- MODULE AgentThread -----------------------------
(***************************************************************************)
(* One chat thread of the agent: the graph of agent/graph.py with the      *)
(* nodes of agent/nodes.py, driven by the chat routes                      *)
(* (api/routes/agent_routes.py) and resumed by a human's verdicts.         *)
(*                                                                         *)
(* A checkpoint is taken after every node, so a node's update is atomic    *)
(* and is lost when the run is cancelled inside it.  A message keeps its   *)
(* role, its tool calls or the call it answers, and the class of its       *)
(* content; every message costs one unit of the context budget.  In which  *)
(* order a message asks for its calls is left out: nothing depends on it.  *)
(* The requests of a thread come one after the other, as the chat page     *)
(* sends them; the routes do not see to it.                                *)
(***************************************************************************)
EXTENDS Integers, Sequences, FiniteSets, SequencesExt, Collections

CONSTANTS
    MaxSteps,       \* MAX_AGENT_STEPS
    CaptureSlots,   \* _AUTO_MEMORY_MAX_CONCURRENCY
    Answers,        \* the model's answers: tools asked for, and whether with text
    Gated,          \* CHAT_APPROVAL_TOOLS
    MaxTurns,       \* bound: user messages
    MaxStops        \* bound: timeouts, disconnects and crashes

ASSUME AgentAssumption ==
    /\ {MaxTurns, MaxStops} \subseteq Nat
    /\ {MaxSteps, CaptureSlots} \subseteq Nat \ {0}
    /\ "write" \notin Gated     \* only the checkbox writes, already confirmed,
    /\ \A a \in Answers :       \* and the model is not offered the tool
          /\ a.tools \in Seq(Range(a.tools)) /\ "write" \notin Range(a.tools)
          /\ a.out \in {"text", "blank"}

VARIABLES
    msgs, steps, force,     \* AgentState: messages, step_count, force_write
    node,                   \* the node to run next, or who is awaited
    captures,               \* the auto-memory tasks in flight
    throttled,              \* the thread wrote within the capture interval
    turn,                   \* history: user messages so far
    forced,                 \* history: turns sent with the checkbox ticked
    excused,                \* history: turns a fault or a verdict cut short
    cleared,                \* history: calls of the latest answer a verdict let run
    ran,                    \* history: executed calls and how they went
    captured,               \* history: turns auto-memory stored
    stops                   \* cancelled runs so far

state == <<msgs, steps, force>>
vars == <<state, node, captures, throttled, turn, forced, excused, cleared, ran, captured, stops>>

-----------------------------------------------------------------------------
(* Messages. *)

NoCalls == {}
NoCall == <<0, 0>>
Message(role, calls, call, tool, out) ==
    [role |-> role, calls |-> calls, call |-> call, tool |-> tool, out |-> out]
Human == Message("human", NoCalls, NoCall, "-", "text")
System(what) == Message("system", NoCalls, NoCall, "-", what)
Assistant(calls, out) == Message("ai", calls, NoCall, "-", out)
ToolResult(c, out) == Message("tool", NoCalls, c.id, c.tool, out)

IsErrorStub(m) == m.role = "ai" /\ m.out = "stub"
Notices == {"rejected", "cancelled"}
Newest(s) == s[Len(s)]
LastN(s, n) == SubSeq(s, IF n < Len(s) THEN Len(s) - n + 1 ELSE 1, Len(s))
Ids(calls) == {c.id : c \in calls}
Only(calls, ids) == {c \in calls : c.id \in ids}

(* Where the messages since the latest user message stand, it included.    *)
ThisTurn(s) == {i \in DOMAIN s : \A j \in (i + 1)..Len(s) : s[j].role # "human"}
Latest(places) == CHOOSE i \in places : \A j \in places : j <= i

IsWrite(m) == m.role = "tool" /\ m.tool = "write"
AsksWrite(m) == \E c \in m.calls : c.tool = "write"

ApprovalNotice(s) == \E i \in ThisTurn(s) : s[i].role = "tool" /\ s[i].out \in Notices
NewUserTurn(s) == s # <<>> /\ Newest(s).role = "human"
WriteUsed(s) == \E i \in ThisTurn(s) : IsWrite(s[i]) \/ AsksWrite(s[i])
WriteSettled_Stored(s) == \E i \in ThisTurn(s) : IsWrite(s[i]) /\ s[i].out = "stored"
WriteSettled(s) == \E i \in ThisTurn(s) : IsWrite(s[i]) /\ s[i].out \in {"stored", "resolved"}

(* What the client is told: the turn's latest write, unless its result is  *)
(* not one; and the transcript, in which the words of a turn's last        *)
(* assistant message stand for all of them.                                *)
TurnWrites(s) == {i \in ThisTurn(s) : IsWrite(s[i])}
WriteReported(s) ==
    LET out == s[Latest(TurnWrites(s))].out
    IN IF TurnWrites(s) # {} /\ out \in {"stored", "conflict"} THEN out ELSE "none"

Plain(m) == m.role = "ai" /\ m.calls = NoCalls
TurnEnd(s, i) == CHOOSE j \in i..Len(s) : /\ \A k \in (i + 1)..j : s[k].role # "human"
                                          /\ j < Len(s) => s[j + 1].role = "human"
Displayed(s) ==
    LET shown(i) == \/ s[i].role = "human"
                    \/ Plain(s[i]) /\ \A k \in (i + 1)..TurnEnd(s, i) : ~Plain(s[k])
    IN Places(s, {i \in DOMAIN s : shown(i)})

(* The tools a client is shown: the confirmed write is silent, a read is a *)
(* source.  A live reply, and the meta event of a stream, carry those of   *)
(* the whole thread; the transcript has a panel per turn.                  *)
ReadOnly == {"search"}
Silent == {"write"}
NotTraces == ReadOnly \cup Silent
NotSources == Silent
Extracted(s, turnMsgs, hidden) ==
    {s[k].call : k \in {j \in turnMsgs : s[j].role = "tool" /\ s[j].tool \notin hidden}}

LivePanel(s, hidden) == Extracted(s, DOMAIN s, hidden)

(* A turn's panel goes to the latest assistant message displayed by its    *)
(* end, an earlier turn's if it has none, and replaces what was there; a   *)
(* turn without tools leaves the panel as it is.                           *)
Panel_FirstTurn(s, i, hidden) == Extracted(s, 1..TurnEnd(s, i), hidden)
Panel(s, i, hidden) ==
    LET from(t) == t..TurnEnd(s, t)
        starts == {t \in DOMAIN s : t = 1 \/ s[t].role = "human"}
        next == {j \in DOMAIN s : j > i /\ j \in ToSet(Displayed(s)) /\ Plain(s[j])}
        carried == {t \in starts : /\ TurnEnd(s, t) >= i
                                   /\ \A j \in next : TurnEnd(s, t) < j
                                   /\ Extracted(s, from(t), hidden) # {}}
    IN IF carried = {} THEN {} ELSE Extracted(s, from(Latest(carried)), hidden)

-----------------------------------------------------------------------------
(* What a provider is sent. *)

SystemsOf(s) == Chosen(s, {i \in DOMAIN s : s[i].role = "system"})
RestOf(s) == Chosen(s, {i \in DOMAIN s : s[i].role # "system"})

Window(s, budget) ==
    IF Len(RestOf(s)) <= budget THEN s ELSE SystemsOf(s) \o LastN(RestOf(s), budget)

TailBudget(budget) == IF (budget * 6) \div 10 = 0 THEN 1 ELSE (budget * 6) \div 10

(* summarised: the summary call of the overflow gave a text. *)
Compact(s, budget, summarised) ==
    IF Len(RestOf(s)) <= budget \/ ~summarised
    THEN s
    ELSE SystemsOf(s) \o <<System("summary")>> \o LastN(RestOf(s), TailBudget(budget))

Bounded(s, budget, summarised) == Window(Compact(s, budget, summarised), budget)

(* Several system messages become one, which speaks as the first of them. *)
MergeSystem(s) ==
    IF Len(SystemsOf(s)) <= 1 THEN s ELSE <<Head(SystemsOf(s))>> \o RestOf(s)

Responded(s) == {s[i].call : i \in {j \in DOMAIN s : s[j].role = "tool"}}

Answered(m, s) == Only(m.calls, Responded(s))

(* Error stubs, unanswered calls and results without their call are cut. *)
Dicts(s) ==
    LET answered(m) == Answered(m, s)
        emitted(i) == UNION {Ids(answered(s[j])) : j \in {k \in 1..(i - 1) : ~IsErrorStub(s[k])}}
        keep(i) == ~IsErrorStub(s[i]) /\ (s[i].role = "tool" => s[i].call \in emitted(i))
        kept == Places(s, {i \in DOMAIN s : keep(i)})
    IN [k \in DOMAIN kept |-> [s[kept[k]] EXCEPT !.calls = answered(s[kept[k]])]]

(* call_llm's request: bounded history under the persona. *)
Request(s, budget, summarised) ==
    LET bounded == Bounded(s, budget, summarised)
        full == IF SystemsOf(s) = <<>> THEN <<System("persona")>> \o bounded ELSE bounded
    IN Dicts(MergeSystem(full))

(* generate_final's request: tool results as context under the persona,    *)
(* then the user's and the model's words.                                  *)
FinalPrompt(s, budget, summarised) ==
    LET windowed == Bounded(s, budget, summarised)
        isContext(m) == m.role \in {"system", "tool"}
        isWords(m) == ~IsErrorStub(m) /\ m.role \in {"human", "ai"} /\ (m.role = "ai" => m.out # "blank")
    IN [context |-> Chosen(windowed, {i \in DOMAIN windowed : isContext(windowed[i])}),
        history |-> Chosen(windowed, {i \in DOMAIN windowed : isWords(windowed[i])})]

(* OpenAI-compatible APIs: the calls of an assistant message are answered  *)
(* by the tool messages right after it, and nothing else is one.           *)
WellFormed(d) ==
    /\ \A i \in {j \in DOMAIN d : d[j].calls # NoCalls} :
        LET n == Cardinality(d[i].calls)
        IN /\ i + n <= Len(d)
           /\ \A k \in (i + 1)..(i + n) : d[k].role = "tool"
           /\ {d[k].call : k \in (i + 1)..(i + n)} = Ids(d[i].calls)
    /\ \A i \in {j \in DOMAIN d : d[j].role = "tool"} :
        \E j \in 1..(i - 1) :
            /\ d[i].call \in Ids(d[j].calls)
            /\ \A k \in (j + 1)..i : d[k].role = "tool"

(* The same request as AnthropicProvider sends it: a leading system        *)
(* message becomes a parameter, results that follow each other become one  *)
(* user message, calls become blocks of their assistant message.           *)
Split(d) == IF d # <<>> /\ Head(d).role = "system" THEN Tail(d) ELSE d

Block(role, uses, results) == [role |-> role, uses |-> uses, results |-> results]
Role(m) == IF m.role = "ai" THEN "assistant" ELSE IF m.role = "human" THEN "user" ELSE m.role

ToAnthropic_Single(d) ==
    [i \in DOMAIN d |-> IF d[i].role = "tool" THEN Block("user", {}, {d[i].call})
                        ELSE Block(Role(d[i]), Ids(d[i].calls), {})]
ToAnthropic(d) ==
    LET flushes(i) == d[i].role # "tool" \/ i = 1 \/ d[i - 1].role # "tool"
        heads == Places(d, {i \in DOMAIN d : flushes(i)})
        pending(i) == {d[k].call : k \in {j \in i..Len(d) : \A l \in i..j : d[l].role = "tool"}}
    IN [n \in DOMAIN heads |->
            LET m == d[heads[n]]
            IN IF m.role = "tool" THEN Block("user", {}, pending(heads[n]))
               ELSE Block(Role(m), Ids(m.calls), {})]

(* Anthropic: the blocks asked for are answered, all of them and nothing   *)
(* else, by the next message; a system entry is not a message.             *)
Accepted(t) ==
    \A k \in DOMAIN t :
        /\ t[k].role \in {"user", "assistant"}
        /\ t[k].uses # {} => k < Len(t) /\ t[k + 1].results = t[k].uses
        /\ t[k].results # {} => k > 1 /\ t[k].results = t[k - 1].uses

-----------------------------------------------------------------------------
Waiting == {"idle", "await_approval", "await_conflict"}
Nodes == {"call_llm", "check_approval", "tools", "check_conflict", "resolving", "generate_final"}

Init ==
    /\ msgs = <<>> /\ steps = 0 /\ force = FALSE
    /\ node = "idle"
    /\ captures = {} /\ throttled = FALSE
    /\ turn = 0 /\ stops = 0
    /\ forced = {} /\ excused = {} /\ cleared = {} /\ ran = {} /\ captured = {}

(* The input of a run always carries the flag, ticked or not. *)
InputForce_Sticky(f) == f \/ force
InputForce(f) == f

(* agent_chat and agent_chat_stream with a message: a new run starts, and  *)
(* an unanswered interrupt is dropped with its pending node.               *)
NewMessage(f) ==
    /\ node \in Waiting /\ turn < MaxTurns
    /\ msgs' = Append(msgs, Human)
    /\ force' = InputForce(f)
    /\ node' = "call_llm"
    /\ turn' = turn + 1
    /\ forced' = IF f THEN forced \cup {turn + 1} ELSE forced
    /\ excused' = IF node = "idle" THEN excused ELSE excused \cup {turn}
    /\ UNCHANGED <<steps, captures, throttled, cleared, ran, captured, stops>>

(* Ids of model calls are fresh; those of injected calls count the calls.  *)
ModelCalls(tools) ==
    {[id |-> <<Len(msgs) + 1, i>>, tool |-> tools[i]] : i \in DOMAIN tools}
ForcedCall(calls) == [id |-> <<0, Cardinality(calls) + 1>>, tool |-> "write"]

StepBase == IF NewUserTurn(msgs) THEN 0 ELSE steps

Route(n, calls) ==
    IF n >= MaxSteps \/ calls = NoCalls THEN "generate_final" ELSE "check_approval"

CallLLM(answer) ==
    /\ node = "call_llm"
    /\ LET asked == ModelCalls(answer.tools)
           calls == IF force /\ ~WriteUsed(msgs) THEN asked \cup {ForcedCall(asked)} ELSE asked
       IN /\ msgs' = Append(msgs, Assistant(calls, answer.out))
          /\ node' = Route(StepBase + 1, calls)
    /\ steps' = StepBase + 1
    /\ force' = FALSE
    /\ cleared' = {}
    /\ UNCHANGED <<captures, throttled, turn, forced, excused, ran, captured, stops>>

(* The call raised: a marked stub is the answer, the step is not counted.  *)
CallLLMFails ==
    /\ node = "call_llm"
    /\ msgs' = Append(msgs, Assistant(NoCalls, "stub"))
    /\ force' = FALSE
    /\ node' = "generate_final"
    /\ excused' = IF force THEN excused \cup {turn} ELSE excused
    /\ UNCHANGED <<steps, captures, throttled, turn, forced, cleared, ran, captured, stops>>

AnswerAt == Latest({i \in DOMAIN msgs : msgs[i].role = "ai"})
Pending == msgs[AnswerAt]
Sensitive == {c \in Pending.calls : c.tool \in Gated}
Safe == Pending.calls \ Sensitive

CheckApproval ==
    /\ node = "check_approval"
    /\ node' = IF Sensitive = {} THEN "tools" ELSE "await_approval"
    /\ UNCHANGED <<state, captures, throttled, turn, forced, excused, cleared, ran, captured, stops>>

(* A verdict names calls of the batch and approves some of those it names. *)
Verdicts ==
    LET some == SUBSET Ids(Sensitive)
    IN IF node = "await_approval" THEN {v \in [named : some, ok : some] : v.ok \subseteq v.named} ELSE {}

Results(calls, out) == LET c == SetToSeq(calls) IN [i \in DOMAIN c |-> ToolResult(c[i], out)]
Rejected(ok) == {c \in Sensitive : c.id \notin ok}

(* The executed message keeps its place and loses the rejected calls, for  *)
(* each of which a result without a call is appended.                      *)
PartlyApproved_WholeBatch(ok) == msgs \o Results(Rejected(ok), "rejected")
PartlyApproved(ok) ==
    LET exec == Assistant(Only(Pending.calls, ok) \cup Safe, "text")
    IN [msgs EXCEPT ![AnswerAt] = exec] \o Results(Rejected(ok), "rejected")

(* Calls a verdict says nothing of, while it approves all it names.        *)
Unnamed(v) == IF v.ok = v.named /\ v.named # {} THEN Ids(Sensitive) \ v.named ELSE {}

(* A verdict that approves every call it names lets the whole batch        *)
(* through; with none approved every call of the message is answered for.  *)
ResumeApproval(v) ==
    /\ node = "await_approval"
    /\ cleared' = v.ok \cup Unnamed(v)
    /\ \/ /\ v.ok = v.named /\ v.named # {}
          /\ node' = "tools"
          /\ UNCHANGED <<msgs, excused>>
       \/ /\ v.ok \notin {{}, v.named}
          /\ msgs' = PartlyApproved(v.ok)
          /\ node' = "tools"
          /\ UNCHANGED excused
       \/ /\ v.ok = {}
          /\ msgs' = msgs \o Results(Sensitive, "rejected") \o Results(Safe, "cancelled")
          /\ node' = "call_llm"
          /\ excused' = IF AsksWrite(Pending) THEN excused \cup {turn} ELSE excused
    /\ UNCHANGED <<steps, force, captures, throttled, turn, forced, ran, captured, stops>>

(* ToolNode: the calls of the latest assistant message; write_memory_tool  *)
(* stores, meets a conflict or raises.                                     *)
Outcome(c, write) == IF c.tool = "write" THEN write ELSE "done"
Outputs(calls, write) ==
    LET c == SetToSeq(calls) IN [i \in DOMAIN c |-> ToolResult(c[i], Outcome(c[i], write))]
Executed(calls, write) ==
    {[turn |-> turn, at |-> Len(msgs), id |-> c.id, tool |-> c.tool,
      out |-> Outcome(c, write), cleared |-> c.id \in cleared] : c \in calls}
Stores(runs) == \E r \in runs : r.out = "stored"

Tools(write) ==
    /\ node = "tools"
    /\ msgs' = msgs \o Outputs(Pending.calls, write)
    /\ ran' = ran \cup Executed(Pending.calls, write)
    /\ throttled' = (throttled \/ Stores(Executed(Pending.calls, write)))
    /\ node' = "check_conflict"
    /\ UNCHANGED <<steps, force, captures, turn, forced, excused, cleared, captured, stops>>

(* The latest write of the turn, if any. *)
LastWrite == Latest(TurnWrites(msgs))

CheckConflict ==
    /\ node = "check_conflict"
    /\ node' = IF TurnWrites(msgs) # {} /\ msgs[LastWrite].out = "conflict" THEN "await_conflict" ELSE "call_llm"
    /\ UNCHANGED <<state, captures, throttled, turn, forced, excused, cleared, ran, captured, stops>>

ResumeConflict ==
    /\ node = "await_conflict"
    /\ node' = "resolving"
    /\ UNCHANGED <<state, captures, throttled, turn, forced, excused, cleared, ran, captured, stops>>

(* The note says resolved whether or not resolve_conflict raised (lost).   *)
ConflictResolved(resolution) ==
    /\ node = "resolving"
    /\ msgs' = [msgs EXCEPT ![LastWrite].out = "resolved"]
    /\ ran' = ran \cup {[turn |-> turn, at |-> Len(msgs), id |-> msgs[LastWrite].call,
                         tool |-> "write", out |-> resolution, cleared |-> FALSE]}
    /\ node' = "call_llm"
    /\ UNCHANGED <<steps, force, captures, throttled, turn, forced, excused, cleared, captured, stops>>

(* The latest message is the answer unless the turn holds a verdict; a     *)
(* synthesised answer carries the stub's mark whether or not it failed.    *)
Reusable ==
    /\ Newest(msgs).role = "ai" /\ Newest(msgs).calls = NoCalls /\ Newest(msgs).out # "blank"
    /\ ~ApprovalNotice(msgs)

GenerateFinal ==
    /\ node = "generate_final"
    /\ msgs' = IF Reusable THEN msgs ELSE Append(msgs, Assistant(NoCalls, "stub"))
    /\ captures' = captures \cup {[turn |-> turn, settled |-> WriteSettled(msgs), pc |-> "queued"]}
    /\ node' = "idle"
    /\ UNCHANGED <<steps, force, throttled, turn, forced, excused, cleared, ran, captured, stops>>

-----------------------------------------------------------------------------
(* Auto-memory: a task per turn with the messages of the turn's end.       *)

Capturing == {c \in captures : c.pc = "extract"}

StartCapture(c) ==
    /\ c.pc = "queued" /\ Cardinality(Capturing) < CaptureSlots
    /\ captures' = (captures \ {c}) \cup
            (IF c.settled \/ throttled THEN {} ELSE {[c EXCEPT !.pc = "extract"]})
    /\ UNCHANGED <<state, node, throttled, turn, forced, excused, cleared, ran, captured, stops>>

(* The task leaves the semaphore and the set however it ends. *)
Released_Never(c) == captures
Released(c) == captures \ {c}

(* The gate or the extraction turned it down or failed; a result of        *)
(* write_memory, a conflict that stored nothing too, throttles the thread. *)
EndCapture(c, out) ==
    /\ c.pc = "extract"
    /\ captures' = Released(c)
    /\ throttled' = (throttled \/ out # "dropped")
    /\ captured' = IF out = "stored" THEN captured \cup {c.turn} ELSE captured
    /\ UNCHANGED <<state, node, turn, forced, excused, cleared, ran, stops>>

IntervalOver ==
    /\ throttled
    /\ throttled' = FALSE
    /\ UNCHANGED <<state, node, captures, turn, forced, excused, cleared, ran, captured, stops>>

-----------------------------------------------------------------------------
(* The run is cancelled inside a node by AGENT_TIMEOUT or a gone client:   *)
(* the node's update is lost, not what its tools did, and the thread is    *)
(* marked as interrupted.                                                  *)
RunCancelled(done) ==
    /\ node \in Nodes /\ stops < MaxStops
    /\ ran' = ran \cup done
    /\ throttled' = (throttled \/ Stores(done))
    /\ msgs' = Append(msgs, System("marker"))
    /\ node' = "idle"
    /\ excused' = excused \cup {turn}
    /\ stops' = stops + 1
    /\ UNCHANGED <<steps, force, captures, turn, forced, cleared, captured>>

(* The process dies: the checkpoint survives unmarked, the tasks and the   *)
(* throttle table do not.                                                  *)
Crash(done) ==
    /\ stops < MaxStops
    /\ ran' = ran \cup done
    /\ node' = IF node \in Nodes THEN "idle" ELSE node
    /\ excused' = IF node \in Nodes THEN excused \cup {turn} ELSE excused
    /\ captures' = {} /\ throttled' = FALSE
    /\ stops' = stops + 1
    /\ UNCHANGED <<state, turn, forced, cleared, captured>>

(* The tool calls a cancelled ToolNode may have finished. *)
InFlight == IF node = "tools" THEN Executed(Pending.calls, "stored") ELSE {}

NodeStep ==
    \/ \E answer \in Answers : CallLLM(answer)
    \/ CallLLMFails
    \/ CheckApproval
    \/ \E write \in {"stored", "conflict", "error"} : Tools(write)
    \/ CheckConflict
    \/ \E resolution \in {"settled", "lost"} : ConflictResolved(resolution)
    \/ GenerateFinal

CaptureStep ==
    \E c \in captures : StartCapture(c) \/ \E out \in {"stored", "conflict", "dropped"} : EndCapture(c, out)

Next ==
    \/ \E f \in BOOLEAN : NewMessage(f)
    \/ NodeStep
    \/ \E v \in Verdicts : ResumeApproval(v)
    \/ ResumeConflict
    \/ CaptureStep
    \/ IntervalOver
    \/ \E done \in SUBSET InFlight : RunCancelled(done)
    \/ \E done \in SUBSET InFlight : Crash(done)

Spec == Init /\ [][Next]_vars
FairSpec == Spec /\ WF_vars(NodeStep) /\ WF_vars(CaptureStep)

-----------------------------------------------------------------------------
ForcedIdsRepeat ==
    \E i, j \in DOMAIN msgs : i < j /\ \E id \in Ids(msgs[i].calls) \cap Ids(msgs[j].calls) : id[1] = 0

Marked == SystemsOf(msgs) # <<>>

AnswersThisTurn == {i \in ThisTurn(msgs) : msgs[i].role = "ai" /\ ~IsErrorStub(msgs[i])}

ToolsUntilLimit == Newest(msgs).calls # NoCalls => Cardinality(AnswersThisTurn) = MaxSteps

CallWellFormed(budget, summarised) ==
    LET d == Request(msgs, budget, summarised)
    IN WellFormed(d) /\ (~Marked => Accepted(ToAnthropic(Split(d))))

SynthesisSeesTurn(budget, summarised) ==
    TailBudget(budget) >= Cardinality(ThisTurn(msgs)) =>
        LET prompt == FinalPrompt(msgs, budget, summarised)
        IN /\ {m \in {msgs[i] : i \in ThisTurn(msgs)} : m.role = "tool"} \subseteq ToSet(prompt.context)
           /\ Human \in ToSet(prompt.history)

(* Whatever the budget cuts and whether or not a summary was made, the     *)
(* request of call_llm answers every tool call it carries, for an          *)
(* OpenAI-compatible provider and, unless the thread carries the marker of *)
(* a cancelled run, for Anthropic: no interrupted, rejected, partly        *)
(* approved or cut-off call makes the provider refuse the thread, unless   *)
(* two forced writes of the thread share their id.  And the answer is      *)
(* written from the question and every tool result of its turn, if the     *)
(* budget holds them after the summary took its share; calls are left      *)
(* open for it only at the step limit of this very turn.                   *)
RequestAccepted ==
    LET Under(request(_, _)) == \A budget \in 1..Len(msgs), summarised \in BOOLEAN : request(budget, summarised)
    IN /\ node = "call_llm" /\ ~ForcedIdsRepeat => Under(CallWellFormed)
       /\ node = "generate_final" => ToolsUntilLimit /\ Under(SynthesisSeesTurn)

(* A gated tool only ever ran on a call that a human approved, or that was *)
(* left unnamed by a verdict approving all it named (the resume path then  *)
(* lets the whole batch through); never on one a verdict rejected or left  *)
(* out beside a rejection, nor without a verdict on its own answer,        *)
(* whatever loops, timeouts and new messages came between.                 *)
OnlyApprovedRan == \A r \in ran : r.tool \in Gated => r.cleared

Writes(t) == {r \in ran : r.turn = t /\ r.tool = "write" /\ r.out \in {"stored", "conflict", "error"}}
TurnOver(t) == t < turn \/ node = "idle"

(* A ticked checkbox makes exactly one write of its own turn and of no     *)
(* other, unless the run failed, was cancelled, or a verdict (or none) on  *)
(* another call of the same answer took the write with it; or the answer   *)
(* that asks for the write is the only step a run may take.                *)
ForcedHandled ==
    \A t \in 1..turn :
        /\ Cardinality(Writes(t)) <= (IF t \in forced THEN 1 ELSE 0)
        /\ t \in forced \ excused /\ TurnOver(t) /\ MaxSteps > 1 => Writes(t) # {}

(* Auto-memory never stores a turn again that its own write stored, nor    *)
(* one the user chose to discard, and stands down only for such a turn;    *)
(* a resolution that failed counts as settled (lost).                      *)
CaptureComplements ==
    /\ \A t \in captured : ~\E r \in ran : r.turn = t /\ r.out \in {"stored", "settled"}
    /\ \A c \in captures : c.settled =>
            \E r \in ran : r.turn = c.turn /\ r.out \in {"stored", "settled", "lost"}

(* When a turn has run its course, the client sees an answer to it, hears  *)
(* that its message was stored exactly when it was, and finds what the     *)
(* tools of this turn did, the gated ones too, whatever was rejected,      *)
(* cancelled or left unanswered in the turns before: in the transcript     *)
(* under this answer and with nothing of another turn, in the live reply   *)
(* too, which lists the tools of earlier turns with them.                  *)
ReplyFaithful ==
    node = "idle" /\ turn \notin excused /\ turn > 0 =>
        LET shown == Newest(Displayed(msgs))
            thisTurn == Extracted(msgs, ThisTurn(msgs), {})
        IN /\ Plain(msgs[shown]) /\ msgs[shown].out # "blank" /\ shown \in ThisTurn(msgs)
           /\ WriteReported(msgs) = "stored" <=> \E r \in Writes(turn) : r.out = "stored"
           /\ {r.id : r \in {x \in ran : x.turn = turn /\ x.tool \notin NotTraces}}
                \subseteq Panel(msgs, shown, NotTraces)
           /\ \A hidden \in {NotTraces, NotSources} :
                Panel(msgs, shown, hidden) = thisTurn \cap LivePanel(msgs, hidden)

(* Once the user stops writing the thread comes to rest: the run ends with *)
(* an answer or waits for a human, and no capture task keeps its slot.     *)
ComesToRest ==
    (node \in Nodes \/ captures # {}) ~> (node \notin Nodes /\ captures = {})

=============================================================================
