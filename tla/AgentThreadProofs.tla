-------------------------- MODULE AgentThreadProofs --------------------------
(***************************************************************************)
(* TLAPS proofs about AgentThread, for any answers of the model, step      *)
(* limit, gated tools, messages, timeouts and crashes.                     *)
(***************************************************************************)
EXTENDS AgentThread, CollectionsProofs, SequenceTheorems

ToolNames == {"-", "write"} \cup UNION {Range(a.tools) : a \in Answers}

Outs == {"text", "blank", "stub", "persona", "marker", "summary", "rejected",
         "cancelled", "stored", "conflict", "error", "done", "resolved"}

CallId == Nat \X Nat

Call == [id : CallId, tool : ToolNames]

Msg == [role : {"human", "system", "ai", "tool"}, calls : SUBSET Call, call : CallId,
        tool : ToolNames, out : Outs]

Execution == [turn : Nat, at : Nat, id : CallId, tool : ToolNames,
              out : Outs \cup {"settled", "lost"}, cleared : BOOLEAN]

Capture == [turn : Nat, settled : BOOLEAN, pc : {"queued", "extract"}]

(* Only the model asks for calls, and for finitely many at a time.         *)
WellCalled(m) == IsFiniteSet(m.calls) /\ (m.role # "ai" => m.calls = {})

(* The conversation, its position and the histories have their types.      *)
AgentTypeOK ==
    /\ msgs \in Seq(Msg) /\ \A i \in DOMAIN msgs : WellCalled(msgs[i])
    /\ steps \in Nat /\ force \in BOOLEAN
    /\ node \in Waiting \cup Nodes
    /\ captures \subseteq Capture /\ throttled \in BOOLEAN
    /\ turn \in Nat /\ stops \in Nat
    /\ forced \subseteq Nat /\ excused \subseteq Nat /\ captured \subseteq Nat
    /\ cleared \subseteq CallId /\ ran \subseteq Execution

(* Nothing is dated later than the latest user message.                    *)
Dated == /\ \A r \in ran : r.turn <= turn
         /\ \A t \in forced : t <= turn

InBatch == node \in {"check_approval", "await_approval", "tools"}

(* While its calls are judged and run, the pending answer is the latest;   *)
(* one of its calls at most is a write; what runs has been let through.    *)
BatchSound ==
    InBatch =>
        /\ AnswerAt \in DOMAIN msgs /\ Pending.role = "ai"
        /\ \A c, d \in Pending.calls : c.tool = "write" /\ d.tool = "write" => c = d
        /\ node = "tools" => \A c \in Pending.calls : c.tool \in Gated => c.id \in cleared

(* The flag is consumed by the first answer of its turn, and the write it  *)
(* asks for has not run before.                                            *)
ForceSound ==
    /\ node \notin {"idle", "call_llm"} => ~force
    /\ node = "call_llm" /\ force => NewUserTurn(msgs) /\ turn \in forced /\ Writes(turn) = {}
    /\ InBatch /\ AsksWrite(Pending) => turn \in forced /\ Writes(turn) = {}

(* The run still has to make the write of its turn.                        *)
Owing == \/ (node = "call_llm" /\ force)
         \/ (InBatch /\ AsksWrite(Pending))

WritesSound ==
    /\ \A t \in 0..turn : /\ \A r, s \in Writes(t) : r = s
                          /\ Writes(t) # {} => t \in forced
    /\ MaxSteps > 1 => \A t \in forced \ excused : Writes(t) # {} \/ (t = turn /\ Owing)

(* A human is asked about a conflict that the turn's latest write met.     *)
ConflictSound ==
    node \in {"await_conflict", "resolving"} =>
        LastWrite \in TurnWrites(msgs) /\ msgs[LastWrite].out = "conflict"

Settling(m) == IsWrite(m) /\ m.out \in {"stored", "resolved"}

Happened(t, outs) == \E r \in ran : r.turn = t /\ r.out \in outs

(* What the messages of the turn say of its write, while it runs, is what  *)
(* was executed.                                                           *)
SettledSound ==
    /\ WriteSettled(msgs) => Happened(turn, {"stored", "settled", "lost"})
    /\ node # "idle" /\ Happened(turn, {"stored", "settled"}) => WriteSettled(msgs)

(* A turn is handed to auto-memory when nothing of it can run any more.    *)
Over(t) == t <= turn /\ (t = turn => node = "idle")

CapturesSound ==
    /\ \A c \in captures :
          /\ Over(c.turn)
          /\ c.pc = "extract" => ~c.settled
          /\ IF c.settled THEN Happened(c.turn, {"stored", "settled", "lost"})
                          ELSE ~Happened(c.turn, {"stored", "settled"})
    /\ \A t \in captured : Over(t) /\ ~Happened(t, {"stored", "settled"})

AInv == /\ AgentTypeOK /\ Dated /\ BatchSound /\ OnlyApprovedRan /\ ForceSound
        /\ WritesSound /\ ConflictSound /\ SettledSound /\ CapturesSound
-----------------------------------------------------------------------------
(* The elements of a finite set in some order.                             *)
LEMMA Listed ==
    ASSUME NEW S, IsFiniteSet(S)
    PROVE  /\ Cardinality(S) \in Nat
           /\ SetToSeq(S) \in [1..Cardinality(S) -> S]
           /\ \A c \in S : \E i \in 1..Cardinality(S) : SetToSeq(S)[i] = c
           /\ \A i, j \in 1..Cardinality(S) : SetToSeq(S)[i] = SetToSeq(S)[j] => i = j
<1> DEFINE n == Cardinality(S)
           f == SetToSeq(S)
<1>1. n \in Nat /\ ExistsBijection(1..n, S)
  BY FS_CardinalityType
<1>2. PICK g \in Bijection(1..n, S) : TRUE
  BY <1>1, Zenon DEF ExistsBijection
<1>3. g \in [1..n -> S] /\ IsInjective(g)
  BY <1>2 DEF Bijection, Injection
<1>4. f \in [1..n -> S] /\ IsInjective(f)
  BY <1>3, Zenon DEF SetToSeq
<1>5. f \in Injection(1..n, S)
  BY <1>4 DEF Injection
<1>6. IsFiniteSet(1..n) /\ Cardinality(1..n) = n
  BY <1>1, FS_Interval
<1> HIDE DEF n, f
<1>7. f \in Surjection(1..n, S)
  BY <1>5, <1>6, FS_Injection DEF n
<1>8. \A c \in S : \E i \in 1..n : f[i] = c
  BY <1>7 DEF Surjection
<1>9. \A i, j \in 1..n : f[i] = f[j] => i = j
  BY <1>4 DEF IsInjective
<1>10. QED BY <1>1, <1>4, <1>8, <1>9 DEF n, f

(* The latest of some places is one of them, and no other.                 *)
LEMMA LatestAmong ==
    ASSUME NEW n \in Nat, NEW S, S \subseteq 1..n, S # {}
    PROVE  Latest(S) \in S /\ \A j \in S : j <= Latest(S)
<1> DEFINE T == {n - i : i \in S}
<1>1. \A k \in T : k \in Nat
  OBVIOUS
<1>2. T \subseteq Nat /\ T # {}
  BY <1>1
<1> HIDE DEF T
<1>3. PICK m \in T : \A k \in T : ~(<<k, m>> \in OpToRel(<, Nat))
  BY <1>2, NatLessThanWellFounded, WFMin
<1>4. \A k \in T : m <= k
  <2>1. \A k \in T : ~(k < m) /\ k \in Nat /\ m \in Nat
    BY <1>2, <1>3, LessInRelation
  <2>2. QED BY <2>1
<1>5. PICK i \in S : m = n - i
  BY DEF T
<1>6. ASSUME NEW j \in S PROVE j <= i
  <2>1. n - j \in T
    BY DEF T
  <2>2. n - i <= n - j /\ i \in 1..n /\ j \in 1..n
    BY <1>4, <1>5, <2>1
  <2>3. QED BY <2>2
<1>7. \E k \in S : \A j \in S : j <= k
  BY <1>6
<1>8. QED BY <1>7, Zenon DEF Latest

LEMMA LatestIs ==
    ASSUME NEW n \in Nat, NEW S, S \subseteq 1..n, NEW k \in S, \A j \in S : j <= k
    PROVE  Latest(S) = k
<1>1. Latest(S) \in S /\ k <= Latest(S)
  BY LatestAmong
<1>2. Latest(S) <= k /\ Latest(S) \in 1..n /\ k \in 1..n
  BY <1>1
<1>3. QED BY <1>1, <1>2
-----------------------------------------------------------------------------
(* Conversations. *)
LEMMA NoCallIs == NoCall \in CallId /\ NoCall = <<0, 0>>
BY DEF NoCall, CallId

Grows(s, t) ==
    /\ Len(s) <= Len(t)
    /\ \A i \in 1..Len(s) : t[i].role = s[i].role
    /\ \A i \in (Len(s) + 1)..Len(t) : t[i].role # "human"

(* Until the next user message the turn only gets longer.                  *)
LEMMA TurnGrows ==
    ASSUME NEW s \in Seq(Msg), NEW t \in Seq(Msg), Grows(s, t)
    PROVE  ThisTurn(t) = ThisTurn(s) \cup ((Len(s) + 1)..Len(t))
<1>1. /\ Len(s) \in Nat /\ Len(t) \in Nat
      /\ DOMAIN s = 1..Len(s) /\ DOMAIN t = 1..Len(t)
  OBVIOUS
<1>2. ASSUME NEW i \in 1..Len(s)
      PROVE  i \in ThisTurn(t) <=> i \in ThisTurn(s)
  <2>1. \A j \in (i + 1)..Len(t) : t[j].role = "human" => j \in 1..Len(s)
    BY <1>1 DEF Grows
  <2>2. QED BY <1>1, <2>1 DEF ThisTurn, Grows
<1>3. ASSUME NEW i \in (Len(s) + 1)..Len(t)
      PROVE  i \in ThisTurn(t)
  BY <1>1 DEF ThisTurn, Grows
<1>4. ThisTurn(s) \subseteq 1..Len(s) /\ ThisTurn(t) \subseteq 1..Len(t)
  BY <1>1 DEF ThisTurn
<1>5. QED BY <1>1, <1>2, <1>3, <1>4 DEF Grows

LEMMA TurnBegins ==
    ASSUME NEW s \in Seq(Msg)
    PROVE  /\ Human \in Msg /\ WellCalled(Human)
           /\ ThisTurn(Append(s, Human)) = {Len(s) + 1}
           /\ NewUserTurn(Append(s, Human))
<1>1. Human \in Msg /\ Human.role = "human" /\ Human.calls = {}
  <2>1. Human = [role |-> "human", calls |-> {}, call |-> NoCall, tool |-> "-", out |-> "text"]
    BY DEF Human, Message, NoCalls
  <2>2. QED BY <2>1, NoCallIs DEF Msg, ToolNames, Outs
<1>2. /\ Append(s, Human) \in Seq(Msg) /\ Len(Append(s, Human)) = Len(s) + 1
      /\ Append(s, Human)[Len(s) + 1] = Human
  BY <1>1
<1> DEFINE t == Append(s, Human)
<1> HIDE DEF t
<1>3. ThisTurn(t) = {Len(s) + 1}
  BY <1>1, <1>2 DEF ThisTurn, t
<1>4. NewUserTurn(t)
  BY <1>1, <1>2 DEF NewUserTurn, Newest, t
<1>5. QED BY <1>1, <1>3, <1>4, FS_EmptySet DEF t, WellCalled

(* A conversation and what is appended to it.                              *)
LEMMA Appended ==
    ASSUME NEW s \in Seq(Msg), NEW tail \in Seq(Msg),
           \A i \in DOMAIN tail : tail[i].role # "human"
    PROVE  /\ s \o tail \in Seq(Msg) /\ Grows(s, s \o tail)
           /\ Len(s \o tail) = Len(s) + Len(tail)
           /\ \A i \in 1..Len(s) : (s \o tail)[i] = s[i]
           /\ \A i \in DOMAIN tail : (s \o tail)[Len(s) + i] = tail[i]
           /\ \A i \in (Len(s) + 1)..Len(s \o tail) : \E j \in DOMAIN tail : (s \o tail)[i] = tail[j]
<1>1. /\ s \o tail \in Seq(Msg) /\ Len(s \o tail) = Len(s) + Len(tail)
      /\ \A i \in 1..Len(s) : (s \o tail)[i] = s[i]
      /\ \A i \in 1..Len(tail) : (s \o tail)[Len(s) + i] = tail[i]
      /\ Len(s) \in Nat /\ Len(tail) \in Nat
      /\ DOMAIN tail = 1..Len(tail)
  OBVIOUS
<1>2. ASSUME NEW i \in (Len(s) + 1)..Len(s \o tail)
      PROVE  \E j \in DOMAIN tail : (s \o tail)[i] = tail[j]
  <2>1. i - Len(s) \in 1..Len(tail) /\ Len(s) + (i - Len(s)) = i
    BY <1>1
  <2>2. QED BY <1>1, <2>1
<1> DEFINE t == s \o tail
<1> HIDE DEF t
<1>3. Grows(s, t)
  BY <1>1, <1>2 DEF Grows, t
<1>4. QED BY <1>1, <1>2, <1>3 DEF t

(* Results are messages of tools.                                          *)
LEMMA ResultsAre ==
    ASSUME NEW S \in SUBSET Call, IsFiniteSet(S), NEW out \in Outs
    PROVE  /\ Results(S, out) \in Seq(Msg)
           /\ \A i \in DOMAIN Results(S, out) :
                /\ Results(S, out)[i].role = "tool" /\ Results(S, out)[i].out = out
                /\ WellCalled(Results(S, out)[i])
<1> DEFINE n == Cardinality(S)
           c == SetToSeq(S)
<1>1. n \in Nat /\ c \in [1..n -> S]
  BY Listed
<1> HIDE DEF n, c
<1>2. Results(S, out) = [i \in 1..n |-> ToolResult(c[i], out)]
  BY <1>1 DEF Results, c
<1>3. \A i \in 1..n : c[i] \in Call
  BY <1>1
<1>4. \A i \in 1..n : /\ ToolResult(c[i], out) \in Msg
                      /\ ToolResult(c[i], out).role = "tool"
                      /\ ToolResult(c[i], out).out = out
                      /\ ToolResult(c[i], out).calls = {}
  BY <1>3 DEF ToolResult, Message, NoCalls, Msg, Call
<1> DEFINE r == Results(S, out)
<1> HIDE DEF r
<1>5. /\ r \in Seq(Msg) /\ DOMAIN r = 1..n
      /\ \A i \in 1..n : r[i] = ToolResult(c[i], out)
  BY <1>1, <1>2, <1>4 DEF r
<1>6. \A m : m.role = "tool" /\ m.calls = {} => WellCalled(m)
  BY FS_EmptySet DEF WellCalled
<1>7. \A i \in DOMAIN r : r[i].role = "tool" /\ r[i].out = out /\ WellCalled(r[i])
  BY ONLY <1>4, <1>5, <1>6
<1>8. QED BY <1>5, <1>7 DEF r

LEMMA OutputsAre ==
    ASSUME NEW S \in SUBSET Call, IsFiniteSet(S), NEW write \in Outs
    PROVE  /\ Outputs(S, write) \in Seq(Msg)
           /\ \A i \in DOMAIN Outputs(S, write) :
                /\ Outputs(S, write)[i].role = "tool" /\ WellCalled(Outputs(S, write)[i])
                /\ \E d \in S : Outputs(S, write)[i] = ToolResult(d, Outcome(d, write))
           /\ \A d \in S : \E i \in DOMAIN Outputs(S, write) :
                Outputs(S, write)[i] = ToolResult(d, Outcome(d, write))
<1> DEFINE n == Cardinality(S)
           c == SetToSeq(S)
<1>1. n \in Nat /\ c \in [1..n -> S] /\ \A d \in S : \E i \in 1..n : c[i] = d
  BY Listed
<1> HIDE DEF n, c
<1>2. Outputs(S, write) = [i \in 1..n |-> ToolResult(c[i], Outcome(c[i], write))]
  BY <1>1 DEF Outputs, c
<1>3. \A i \in 1..n : c[i] \in S /\ c[i] \in Call /\ Outcome(c[i], write) \in Outs
  BY <1>1 DEF Outcome, Outs
<1>4. \A i \in 1..n : /\ ToolResult(c[i], Outcome(c[i], write)) \in Msg
                      /\ ToolResult(c[i], Outcome(c[i], write)).role = "tool"
                      /\ ToolResult(c[i], Outcome(c[i], write)).calls = {}
  BY <1>3 DEF ToolResult, Message, NoCalls, Msg, Call
<1> DEFINE o == Outputs(S, write)
<1> HIDE DEF o
<1>5. o = [i \in 1..n |-> ToolResult(c[i], Outcome(c[i], write))]
  BY <1>2 DEF o
<1>6. /\ o \in Seq(Msg) /\ DOMAIN o = 1..n
      /\ \A i \in 1..n : o[i] = ToolResult(c[i], Outcome(c[i], write))
  BY <1>1, <1>4, <1>5
<1>7. \A i \in DOMAIN o : o[i].role = "tool" /\ WellCalled(o[i])
  BY <1>4, <1>6, FS_EmptySet DEF WellCalled
<1>8. \A i \in DOMAIN o : \E d \in S : o[i] = ToolResult(d, Outcome(d, write))
  BY <1>3, <1>6
<1>9. \A d \in S : \E i \in DOMAIN o : o[i] = ToolResult(d, Outcome(d, write))
  BY <1>1, <1>6
<1>10. QED BY <1>6, <1>7, <1>8, <1>9 DEF o

(* An answer is a message of the model, and no result.                     *)
LEMMA AssistantIs ==
    ASSUME NEW calls \in SUBSET Call, IsFiniteSet(calls), NEW out \in Outs
    PROVE  /\ Assistant(calls, out) \in Msg
           /\ Assistant(calls, out).role = "ai" /\ Assistant(calls, out).calls = calls
           /\ WellCalled(Assistant(calls, out)) /\ ~Settling(Assistant(calls, out))
<1> DEFINE m == Assistant(calls, out)
<1>1. m = [role |-> "ai", calls |-> calls, call |-> NoCall, tool |-> "-", out |-> out]
  BY DEF Assistant, Message
<1> HIDE DEF m
<1>2. "-" \in ToolNames
  BY DEF ToolNames
<1>3. m \in Msg
  BY <1>1, <1>2, NoCallIs DEF Msg
<1>4. m.role = "ai" /\ m.calls = calls
  BY <1>1
<1>5. WellCalled(m) /\ ~Settling(m)
  BY <1>4 DEF WellCalled, Settling, IsWrite
<1>6. QED BY <1>3, <1>4, <1>5 DEF m
-----------------------------------------------------------------------------
(* What a step leaves alone.                                               *)
LEMMA SameTalk ==
    ASSUME msgs' = msgs
    PROVE  /\ AnswerAt' = AnswerAt /\ Pending' = Pending /\ LastWrite' = LastWrite
           /\ AsksWrite(Pending)' = AsksWrite(Pending)
BY DEF AnswerAt, Pending, LastWrite, AsksWrite

LEMMA SameRuns ==
    ASSUME ran' = ran
    PROVE  /\ \A t : Writes(t)' = Writes(t)
           /\ \A t, outs : Happened(t, outs)' = Happened(t, outs)
BY DEF Writes, Happened

(* The pending answer stays in its place until the next one.               *)
LEMMA AnswerKept ==
    ASSUME AgentTypeOK, msgs' \in Seq(Msg), Grows(msgs, msgs'),
           \A i \in (Len(msgs) + 1)..Len(msgs') : msgs'[i].role # "ai"
    PROVE  AnswerAt' = AnswerAt
<1> DEFINE ai == {i \in DOMAIN msgs : msgs[i].role = "ai"}
<1>1. msgs \in Seq(Msg) /\ Len(msgs) \in Nat /\ Len(msgs') \in Nat
  BY DEF AgentTypeOK
<1>2. {i \in DOMAIN msgs' : msgs'[i].role = "ai"} = ai
  BY <1>1 DEF Grows
<1>3. QED BY <1>2 DEF AnswerAt

LEMMA AnswerIsNew ==
    ASSUME AgentTypeOK, NEW m \in Msg, m.role = "ai", msgs' = Append(msgs, m)
    PROVE  AnswerAt' = Len(msgs) + 1 /\ Pending' = m
<1> DEFINE ai == {i \in DOMAIN msgs' : msgs'[i].role = "ai"}
<1>1. msgs \in Seq(Msg) /\ Len(msgs) \in Nat
  BY DEF AgentTypeOK
<1>2. /\ msgs' \in Seq(Msg) /\ Len(msgs') = Len(msgs) + 1 /\ msgs'[Len(msgs) + 1] = m
      /\ DOMAIN msgs' = 1..(Len(msgs) + 1)
  BY <1>1
<1>3. /\ ai \subseteq 1..(Len(msgs) + 1) /\ Len(msgs) + 1 \in ai
      /\ \A j \in ai : j <= Len(msgs) + 1
  BY <1>1, <1>2
<1>4. Latest(ai) = Len(msgs) + 1
  <2> DEFINE n == Len(msgs) + 1
  <2>1. n \in Nat /\ ai \subseteq 1..n /\ n \in ai /\ \A j \in ai : j <= n
    BY <1>1, <1>3
  <2> HIDE DEF ai, n
  <2>2. Latest(ai) = n
    BY ONLY <2>1, LatestIs
  <2>3. QED BY <2>2 DEF n
<1>5. AnswerAt' = Len(msgs) + 1
  BY <1>4 DEF AnswerAt
<1>6. QED BY <1>2, <1>5 DEF Pending

(* Messages that settle no write leave the turn's account as it was.       *)
LEMMA SettledKept ==
    ASSUME NEW s \in Seq(Msg), NEW t \in Seq(Msg), Grows(s, t),
           \A i \in 1..Len(s) : Settling(t[i]) <=> Settling(s[i]),
           \A i \in (Len(s) + 1)..Len(t) : ~Settling(t[i])
    PROVE  WriteSettled(t) <=> WriteSettled(s)
<1>1. Len(s) \in Nat /\ Len(t) \in Nat /\ ThisTurn(s) \subseteq 1..Len(s)
  BY DEF ThisTurn
<1>2. ThisTurn(t) = ThisTurn(s) \cup ((Len(s) + 1)..Len(t))
  BY TurnGrows
<1>3. /\ WriteSettled(s) <=> \E i \in ThisTurn(s) : Settling(s[i])
      /\ WriteSettled(t) <=> \E i \in ThisTurn(t) : Settling(t[i])
  BY DEF WriteSettled, Settling
<1>4. QED BY <1>1, <1>2, <1>3

(* One message of another kind is appended.                                *)
LEMMA OneMore ==
    ASSUME AgentTypeOK, NEW m \in Msg, WellCalled(m), m.role # "human", ~Settling(m),
           msgs' = Append(msgs, m)
    PROVE  /\ msgs' \in Seq(Msg) /\ \A i \in DOMAIN msgs' : WellCalled(msgs'[i])
           /\ Grows(msgs, msgs')
           /\ WriteSettled(msgs') <=> WriteSettled(msgs)
<1>1. msgs \in Seq(Msg) /\ Len(msgs) \in Nat
  BY DEF AgentTypeOK
<1>2. /\ msgs' \in Seq(Msg) /\ Len(msgs') = Len(msgs) + 1 /\ msgs'[Len(msgs) + 1] = m
      /\ \A i \in 1..Len(msgs) : msgs'[i] = msgs[i]
      /\ DOMAIN msgs' = 1..(Len(msgs) + 1) /\ DOMAIN msgs = 1..Len(msgs)
  BY <1>1
<1>3. \A i \in DOMAIN msgs' : WellCalled(msgs'[i])
  BY <1>1, <1>2 DEF AgentTypeOK
<1>4. Grows(msgs, msgs')
  BY <1>1, <1>2 DEF Grows
<1>5. \A i \in (Len(msgs) + 1)..Len(msgs') : msgs'[i] = m
  BY <1>1, <1>2
<1>6. WriteSettled(msgs') <=> WriteSettled(msgs)
  BY <1>1, <1>2, <1>4, <1>5, SettledKept
<1>7. QED BY <1>2, <1>3, <1>4, <1>6

(* The results of several calls are appended.                              *)
LEMMA ManyMore ==
    ASSUME NEW s \in Seq(Msg), \A i \in DOMAIN s : WellCalled(s[i]),
           NEW tail \in Seq(Msg),
           \A i \in DOMAIN tail : tail[i].role = "tool" /\ WellCalled(tail[i])
    PROVE  /\ s \o tail \in Seq(Msg)
           /\ \A i \in DOMAIN (s \o tail) : WellCalled((s \o tail)[i])
           /\ Grows(s, s \o tail)
           /\ \A i \in 1..Len(s) : (s \o tail)[i] = s[i]
           /\ \A i \in (Len(s) + 1)..Len(s \o tail) : (s \o tail)[i].role = "tool"
           /\ (\A i \in DOMAIN tail : ~Settling(tail[i])) =>
                    (WriteSettled(s \o tail) <=> WriteSettled(s))
<1> DEFINE t == s \o tail
<1>1. /\ t \in Seq(Msg) /\ Grows(s, t)
      /\ \A i \in 1..Len(s) : t[i] = s[i]
      /\ \A i \in (Len(s) + 1)..Len(t) : \E j \in DOMAIN tail : t[i] = tail[j]
  BY Appended
<1> HIDE DEF t
<1>2. /\ Len(s) \in Nat /\ Len(t) \in Nat /\ DOMAIN s = 1..Len(s) /\ DOMAIN t = 1..Len(t)
  BY <1>1
<1>3. \A i \in DOMAIN t : WellCalled(t[i])
  BY <1>1, <1>2
<1>4. \A i \in (Len(s) + 1)..Len(t) : t[i].role = "tool"
  BY <1>1
<1>5. ASSUME \A i \in DOMAIN tail : ~Settling(tail[i])
      PROVE  WriteSettled(t) <=> WriteSettled(s)
  <2>1. \A i \in (Len(s) + 1)..Len(t) : ~Settling(t[i])
    BY <1>1, <1>5
  <2>2. QED BY <1>1, <2>1, SettledKept
<1>6. QED BY <1>1, <1>3, <1>4, <1>5 DEF t
-----------------------------------------------------------------------------
(* The model's calls, and the one the checkbox adds.                       *)
LEMMA CallsAre ==
    ASSUME AgentTypeOK, NEW answer \in Answers
    PROVE  /\ ModelCalls(answer.tools) \in SUBSET Call
           /\ IsFiniteSet(ModelCalls(answer.tools))
           /\ \A c \in ModelCalls(answer.tools) : c.tool # "write"
           /\ ForcedCall(ModelCalls(answer.tools)) \in Call
           /\ ForcedCall(ModelCalls(answer.tools)).tool = "write"
<1> DEFINE tools == answer.tools
           asked == ModelCalls(tools)
           f == [i \in DOMAIN tools |-> [id |-> <<Len(msgs) + 1, i>>, tool |-> tools[i]]]
<1>1. Len(msgs) \in Nat
  BY DEF AgentTypeOK
<1>2. /\ Len(tools) \in Nat /\ DOMAIN tools = 1..Len(tools)
      /\ \A i \in DOMAIN tools : tools[i] # "write" /\ tools[i] \in ToolNames
  <2>1. tools \in Seq(Range(tools)) /\ "write" \notin Range(tools)
    BY AgentAssumption
  <2>2. \A i \in DOMAIN tools : tools[i] \in Range(tools)
    BY DEF Range
  <2>3. \A x \in Range(tools) : x \in ToolNames
    BY DEF ToolNames
  <2>4. QED BY <2>1, <2>2, <2>3
<1>3. asked = {f[i] : i \in DOMAIN tools}
  BY DEF ModelCalls
<1>4. \A i \in DOMAIN tools : f[i] \in Call /\ f[i].tool # "write"
  <2>1. \A i \in DOMAIN tools : <<Len(msgs) + 1, i>> \in CallId
    BY <1>1, <1>2 DEF CallId
  <2>2. QED BY <1>2, <2>1 DEF Call
<1>5. asked \subseteq Call /\ \A c \in asked : c.tool # "write"
  <2> HIDE DEF f, asked
  <2>1. QED BY <1>3, <1>4
<1>6. f \in Surjection(DOMAIN tools, asked)
  BY <1>3 DEF Surjection
<1>7. IsFiniteSet(DOMAIN tools)
  BY <1>2, NumbersFinite
<1> HIDE DEF f, asked
<1>8. IsFiniteSet(asked) /\ Cardinality(asked) \in Nat
  BY <1>6, <1>7, FS_Surjection, FS_CardinalityType
<1>9. ForcedCall(asked) \in Call /\ ForcedCall(asked).tool = "write"
  <2>1. <<0, Cardinality(asked) + 1>> \in CallId
    BY <1>8 DEF CallId
  <2>2. QED BY <2>1 DEF ForcedCall, Call, ToolNames
<1>10. QED BY <1>5, <1>8, <1>9 DEF asked

(* What the tools have done, all of it or a part.                          *)
LEMMA ExecutedAre ==
    ASSUME AInv, node = "tools", NEW write \in {"stored", "conflict", "error"},
           NEW done \in SUBSET Executed(Pending.calls, write)
    PROVE  /\ done \subseteq Execution
           /\ \A r \in done : /\ r.turn = turn
                              /\ r.tool \in Gated => r.cleared
                              /\ r.tool = "write" => AsksWrite(Pending)
                              /\ r.out \in {"stored", "settled"} =>
                                    r.tool = "write" /\ write = "stored"
           /\ \A r, s \in done : r.tool = "write" /\ s.tool = "write" => r = s
<1>1. /\ Pending.calls \subseteq Call /\ Len(msgs) \in Nat /\ turn \in Nat
      /\ \A c, d \in Pending.calls : c.tool = "write" /\ d.tool = "write" => c = d
      /\ \A c \in Pending.calls : c.tool \in Gated => c.id \in cleared
  <2>1. InBatch /\ BatchSound /\ msgs \in Seq(Msg) /\ turn \in Nat
    BY DEF AInv, AgentTypeOK, InBatch
  <2>2. AnswerAt \in DOMAIN msgs /\ Pending \in Msg
    BY <2>1 DEF BatchSound, Pending
  <2>3. Pending.calls \subseteq Call /\ Len(msgs) \in Nat
    BY <2>1, <2>2 DEF Msg
  <2>4. QED BY <2>1, <2>3 DEF BatchSound
<1>2. ASSUME NEW r \in done
      PROVE  \E c \in Pending.calls :
                r = [turn |-> turn, at |-> Len(msgs), id |-> c.id, tool |-> c.tool,
                     out |-> Outcome(c, write), cleared |-> c.id \in cleared]
  BY DEF Executed
<1>3. ASSUME NEW r \in done
      PROVE  /\ r \in Execution /\ r.turn = turn
             /\ r.tool \in Gated => r.cleared
             /\ r.tool = "write" => AsksWrite(Pending)
             /\ r.out \in {"stored", "settled"} => r.tool = "write" /\ write = "stored"
  <2>1. PICK c \in Pending.calls :
                r = [turn |-> turn, at |-> Len(msgs), id |-> c.id, tool |-> c.tool,
                     out |-> Outcome(c, write), cleared |-> c.id \in cleared]
    BY <1>2
  <2>2. c \in Call /\ Outcome(c, write) \in Outs
    BY <1>1 DEF Outcome, Outs
  <2>3. r \in Execution
    BY <1>1, <2>1, <2>2 DEF Execution, Call
  <2>4. r.tool = c.tool /\ r.out = Outcome(c, write) /\ r.turn = turn
    BY <2>1
  <2>5. r.tool \in Gated => r.cleared
    <3>1. r.cleared = (c.id \in cleared)
      BY <2>1, Zenon
    <3>2. QED BY <1>1, <2>4, <3>1
  <2>6. QED BY <2>3, <2>4, <2>5 DEF Outcome, AsksWrite
<1>4. ASSUME NEW r \in done, NEW s \in done, r.tool = "write", s.tool = "write"
      PROVE  r = s
  <2>1. PICK c \in Pending.calls :
                r = [turn |-> turn, at |-> Len(msgs), id |-> c.id, tool |-> c.tool,
                     out |-> Outcome(c, write), cleared |-> c.id \in cleared]
    BY <1>2
  <2>2. PICK d \in Pending.calls :
                s = [turn |-> turn, at |-> Len(msgs), id |-> d.id, tool |-> d.tool,
                     out |-> Outcome(d, write), cleared |-> d.id \in cleared]
    BY <1>2
  <2>3. c.tool = "write" /\ d.tool = "write"
    BY <1>4, <2>1, <2>2
  <2>4. c = d
    BY <1>1, <2>3
  <2>5. QED BY <2>1, <2>2, <2>4
<1>5. QED BY <1>3, <1>4

(* Their record stays true: of no turn but this one, and of one write.     *)
LEMMA RunsGrow ==
    ASSUME AInv, node = "tools", NEW write \in {"stored", "conflict", "error"},
           NEW done \in SUBSET Executed(Pending.calls, write),
           ran' = ran \cup done, turn' = turn
    PROVE  /\ ran' \subseteq Execution /\ \A r \in ran' : r.turn <= turn
           /\ OnlyApprovedRan'
           /\ \A t : t # turn => Writes(t)' = Writes(t)
           /\ \A t, outs : t # turn => Happened(t, outs)' = Happened(t, outs)
           /\ \A outs : Happened(turn, outs) => Happened(turn, outs)'
           /\ \A r, s \in Writes(turn)' : r = s
           /\ Writes(turn)' # {} => turn \in forced
           /\ Writes(turn) \subseteq Writes(turn)'
<1>1. /\ done \subseteq Execution
      /\ \A r \in done : /\ r.turn = turn
                         /\ r.tool \in Gated => r.cleared
                         /\ r.tool = "write" => AsksWrite(Pending)
      /\ \A r, s \in done : r.tool = "write" /\ s.tool = "write" => r = s
  BY ExecutedAre
<1>2. /\ ran \subseteq Execution /\ turn \in Nat /\ \A r \in ran : r.turn <= turn
      /\ OnlyApprovedRan /\ InBatch
  BY DEF AInv, AgentTypeOK, Dated, InBatch
<1>3. ran' \subseteq Execution /\ \A r \in ran' : r.turn <= turn
  BY <1>1, <1>2
<1>4. OnlyApprovedRan'
  BY <1>1, <1>2 DEF OnlyApprovedRan
<1>5. \A t : t # turn => Writes(t)' = Writes(t)
  BY <1>1 DEF Writes
<1>6. \A t, outs : t # turn => Happened(t, outs)' = Happened(t, outs)
  BY <1>1 DEF Happened
<1>7. \A outs : Happened(turn, outs) => Happened(turn, outs)'
  BY DEF Happened
<1>8. Writes(turn) \subseteq Writes(turn)'
  BY DEF Writes
<1>9. \A r \in Writes(turn)' : r \in Writes(turn) \/ (r \in done /\ r.tool = "write")
  BY DEF Writes
<1>10. AsksWrite(Pending) => turn \in forced /\ Writes(turn) = {}
  BY <1>2 DEF AInv, ForceSound
<1>11. /\ \A r, s \in Writes(turn) : r = s
       /\ Writes(turn) # {} => turn \in forced
  BY <1>2 DEF AInv, WritesSound
<1>12. /\ \A r, s \in Writes(turn)' : r = s
       /\ Writes(turn)' # {} => turn \in forced
  <2>1. CASE AsksWrite(Pending)
    BY <1>1, <1>9, <1>10, <2>1
  <2>2. CASE ~AsksWrite(Pending)
    BY <1>1, <1>9, <1>11, <2>2
  <2>3. QED BY <2>1, <2>2
<1>13. QED BY <1>3, <1>4, <1>5, <1>6, <1>7, <1>8, <1>12
-----------------------------------------------------------------------------
(* The parts of the invariant that most steps keep for the same reason.    *)

(* What auto-memory was handed stays over, and its account closed.         *)
LEMMA CapturesKept ==
    ASSUME AInv, turn' \in Nat, turn <= turn',
           captures' \subseteq captures, captured' = captured,
           node = "idle" => node' = "idle" \/ turn < turn',
           \A t, outs : (t # turn \/ node = "idle") => Happened(t, outs)' = Happened(t, outs)
    PROVE  CapturesSound'
<1>1. turn \in Nat /\ captures \subseteq Capture /\ captured \subseteq Nat /\ CapturesSound
  BY DEF AInv, AgentTypeOK
<1>2. ASSUME NEW t \in Nat, Over(t)
      PROVE  Over(t)' /\ \A outs : Happened(t, outs)' = Happened(t, outs)
  BY <1>1, <1>2 DEF Over
<1>3. \A c \in captures : c.turn \in Nat
  BY <1>1 DEF Capture
<1>4. QED BY <1>1, <1>2, <1>3 DEF CapturesSound

(* The writes stay what they were, and the one that is owed is still to    *)
(* come or is excused.                                                     *)
LEMMA WritesKept ==
    ASSUME AInv, turn' = turn, forced' = forced, excused \subseteq excused',
           \A t : Writes(t)' = Writes(t),
           MaxSteps > 1 /\ Owing => Owing' \/ turn \in excused'
    PROVE  WritesSound'
<1>1. WritesSound
  BY DEF AInv
<1>2. \A t \in 0..turn' : /\ \A r, s \in Writes(t)' : r = s
                          /\ Writes(t)' # {} => t \in forced'
  BY <1>1 DEF WritesSound
<1>3. ASSUME MaxSteps > 1, NEW t \in forced' \ excused'
      PROVE  Writes(t)' # {} \/ (t = turn' /\ Owing')
  BY <1>1, <1>3 DEF WritesSound
<1>4. QED BY <1>2, <1>3 DEF WritesSound

(* A step of the driver or of a task that touches no history.              *)
LEMMA QuietHistories ==
    ASSUME AInv, UNCHANGED <<turn, forced, ran>>
    PROVE  Dated' /\ OnlyApprovedRan'
BY DEF AInv, Dated, OnlyApprovedRan

(* What a ToolNode cut short has done is a part of what it would do.       *)
LEMMA InFlightGrow ==
    ASSUME AInv, NEW done \in SUBSET InFlight, ran' = ran \cup done, turn' = turn
    PROVE  /\ ran' \subseteq Execution /\ \A r \in ran' : r.turn <= turn
           /\ OnlyApprovedRan'
           /\ \A t : t # turn => Writes(t)' = Writes(t)
           /\ \A t, outs : (t # turn \/ node = "idle") => Happened(t, outs)' = Happened(t, outs)
           /\ \A outs : Happened(turn, outs) => Happened(turn, outs)'
           /\ \A r, s \in Writes(turn)' : r = s
           /\ Writes(turn)' # {} => turn \in forced
           /\ Writes(turn) \subseteq Writes(turn)'
           /\ node # "tools" => ran' = ran
<1>1. CASE node = "tools"
  <2>1. done \in SUBSET Executed(Pending.calls, "stored") /\ node # "idle"
    BY <1>1 DEF InFlight
  <2>2. QED BY <1>1, <2>1, RunsGrow
<1>2. CASE node # "tools"
  <2>1. ran' = ran
    BY <1>2 DEF InFlight
  <2>2. /\ ran \subseteq Execution /\ turn \in 0..turn /\ \A r \in ran : r.turn <= turn
        /\ OnlyApprovedRan /\ WritesSound
    BY DEF AInv, AgentTypeOK, Dated
  <2>3. /\ \A t : Writes(t)' = Writes(t)
        /\ \A t, outs : Happened(t, outs)' = Happened(t, outs)
    BY <2>1, SameRuns
  <2>4. Writes(turn)' = Writes(turn) /\ \A outs : Happened(turn, outs)' = Happened(turn, outs)
    BY <2>1 DEF Writes, Happened
  <2>5. /\ \A r, s \in Writes(turn) : r = s
        /\ Writes(turn) # {} => turn \in forced
    BY <2>2 DEF WritesSound
  <2>6. OnlyApprovedRan'
    BY <2>1, <2>2 DEF OnlyApprovedRan
  <2>7. QED BY <2>1, <2>2, <2>3, <2>4, <2>5, <2>6
<1>3. QED BY <1>1, <1>2
-----------------------------------------------------------------------------
(* Each step keeps the invariant.                                          *)

LEMMA InitSound == Init => AInv
<1> SUFFICES ASSUME Init PROVE AInv
  OBVIOUS
<1>1. msgs \in Seq(Msg) /\ DOMAIN msgs = {} /\ ran = {} /\ forced = {} /\ turn = 0
  BY DEF Init
<1>2. AgentTypeOK
  <2>1. /\ steps = 0 /\ force = FALSE /\ node \in Waiting /\ captures = {} /\ throttled = FALSE
        /\ stops = 0 /\ excused = {} /\ cleared = {} /\ captured = {}
    BY DEF Init, Waiting
  <2>2. QED BY <1>1, <2>1 DEF AgentTypeOK
<1>3. Dated /\ OnlyApprovedRan /\ CapturesSound
  BY <1>1 DEF Init, Dated, OnlyApprovedRan, CapturesSound
<1>4. \A t : Writes(t) = {}
  BY <1>1 DEF Writes
<1>5. WritesSound
  BY <1>1, <1>4 DEF WritesSound
<1>6. BatchSound /\ ConflictSound /\ ForceSound
  BY DEF Init, BatchSound, ConflictSound, ForceSound, InBatch
<1>7. SettledSound
  BY <1>1 DEF SettledSound, WriteSettled, ThisTurn, Happened
<1>8. QED BY <1>2, <1>3, <1>5, <1>6, <1>7 DEF AInv

LEMMA NewMessageSound ==
    ASSUME AInv, NEW f \in BOOLEAN, NewMessage(f)
    PROVE  AInv'
<1>1. /\ msgs \in Seq(Msg) /\ Len(msgs) \in Nat /\ DOMAIN msgs = 1..Len(msgs)
      /\ \A i \in DOMAIN msgs : WellCalled(msgs[i])
      /\ turn \in Nat /\ forced \subseteq Nat /\ excused \subseteq Nat
      /\ Dated /\ WritesSound
  BY DEF AInv, AgentTypeOK
<1>2. /\ msgs' = Append(msgs, Human) /\ force' = f /\ node' = "call_llm" /\ turn' = turn + 1
      /\ forced' = IF f THEN forced \cup {turn + 1} ELSE forced
      /\ excused' = IF node = "idle" THEN excused ELSE excused \cup {turn}
      /\ UNCHANGED <<steps, captures, throttled, cleared, ran, captured, stops>>
      /\ node \in Waiting
  BY DEF NewMessage, InputForce
<1>3. /\ Human \in Msg /\ WellCalled(Human)
      /\ ThisTurn(msgs') = {Len(msgs) + 1} /\ NewUserTurn(msgs')
  BY <1>1, <1>2, TurnBegins
<1>4. /\ msgs' \in Seq(Msg) /\ Len(msgs') = Len(msgs) + 1 /\ msgs'[Len(msgs) + 1] = Human
      /\ DOMAIN msgs' = 1..(Len(msgs) + 1)
      /\ \A i \in 1..Len(msgs) : msgs'[i] = msgs[i]
  BY <1>1, <1>2, <1>3
<1>5. AgentTypeOK'
  <2>1. \A i \in DOMAIN msgs' : WellCalled(msgs'[i])
    BY <1>1, <1>3, <1>4
  <2>2. QED BY <1>1, <1>2, <1>4, <2>1 DEF AInv, AgentTypeOK, Nodes
<1>6. Dated'
  BY <1>1, <1>2 DEF Dated, AInv, AgentTypeOK, Execution
<1>7. OnlyApprovedRan' /\ BatchSound' /\ ConflictSound'
  BY <1>2 DEF AInv, OnlyApprovedRan, BatchSound, ConflictSound, InBatch
<1>8. /\ \A t : Writes(t)' = Writes(t)
      /\ \A t, outs : Happened(t, outs)' = Happened(t, outs)
  BY <1>2, SameRuns
<1>9. /\ Writes(turn + 1) = {} /\ \A outs : ~Happened(turn + 1, outs)
  BY <1>1 DEF Dated, Writes, Happened
<1>10. Writes(turn)' = {} /\ \A outs : ~Happened(turn, outs)'
  <2>1. ran' = ran /\ turn' = turn + 1
    BY <1>2
  <2>2. QED BY <1>9, <2>1 DEF Writes, Happened
<1>11. ForceSound'
  BY <1>2, <1>3, <1>10 DEF ForceSound, InBatch
<1>12. Owing' <=> f
  BY <1>2 DEF Owing, InBatch
<1>13. node = "idle" => ~Owing
  BY DEF Owing, InBatch
<1>14. WritesSound'
  <2>1. ASSUME NEW t \in 0..turn'
        PROVE  /\ \A r, s \in Writes(t)' : r = s
               /\ Writes(t)' # {} => t \in forced'
    <3>1. CASE t = turn + 1
      BY <1>8, <1>9, <3>1
    <3>2. CASE t # turn + 1
      <4>1. t \in 0..turn
        BY <1>1, <1>2, <2>1, <3>2
      <4>2. QED BY <1>1, <1>2, <1>8, <4>1 DEF WritesSound
    <3>3. QED BY <3>1, <3>2
  <2>2. ASSUME MaxSteps > 1, NEW t \in forced' \ excused'
        PROVE  Writes(t)' # {} \/ (t = turn' /\ Owing')
    <3>1. CASE t = turn + 1
      <4>1. f
        BY <1>1, <1>2, <2>2, <3>1 DEF Dated
      <4>2. QED BY <1>2, <1>12, <3>1, <4>1
    <3>2. CASE t # turn + 1
      <4>1. t \in forced \ excused /\ (node = "idle" \/ t # turn)
        BY <1>2, <2>2, <3>2
      <4>2. Writes(t) # {}
        BY <1>1, <1>13, <2>2, <4>1 DEF WritesSound
      <4>3. QED BY <1>8, <4>2
    <3>3. QED BY <3>1, <3>2
  <2>3. QED BY <2>1, <2>2 DEF WritesSound
<1>15. SettledSound'
  <2>1. ~WriteSettled(msgs')
    BY <1>3, <1>4 DEF WriteSettled, IsWrite, Human, Message
  <2>2. QED BY <1>10, <2>1 DEF SettledSound
<1>16. CapturesSound'
  <2>1. turn' \in Nat /\ turn <= turn' /\ turn < turn'
    BY <1>1, <1>2
  <2>2. QED BY <1>2, <1>8, <2>1, CapturesKept
<1>17. QED BY <1>5, <1>6, <1>7, <1>11, <1>14, <1>15, <1>16 DEF AInv

LEMMA CallLLMSound ==
    ASSUME AInv, NEW answer \in Answers, CallLLM(answer)
    PROVE  AInv'
<1> DEFINE asked == ModelCalls(answer.tools)
           calls == IF force /\ ~WriteUsed(msgs) THEN asked \cup {ForcedCall(asked)} ELSE asked
           m == Assistant(calls, answer.out)
<1>1. /\ msgs \in Seq(Msg) /\ Len(msgs) \in Nat /\ DOMAIN msgs = 1..Len(msgs)
      /\ \A i \in DOMAIN msgs : WellCalled(msgs[i])
      /\ steps \in Nat /\ MaxSteps \in Nat /\ answer.out \in {"text", "blank"}
  BY AgentAssumption DEF AInv, AgentTypeOK
<1>2. /\ msgs' = Append(msgs, m) /\ node' = Route(StepBase + 1, calls)
      /\ steps' = StepBase + 1 /\ force' = FALSE /\ cleared' = {} /\ node = "call_llm"
      /\ UNCHANGED <<captures, throttled, turn, forced, excused, ran, captured, stops>>
  BY DEF CallLLM
<1>3. /\ asked \in SUBSET Call /\ IsFiniteSet(asked) /\ \A c \in asked : c.tool # "write"
      /\ ForcedCall(asked) \in Call /\ ForcedCall(asked).tool = "write"
  BY CallsAre DEF AInv
<1> HIDE DEF asked
<1>4. /\ calls \in SUBSET Call /\ IsFiniteSet(calls)
      /\ \A c \in calls : c.tool = "write" => force /\ c = ForcedCall(asked)
      /\ force /\ ~WriteUsed(msgs) => ForcedCall(asked) \in calls
  <2>1. IsFiniteSet(asked \cup {ForcedCall(asked)})
    BY <1>3, FS_AddElement
  <2>2. QED BY <1>3, <2>1
<1> HIDE DEF calls
<1>5. m \in Msg /\ m.role = "ai" /\ m.calls = calls /\ WellCalled(m) /\ ~Settling(m)
  <2>1. answer.out \in Outs
    BY <1>1 DEF Outs
  <2>2. QED BY <1>4, <2>1, AssistantIs
<1> HIDE DEF m
<1>6. /\ msgs' \in Seq(Msg) /\ \A i \in DOMAIN msgs' : WellCalled(msgs'[i])
      /\ WriteSettled(msgs') <=> WriteSettled(msgs)
      /\ AnswerAt' = Len(msgs) + 1 /\ Pending' = m
      /\ Len(msgs) + 1 \in DOMAIN msgs'
  <2>1. AgentTypeOK /\ m.role # "human"
    BY <1>5 DEF AInv
  <2>2. QED BY <1>1, <1>2, <1>5, <2>1, OneMore, AnswerIsNew
<1>7. AsksWrite(Pending)' <=> \E c \in calls : c.tool = "write"
  BY <1>5, <1>6 DEF AsksWrite
<1>8. node' \in {"generate_final", "check_approval"} /\ steps' \in Nat
  BY <1>1, <1>2 DEF Route, StepBase
<1>9. AgentTypeOK'
  BY <1>2, <1>6, <1>8 DEF AInv, AgentTypeOK, Nodes
<1>10. Dated' /\ OnlyApprovedRan' /\ ConflictSound'
  BY <1>2, <1>8, QuietHistories DEF ConflictSound
<1>11. BatchSound'
  <2>1. \A c, d \in Pending.calls' : c.tool = "write" /\ d.tool = "write" => c = d
    BY <1>4, <1>5, <1>6
  <2>2. QED BY <1>5, <1>6, <1>8, <2>1 DEF BatchSound
<1>12. /\ \A t : Writes(t)' = Writes(t)
       /\ \A t, outs : Happened(t, outs)' = Happened(t, outs)
       /\ Writes(turn)' = Writes(turn)
       /\ \A outs : Happened(turn, outs)' = Happened(turn, outs)
  BY <1>2, SameRuns DEF Writes, Happened
<1>13. ForceSound'
  <2>1. force => turn \in forced /\ Writes(turn) = {}
    BY <1>2 DEF AInv, ForceSound
  <2>2. QED BY <1>2, <1>4, <1>7, <1>8, <1>12, <2>1 DEF ForceSound
<1>14. ASSUME MaxSteps > 1, force
       PROVE  Owing'
  <2>1. NewUserTurn(msgs)
    BY <1>2, <1>14 DEF AInv, ForceSound
  <2>2. StepBase = 0 /\ Len(msgs) \in DOMAIN msgs /\ msgs[Len(msgs)].role = "human"
    BY <1>1, <2>1 DEF StepBase, NewUserTurn, Newest
  <2>3. ThisTurn(msgs) \subseteq {Len(msgs)}
    BY <1>1, <2>2 DEF ThisTurn
  <2>4. ~IsWrite(msgs[Len(msgs)]) /\ ~AsksWrite(msgs[Len(msgs)])
    BY <1>1, <2>2 DEF IsWrite, AsksWrite, WellCalled
  <2>5. ~WriteUsed(msgs)
    BY <2>3, <2>4 DEF WriteUsed
  <2>6. ForcedCall(asked) \in calls
    BY <1>4, <1>14, <2>5
  <2>7. node' = "check_approval"
    BY <1>1, <1>2, <1>14, <2>2, <2>6 DEF Route, NoCalls
  <2>8. AsksWrite(Pending)'
    BY <1>3, <1>7, <2>6
  <2>9. QED BY <2>7, <2>8 DEF Owing, InBatch
<1>15. WritesSound'
  <2>1. MaxSteps > 1 /\ Owing => Owing'
    BY <1>2, <1>14 DEF Owing, InBatch
  <2>2. QED BY <1>2, <1>12, <2>1, WritesKept
<1>16. SettledSound'
  BY <1>2, <1>6, <1>12 DEF AInv, SettledSound
<1>17. CapturesSound'
  BY <1>2, <1>12, CapturesKept DEF AInv, AgentTypeOK
<1>18. QED BY <1>9, <1>10, <1>11, <1>13, <1>15, <1>16, <1>17 DEF AInv

LEMMA CallLLMFailsSound ==
    ASSUME AInv, CallLLMFails
    PROVE  AInv'
<1> DEFINE m == Assistant(NoCalls, "stub")
<1>1. /\ msgs' = Append(msgs, m) /\ force' = FALSE /\ node' = "generate_final" /\ node = "call_llm"
      /\ excused' = IF force THEN excused \cup {turn} ELSE excused
      /\ UNCHANGED <<steps, captures, throttled, turn, forced, cleared, ran, captured, stops>>
  BY DEF CallLLMFails
<1>2. m \in Msg /\ m.role = "ai" /\ WellCalled(m) /\ ~Settling(m)
  <2>1. NoCalls \in SUBSET Call /\ IsFiniteSet(NoCalls) /\ "stub" \in Outs
    BY FS_EmptySet DEF NoCalls, Outs
  <2>2. QED BY <2>1, AssistantIs
<1> HIDE DEF m
<1>3. /\ msgs' \in Seq(Msg) /\ \A i \in DOMAIN msgs' : WellCalled(msgs'[i])
      /\ WriteSettled(msgs') <=> WriteSettled(msgs)
  <2>1. AgentTypeOK /\ m.role # "human"
    BY <1>2 DEF AInv
  <2>2. QED BY <1>1, <1>2, <2>1, OneMore
<1>4. AgentTypeOK'
  <2>1. excused' \subseteq Nat
    BY <1>1 DEF AInv, AgentTypeOK
  <2>2. QED BY <1>1, <1>3, <2>1 DEF AInv, AgentTypeOK, Nodes
<1>5. Dated' /\ OnlyApprovedRan' /\ BatchSound' /\ ConflictSound' /\ ForceSound'
  BY <1>1, QuietHistories DEF BatchSound, ConflictSound, ForceSound, InBatch
<1>6. /\ \A t : Writes(t)' = Writes(t)
      /\ \A t, outs : Happened(t, outs)' = Happened(t, outs)
      /\ \A outs : Happened(turn, outs)' = Happened(turn, outs)
  BY <1>1, SameRuns DEF Happened
<1>7. WritesSound'
  <2>1. Owing => turn \in excused'
    BY <1>1 DEF Owing, InBatch
  <2>2. QED BY <1>1, <1>6, <2>1, WritesKept
<1>8. SettledSound'
  BY <1>1, <1>3, <1>6 DEF AInv, SettledSound
<1>9. CapturesSound'
  BY <1>1, <1>6, CapturesKept DEF AInv, AgentTypeOK
<1>10. QED BY <1>4, <1>5, <1>7, <1>8, <1>9 DEF AInv

(* The driver moves on and nothing else changes.                           *)
LEMMA MovesOn ==
    ASSUME AInv, node # "idle", node' \in Nodes \cup Waiting, node' # "idle",
           UNCHANGED <<state, captures, throttled, turn, forced, excused, ran, captured, stops>>,
           cleared' \subseteq CallId, BatchSound', ConflictSound',
           node' = "call_llm" => node = "check_conflict",
           InBatch' => InBatch, Owing => Owing'
    PROVE  AInv'
<1>1. /\ \A t : Writes(t)' = Writes(t)
      /\ \A t, outs : Happened(t, outs)' = Happened(t, outs)
      /\ Writes(turn)' = Writes(turn)
      /\ \A outs : Happened(turn, outs)' = Happened(turn, outs)
  BY SameRuns DEF Writes, Happened
<1>2. msgs' = msgs /\ steps' = steps /\ force' = force
  BY DEF state
<1>3. AgentTypeOK'
  BY <1>2 DEF AInv, AgentTypeOK
<1>4. Dated' /\ OnlyApprovedRan'
  BY QuietHistories
<1>5. ForceSound'
  <2>1. ~force \/ node = "call_llm"
    BY DEF AInv, ForceSound
  <2>2. AsksWrite(Pending)' = AsksWrite(Pending)
    BY <1>2, SameTalk
  <2>3. InBatch' /\ AsksWrite(Pending)' => turn \in forced /\ Writes(turn) = {}
    BY <2>2 DEF AInv, ForceSound
  <2>4. node' \notin {"idle", "call_llm"} => ~force'
    BY <1>2, <2>1 DEF Owing, InBatch
  <2>5. node' = "call_llm" => ~force'
    BY <1>2, <2>1
  <2>6. QED BY <1>1, <2>3, <2>4, <2>5 DEF ForceSound
<1>6. WritesSound'
  BY <1>1, WritesKept
<1>7. SettledSound'
  BY <1>1, <1>2 DEF AInv, SettledSound
<1>8. CapturesSound'
  BY <1>1, CapturesKept DEF AInv, AgentTypeOK
<1>9. QED BY <1>3, <1>4, <1>5, <1>6, <1>7, <1>8 DEF AInv

LEMMA CheckApprovalSound ==
    ASSUME AInv, CheckApproval
    PROVE  AInv'
<1>1. /\ node = "check_approval" /\ InBatch
      /\ node' = IF Sensitive = {} THEN "tools" ELSE "await_approval"
      /\ UNCHANGED <<state, captures, throttled, turn, forced, excused, cleared, ran, captured, stops>>
  BY DEF CheckApproval, InBatch
<1>2. /\ AnswerAt' = AnswerAt /\ Pending' = Pending /\ msgs' = msgs
      /\ AsksWrite(Pending)' = AsksWrite(Pending)
  BY <1>1, SameTalk DEF state
<1>3. /\ node' \in {"tools", "await_approval"} /\ InBatch' /\ cleared' \subseteq CallId
      /\ node' \in Nodes \cup Waiting
  BY <1>1 DEF InBatch, AInv, AgentTypeOK, Nodes, Waiting
<1>4. BatchSound'
  <2>1. node' = "tools" => \A c \in Pending.calls : c.tool \notin Gated
    BY <1>1 DEF Sensitive
  <2>2. QED BY <1>1, <1>2, <1>3, <2>1 DEF AInv, BatchSound
<1>5. ConflictSound' /\ (Owing => Owing')
  BY <1>1, <1>2, <1>3 DEF ConflictSound, Owing
<1>6. QED BY <1>1, <1>3, <1>4, <1>5, MovesOn

LEMMA CheckConflictSound ==
    ASSUME AInv, CheckConflict
    PROVE  AInv'
<1>1. /\ node = "check_conflict"
      /\ node' = IF TurnWrites(msgs) # {} /\ msgs[LastWrite].out = "conflict"
                 THEN "await_conflict" ELSE "call_llm"
      /\ UNCHANGED <<state, captures, throttled, turn, forced, excused, cleared, ran, captured, stops>>
  BY DEF CheckConflict
<1>2. LastWrite' = LastWrite /\ msgs' = msgs /\ TurnWrites(msgs') = TurnWrites(msgs)
  BY <1>1, SameTalk DEF state
<1>3. ConflictSound'
  <2>1. msgs \in Seq(Msg)
    BY DEF AInv, AgentTypeOK
  <2>2. Len(msgs) \in Nat /\ TurnWrites(msgs) \subseteq 1..Len(msgs)
    BY <2>1 DEF TurnWrites, ThisTurn
  <2>3. TurnWrites(msgs) # {} => LastWrite \in TurnWrites(msgs)
    BY <2>2, LatestAmong DEF LastWrite
  <2>4. QED BY <1>1, <1>2, <2>3 DEF ConflictSound
<1>4. /\ node' \in {"call_llm", "await_conflict"} /\ ~InBatch' /\ ~Owing /\ cleared' \subseteq CallId
      /\ node' \in Nodes \cup Waiting
  BY <1>1 DEF InBatch, Owing, AInv, AgentTypeOK, Nodes, Waiting
<1>5. BatchSound'
  BY <1>4 DEF BatchSound
<1>6. QED BY <1>1, <1>3, <1>4, <1>5, MovesOn

LEMMA ResumeConflictSound ==
    ASSUME AInv, ResumeConflict
    PROVE  AInv'
<1>1. /\ node = "await_conflict" /\ node' = "resolving"
      /\ UNCHANGED <<state, captures, throttled, turn, forced, excused, cleared, ran, captured, stops>>
  BY DEF ResumeConflict
<1>2. LastWrite' = LastWrite /\ msgs' = msgs /\ TurnWrites(msgs') = TurnWrites(msgs)
  BY <1>1, SameTalk DEF state
<1>3. ConflictSound'
  BY <1>1, <1>2 DEF AInv, ConflictSound
<1>4. ~InBatch' /\ ~Owing /\ cleared' \subseteq CallId /\ node' \in Nodes \cup Waiting
  BY <1>1 DEF InBatch, Owing, AInv, AgentTypeOK, Nodes
<1>5. BatchSound'
  BY <1>4 DEF BatchSound
<1>6. QED BY <1>1, <1>3, <1>4, <1>5, MovesOn

(* The answer under judgement is one of the model's.                       *)
LEMMA PendingIs ==
    ASSUME AInv, InBatch
    PROVE  /\ AnswerAt \in DOMAIN msgs /\ msgs[AnswerAt] = Pending
           /\ Pending \in Msg /\ Pending.role = "ai"
           /\ Pending.calls \subseteq Call /\ IsFiniteSet(Pending.calls)
<1>1. /\ msgs \in Seq(Msg) /\ \A i \in DOMAIN msgs : WellCalled(msgs[i])
      /\ AnswerAt \in DOMAIN msgs /\ Pending.role = "ai"
  BY DEF AInv, AgentTypeOK, BatchSound
<1>2. msgs[AnswerAt] = Pending
  BY DEF Pending
<1>3. msgs[AnswerAt] \in Msg /\ WellCalled(msgs[AnswerAt])
  BY <1>1
<1>4. Pending \in Msg /\ IsFiniteSet(Pending.calls)
  BY <1>2, <1>3 DEF WellCalled
<1>5. Pending.calls \subseteq Call
  BY <1>4 DEF Msg
<1>6. QED BY <1>1, <1>2, <1>4, <1>5

(* All gated calls cleared, some of them, or none.                        *)
LEMMA WholeBatchSound ==
    ASSUME AInv, node = "await_approval", node' = "tools", cleared' = Ids(Sensitive),
           UNCHANGED <<msgs, excused, steps, force, captures, throttled, turn, forced,
                       ran, captured, stops>>
    PROVE  AInv'
<1>1. InBatch /\ InBatch' /\ msgs \in Seq(Msg) /\ BatchSound
  BY DEF InBatch, AInv, AgentTypeOK
<1>2. /\ AnswerAt' = AnswerAt /\ Pending' = Pending
      /\ AsksWrite(Pending)' = AsksWrite(Pending)
  BY SameTalk
<1>3. Pending \in Msg /\ Pending.calls \subseteq Call
  BY <1>1, PendingIs
<1>4. cleared' \subseteq CallId
  BY <1>3 DEF Ids, Sensitive, Call
<1>5. \A c \in Pending.calls : c.tool \in Gated => c.id \in cleared'
  BY DEF Ids, Sensitive
<1>6. BatchSound'
  BY <1>1, <1>2, <1>5 DEF BatchSound
<1>7. ConflictSound' /\ (Owing => Owing') /\ node' \in Nodes \cup Waiting
  BY <1>1, <1>2 DEF ConflictSound, Owing, Nodes
<1>8. UNCHANGED <<state, captures, throttled, turn, forced, excused, ran, captured, stops>>
  BY DEF state
<1>9. QED BY <1>1, <1>4, <1>6, <1>7, <1>8, MovesOn

LEMMA PartBatchSound ==
    ASSUME AInv, node = "await_approval", node' = "tools",
           NEW ok \in SUBSET Ids(Sensitive), cleared' = ok, msgs' = PartlyApproved(ok),
           UNCHANGED <<excused, steps, force, captures, throttled, turn, forced,
                       ran, captured, stops>>
    PROVE  AInv'
<1> DEFINE exec == Assistant(Only(Pending.calls, ok) \cup Safe, "text")
           mid == [msgs EXCEPT ![AnswerAt] = exec]
           tail == Results(Rejected(ok), "rejected")
<1>1. /\ msgs \in Seq(Msg) /\ Len(msgs) \in Nat /\ DOMAIN msgs = 1..Len(msgs)
      /\ \A i \in DOMAIN msgs : WellCalled(msgs[i])
      /\ BatchSound /\ InBatch /\ InBatch' /\ turn \in Nat
  BY DEF AInv, AgentTypeOK, InBatch
<1>2. /\ AnswerAt \in DOMAIN msgs /\ Pending \in Msg /\ Pending.role = "ai"
      /\ Pending.calls \subseteq Call /\ IsFiniteSet(Pending.calls)
      /\ msgs[AnswerAt] = Pending
  BY <1>1, PendingIs
<1>3. msgs' = mid \o tail
  BY DEF PartlyApproved
<1>4. /\ exec \in Msg /\ exec.role = "ai" /\ WellCalled(exec) /\ ~Settling(exec)
      /\ exec.calls \subseteq Pending.calls
      /\ exec.calls = Only(Pending.calls, ok) \cup Safe
  <2> DEFINE calls == Only(Pending.calls, ok) \cup Safe
  <2>1. calls \subseteq Pending.calls
    BY DEF Only, Safe
  <2> HIDE DEF calls
  <2>2. calls \in SUBSET Call /\ IsFiniteSet(calls) /\ "text" \in Outs
    BY <1>2, <2>1, FS_Subset DEF Outs
  <2>3. exec = Assistant(calls, "text")
    BY DEF calls
  <2> HIDE DEF exec
  <2>4. /\ exec \in Msg /\ exec.role = "ai" /\ exec.calls = calls
        /\ WellCalled(exec) /\ ~Settling(exec)
    BY <2>2, <2>3, AssistantIs
  <2>5. QED BY <2>1, <2>4 DEF calls
<1> HIDE DEF exec
<1>5. /\ mid \in Seq(Msg) /\ Len(mid) = Len(msgs) /\ DOMAIN mid = DOMAIN msgs
      /\ mid[AnswerAt] = exec
      /\ \A i \in DOMAIN msgs : i # AnswerAt => mid[i] = msgs[i]
  BY <1>1, <1>2, <1>4
<1> HIDE DEF mid
<1>6. /\ tail \in Seq(Msg)
      /\ \A i \in DOMAIN tail : /\ tail[i].role = "tool" /\ WellCalled(tail[i])
                                /\ ~Settling(tail[i])
  <2>1. Rejected(ok) \subseteq Pending.calls
    BY DEF Rejected, Sensitive
  <2>2. Rejected(ok) \in SUBSET Call /\ IsFiniteSet(Rejected(ok)) /\ "rejected" \in Outs
    BY <1>2, <2>1, FS_Subset DEF Outs
  <2>3. QED BY <2>2, ResultsAre DEF Settling
<1> HIDE DEF tail
<1>7. \A i \in DOMAIN mid : /\ WellCalled(mid[i]) /\ mid[i].role = msgs[i].role
                            /\ Settling(mid[i]) <=> Settling(msgs[i])
  <2>1. ASSUME NEW i \in DOMAIN mid, i = AnswerAt
        PROVE  /\ WellCalled(mid[i]) /\ mid[i].role = msgs[i].role
               /\ ~Settling(mid[i]) /\ ~Settling(msgs[i])
    <3>1. msgs[i].role = "ai" /\ mid[i] = exec
      BY <1>2, <1>5, <2>1
    <3>2. ~Settling(msgs[i])
      BY <3>1 DEF Settling, IsWrite
    <3>3. QED BY <1>4, <3>1, <3>2
  <2>2. ASSUME NEW i \in DOMAIN mid, i # AnswerAt
        PROVE  WellCalled(mid[i]) /\ mid[i] = msgs[i]
    BY <1>1, <1>5, <2>2
  <2>3. QED BY <2>1, <2>2
<1>8. /\ msgs' \in Seq(Msg)
      /\ \A i \in DOMAIN msgs' : WellCalled(msgs'[i])
      /\ Grows(mid, msgs')
      /\ \A i \in 1..Len(mid) : msgs'[i] = mid[i]
      /\ \A i \in (Len(mid) + 1)..Len(msgs') : msgs'[i].role = "tool"
      /\ WriteSettled(msgs') <=> WriteSettled(mid)
  <2>1. \A i \in DOMAIN mid : WellCalled(mid[i])
    BY <1>7
  <2>2. mid \in Seq(Msg)
    BY <1>5
  <2>3. QED BY ONLY <1>3, <1>6, <2>1, <2>2, ManyMore
<1>9. Grows(msgs, mid) /\ Grows(msgs, msgs')
  BY <1>1, <1>5, <1>7, <1>8 DEF Grows
<1>10. WriteSettled(msgs') <=> WriteSettled(msgs)
  <2>1. \A i \in 1..Len(msgs) : Settling(mid[i]) <=> Settling(msgs[i])
    BY <1>1, <1>5, <1>7
  <2>2. \A i \in (Len(msgs) + 1)..Len(mid) : ~Settling(mid[i])
    BY <1>1, <1>5
  <2>3. WriteSettled(mid) <=> WriteSettled(msgs)
    BY <1>1, <1>5, <1>9, <2>1, <2>2, SettledKept
  <2>4. QED BY <1>8, <2>3
<1>11. AnswerAt' = AnswerAt
  BY <1>1, <1>5, <1>8, <1>9, AnswerKept DEF AInv
<1>12. AnswerAt' \in DOMAIN msgs' /\ Pending' = exec
  <2>1. AnswerAt \in 1..Len(mid) /\ Len(msgs') \in Nat /\ Len(mid) <= Len(msgs')
    BY <1>1, <1>2, <1>5, <1>8 DEF Grows
  <2>2. AnswerAt \in DOMAIN msgs' /\ msgs'[AnswerAt] = exec
    BY <1>5, <1>8, <2>1
  <2>3. QED BY <1>11, <2>2 DEF Pending
<1>13. AsksWrite(Pending)' <=> AsksWrite(Pending)
  <2>1. AsksWrite(Pending)' <=> \E c \in exec.calls : c.tool = "write"
    BY <1>12 DEF AsksWrite
  <2>2. \A c \in Pending.calls : c.tool = "write" => c \in Safe
    BY AgentAssumption DEF Safe, Sensitive
  <2>3. QED BY <1>4, <2>1, <2>2 DEF AsksWrite
<1>14. AgentTypeOK'
  <2>1. ok \subseteq CallId
    BY <1>2 DEF Ids, Sensitive, Call
  <2>2. QED BY <1>8, <2>1 DEF AInv, AgentTypeOK, Nodes
<1>15. BatchSound'
  <2>1. \A c \in exec.calls : c.tool \in Gated => c.id \in ok
    BY <1>4 DEF Only, Safe, Sensitive
  <2>2. \A c, d \in exec.calls : c.tool = "write" /\ d.tool = "write" => c = d
    BY <1>1, <1>4 DEF BatchSound
  <2>3. QED BY <1>4, <1>12, <2>1, <2>2 DEF BatchSound
<1>16. /\ \A t : Writes(t)' = Writes(t)
       /\ \A t, outs : Happened(t, outs)' = Happened(t, outs)
       /\ Writes(turn)' = Writes(turn)
       /\ \A outs : Happened(turn, outs)' = Happened(turn, outs)
  BY SameRuns DEF Writes, Happened
<1>17. Dated' /\ OnlyApprovedRan' /\ ConflictSound'
  BY QuietHistories DEF ConflictSound
<1>18. ForceSound'
  BY <1>1, <1>13, <1>16 DEF AInv, ForceSound
<1>19. WritesSound'
  <2>1. Owing => Owing'
    BY <1>1, <1>13 DEF Owing
  <2>2. QED BY <1>16, <2>1, WritesKept
<1>20. SettledSound'
  BY <1>10, <1>16 DEF AInv, SettledSound
<1>21. CapturesSound'
  BY <1>1, <1>16, CapturesKept
<1>22. QED BY <1>14, <1>15, <1>17, <1>18, <1>19, <1>20, <1>21 DEF AInv

LEMMA NoneApprovedSound ==
    ASSUME AInv, node = "await_approval", node' = "call_llm", cleared' = {},
           msgs' = msgs \o Results(Sensitive, "rejected") \o Results(Safe, "cancelled"),
           excused' = IF AsksWrite(Pending) THEN excused \cup {turn} ELSE excused,
           UNCHANGED <<steps, force, captures, throttled, turn, forced, ran, captured, stops>>
    PROVE  AInv'
<1> DEFINE mid == msgs \o Results(Sensitive, "rejected")
           first == Results(Sensitive, "rejected")
           second == Results(Safe, "cancelled")
<1>1. /\ msgs \in Seq(Msg) /\ Len(msgs) \in Nat /\ DOMAIN msgs = 1..Len(msgs)
      /\ \A i \in DOMAIN msgs : WellCalled(msgs[i])
      /\ BatchSound /\ InBatch /\ turn \in Nat
  BY DEF AInv, AgentTypeOK, InBatch
<1>2. Pending.calls \subseteq Call /\ IsFiniteSet(Pending.calls)
  BY <1>1, PendingIs
<1>3. /\ first \in Seq(Msg) /\ second \in Seq(Msg)
      /\ \A i \in DOMAIN first : /\ first[i].role = "tool" /\ WellCalled(first[i])
                                 /\ ~Settling(first[i])
      /\ \A i \in DOMAIN second : /\ second[i].role = "tool" /\ WellCalled(second[i])
                                  /\ ~Settling(second[i])
  <2>1. Sensitive \subseteq Pending.calls /\ Safe \subseteq Pending.calls
    BY DEF Sensitive, Safe
  <2>2. /\ Sensitive \in SUBSET Call /\ IsFiniteSet(Sensitive)
        /\ Safe \in SUBSET Call /\ IsFiniteSet(Safe)
        /\ "rejected" \in Outs /\ "cancelled" \in Outs
    BY <1>2, <2>1, FS_Subset DEF Outs
  <2>3. QED BY <2>2, ResultsAre DEF Settling
<1> HIDE DEF first, second
<1>4. /\ mid \in Seq(Msg) /\ \A i \in DOMAIN mid : WellCalled(mid[i])
      /\ WriteSettled(mid) <=> WriteSettled(msgs)
  <2>1. mid = msgs \o first
    BY DEF first
  <2> HIDE DEF mid
  <2>2. QED BY ONLY <1>1, <1>3, <2>1, ManyMore
<1> HIDE DEF mid
<1>5. msgs' = mid \o second
  BY DEF mid, second
<1>6. /\ msgs' \in Seq(Msg) /\ \A i \in DOMAIN msgs' : WellCalled(msgs'[i])
      /\ WriteSettled(msgs') <=> WriteSettled(msgs)
  BY ONLY <1>3, <1>4, <1>5, ManyMore
<1>7. AgentTypeOK'
  <2>1. excused' \subseteq Nat
    BY DEF AInv, AgentTypeOK
  <2>2. QED BY <1>6, <2>1 DEF AInv, AgentTypeOK, Nodes
<1>8. /\ \A t : Writes(t)' = Writes(t)
      /\ \A t, outs : Happened(t, outs)' = Happened(t, outs)
      /\ \A outs : Happened(turn, outs)' = Happened(turn, outs)
  BY SameRuns DEF Happened
<1>9. ~force
  BY DEF AInv, ForceSound
<1>10. Dated' /\ OnlyApprovedRan' /\ BatchSound' /\ ConflictSound' /\ ForceSound'
  BY <1>9, QuietHistories DEF BatchSound, ConflictSound, ForceSound, InBatch
<1>11. WritesSound'
  <2>1. Owing => turn \in excused'
    BY <1>9 DEF Owing
  <2>2. QED BY <1>8, <2>1, WritesKept
<1>12. SettledSound'
  BY <1>6, <1>8 DEF AInv, SettledSound
<1>13. CapturesSound'
  BY <1>1, <1>8, CapturesKept
<1>14. QED BY <1>7, <1>10, <1>11, <1>12, <1>13 DEF AInv

LEMMA ResumeApprovalSound ==
    ASSUME AInv, NEW v \in Verdicts, ResumeApproval(v)
    PROVE  AInv'
<1>1. /\ node = "await_approval" /\ cleared' = v.ok \cup Unnamed(v)
      /\ UNCHANGED <<steps, force, captures, throttled, turn, forced, ran, captured, stops>>
  BY DEF ResumeApproval
<1>2. v.ok \subseteq v.named /\ v.named \subseteq Ids(Sensitive)
  BY <1>1 DEF Verdicts
<1>3. CASE v.ok = v.named /\ v.named # {} /\ node' = "tools" /\ UNCHANGED <<msgs, excused>>
  <2>1. cleared' = Ids(Sensitive)
    BY <1>1, <1>2, <1>3 DEF Unnamed
  <2>2. QED BY <1>1, <1>3, <2>1, WholeBatchSound
<1>4. CASE v.ok \notin {{}, v.named} /\ msgs' = PartlyApproved(v.ok) /\ node' = "tools" /\ UNCHANGED excused
  <2>1. cleared' = v.ok /\ v.ok \in SUBSET Ids(Sensitive)
    BY <1>1, <1>2, <1>4 DEF Unnamed
  <2>2. QED BY <1>1, <1>4, <2>1, PartBatchSound
<1>5. CASE /\ v.ok = {}
           /\ msgs' = msgs \o Results(Sensitive, "rejected") \o Results(Safe, "cancelled")
           /\ node' = "call_llm"
           /\ excused' = IF AsksWrite(Pending) THEN excused \cup {turn} ELSE excused
  <2>1. cleared' = {}
    BY <1>1, <1>5 DEF Unnamed
  <2>2. QED BY <1>1, <1>5, <2>1, NoneApprovedSound
<1>6. QED BY <1>3, <1>4, <1>5 DEF ResumeApproval

LEMMA ToolsSound ==
    ASSUME AInv, NEW write \in {"stored", "conflict", "error"}, Tools(write)
    PROVE  AInv'
<1> DEFINE calls == Pending.calls
           tail == Outputs(calls, write)
           done == Executed(calls, write)
<1>1. /\ msgs \in Seq(Msg) /\ Len(msgs) \in Nat /\ DOMAIN msgs = 1..Len(msgs)
      /\ \A i \in DOMAIN msgs : WellCalled(msgs[i])
      /\ turn \in Nat /\ throttled \in BOOLEAN /\ Dated /\ WritesSound /\ SettledSound
  BY DEF AInv, AgentTypeOK
<1>2. /\ node = "tools" /\ node' = "check_conflict" /\ msgs' = msgs \o tail
      /\ ran' = ran \cup done /\ throttled' = (throttled \/ Stores(done))
      /\ UNCHANGED <<steps, force, captures, turn, forced, excused, cleared, captured, stops>>
      /\ InBatch /\ ~force
  BY DEF Tools, InBatch, AInv, ForceSound
<1>3. calls \in SUBSET Call /\ IsFiniteSet(calls) /\ write \in Outs
  BY <1>2, PendingIs DEF Outs
<1>4. /\ tail \in Seq(Msg)
      /\ \A i \in DOMAIN tail :
            /\ tail[i].role = "tool" /\ WellCalled(tail[i])
            /\ \E d \in calls : tail[i] = ToolResult(d, Outcome(d, write))
      /\ \A d \in calls : \E i \in DOMAIN tail : tail[i] = ToolResult(d, Outcome(d, write))
  <2> HIDE DEF calls
  <2>1. QED BY <1>3, OutputsAre
<1>5. /\ ran' \subseteq Execution /\ \A r \in ran' : r.turn <= turn
      /\ OnlyApprovedRan'
      /\ \A t : t # turn => Writes(t)' = Writes(t)
      /\ \A t, outs : t # turn => Happened(t, outs)' = Happened(t, outs)
      /\ \A outs : Happened(turn, outs) => Happened(turn, outs)'
      /\ \A r, s \in Writes(turn)' : r = s
      /\ Writes(turn)' # {} => turn \in forced
      /\ Writes(turn) \subseteq Writes(turn)'
  BY <1>2, RunsGrow
<1>6. \A d \in calls : \E r \in ran' : /\ r.turn = turn /\ r.tool = d.tool
                                       /\ r.out = Outcome(d, write)
  <2>1. ASSUME NEW d \in calls
        PROVE  \E r \in done : /\ r.turn = turn /\ r.tool = d.tool
                               /\ r.out = Outcome(d, write)
    <3> DEFINE r == [turn |-> turn, at |-> Len(msgs), id |-> d.id, tool |-> d.tool,
                     out |-> Outcome(d, write), cleared |-> d.id \in cleared]
    <3>1. r \in done
      BY Zenon DEF Executed
    <3>2. r.turn = turn /\ r.tool = d.tool /\ r.out = Outcome(d, write)
      OBVIOUS
    <3>3. QED BY <3>1, <3>2
  <2> HIDE DEF done
  <2>2. QED BY <1>2, <2>1
<1>7. \A r \in done : r.out \in {"stored", "settled"} =>
            \E d \in calls : d.tool = "write" /\ write = "stored"
  BY <1>2, ExecutedAre DEF AsksWrite
<1> HIDE DEF tail, done
<1>8. /\ msgs' \in Seq(Msg) /\ Grows(msgs, msgs')
      /\ Len(msgs') = Len(msgs) + Len(tail)
      /\ \A i \in 1..Len(msgs) : msgs'[i] = msgs[i]
      /\ \A i \in DOMAIN tail : msgs'[Len(msgs) + i] = tail[i]
      /\ \A i \in (Len(msgs) + 1)..Len(msgs') : \E j \in DOMAIN tail : msgs'[i] = tail[j]
  <2>1. \A i \in DOMAIN tail : tail[i].role # "human"
    BY <1>4
  <2>2. QED BY ONLY <1>1, <1>2, <1>4, <2>1, Appended
<1>9. /\ ThisTurn(msgs') = ThisTurn(msgs) \cup ((Len(msgs) + 1)..Len(msgs'))
      /\ ThisTurn(msgs) \subseteq 1..Len(msgs)
      /\ Len(tail) \in Nat /\ DOMAIN tail = 1..Len(tail)
  <2>1. ThisTurn(msgs) \subseteq 1..Len(msgs)
    BY <1>1 DEF ThisTurn
  <2>2. QED BY <1>1, <1>4, <1>8, <2>1, TurnGrows
<1>10. AgentTypeOK'
  <2>1. \A i \in DOMAIN msgs' : WellCalled(msgs'[i])
    <3>1. DOMAIN msgs' = 1..Len(msgs') /\ Len(msgs') \in Nat
      BY <1>8
    <3>2. \A i \in 1..Len(msgs) : WellCalled(msgs'[i])
      BY <1>1, <1>8
    <3>3. \A i \in (Len(msgs) + 1)..Len(msgs') : WellCalled(msgs'[i])
      BY <1>4, <1>8
    <3>4. QED BY <1>1, <3>1, <3>2, <3>3
  <2>2. throttled' \in BOOLEAN
    BY <1>1, <1>2, Zenon DEF Stores
  <2>3. QED BY <1>2, <1>5, <1>8, <2>1, <2>2 DEF AInv, AgentTypeOK, Nodes
<1>11. Dated' /\ BatchSound' /\ ConflictSound' /\ ForceSound'
  BY <1>1, <1>2, <1>5 DEF Dated, BatchSound, ConflictSound, ForceSound, InBatch
<1>12. WritesSound'
  <2>1. \A t \in 0..turn' : /\ \A r, s \in Writes(t)' : r = s
                            /\ Writes(t)' # {} => t \in forced'
    BY <1>1, <1>2, <1>5 DEF WritesSound
  <2>2. AsksWrite(Pending) => Writes(turn)' # {}
    <3>1. ASSUME NEW d \in calls, d.tool = "write"
          PROVE  Writes(turn)' # {}
      <4>1. PICK r \in ran' : r.turn = turn /\ r.tool = d.tool /\ r.out = Outcome(d, write)
        BY <1>6, <3>1
      <4>2. r \in Writes(turn)'
        BY <1>2, <3>1, <4>1 DEF Writes, Outcome
      <4>3. QED BY <4>2
    <3>2. QED BY <3>1 DEF AsksWrite
  <2>3. ASSUME MaxSteps > 1, NEW t \in forced' \ excused'
        PROVE  Writes(t)' # {} \/ (t = turn' /\ Owing')
    <3>1. Writes(t) # {} \/ (t = turn /\ AsksWrite(Pending))
      BY <1>1, <1>2, <2>3 DEF WritesSound, Owing
    <3>2. CASE t # turn
      BY <1>5, <3>1, <3>2
    <3>3. CASE t = turn
      <4>1. Writes(t) = Writes(turn) /\ Writes(t)' = Writes(turn)'
        BY <1>2, <3>3 DEF Writes
      <4>2. QED BY <1>5, <2>2, <3>1, <4>1
    <3>4. QED BY <3>2, <3>3
  <2>4. QED BY <2>1, <2>3 DEF WritesSound
<1>13. SettledSound'
  <2>1. /\ WriteSettled(msgs) <=> \E i \in ThisTurn(msgs) : Settling(msgs[i])
        /\ WriteSettled(msgs') <=> \E i \in ThisTurn(msgs') : Settling(msgs'[i])
    BY DEF WriteSettled, Settling
  <2>2. ASSUME WriteSettled(msgs')
        PROVE  Happened(turn, {"stored", "settled", "lost"})'
    <3>1. PICK i \in ThisTurn(msgs') : Settling(msgs'[i])
      BY <2>1, <2>2
    <3>2. CASE i \in ThisTurn(msgs)
      <4>1. WriteSettled(msgs)
        BY <1>8, <1>9, <2>1, <3>1, <3>2
      <4>2. QED BY <1>1, <1>5, <4>1 DEF SettledSound
    <3>3. CASE i \notin ThisTurn(msgs)
      <4>1. PICK d \in calls : msgs'[i] = ToolResult(d, Outcome(d, write))
        BY <1>4, <1>8, <1>9, <3>1, <3>3
      <4>2. d.tool = "write" /\ Outcome(d, write) \in {"stored", "resolved"}
        BY <3>1, <4>1 DEF Settling, IsWrite, ToolResult, Message
      <4>3. Outcome(d, write) = "stored"
        BY <4>2 DEF Outcome
      <4>4. PICK r \in ran' : r.turn = turn /\ r.out = "stored"
        BY <1>6, <4>3
      <4>5. QED BY <1>2, <4>4 DEF Happened
    <3>4. QED BY <3>2, <3>3
  <2>3. ASSUME Happened(turn, {"stored", "settled"})'
        PROVE  WriteSettled(msgs')
    <3>1. PICK r \in ran' : r.turn = turn /\ r.out \in {"stored", "settled"}
      BY <1>2, <2>3 DEF Happened
    <3>2. CASE r \in ran
      <4>1. WriteSettled(msgs)
        BY <1>1, <1>2, <3>1, <3>2 DEF SettledSound, Happened
      <4>2. PICK i \in ThisTurn(msgs) : Settling(msgs[i])
        BY <2>1, <4>1
      <4>3. i \in ThisTurn(msgs') /\ Settling(msgs'[i])
        BY <1>8, <1>9, <4>2
      <4>4. QED BY <2>1, <4>3
    <3>3. CASE r \notin ran
      <4>1. PICK d \in calls : d.tool = "write" /\ write = "stored"
        BY <1>2, <1>7, <3>1, <3>3
      <4>2. PICK i \in DOMAIN tail : tail[i] = ToolResult(d, "stored")
        BY <1>4, <4>1 DEF Outcome
      <4>3. Len(msgs) + i \in ThisTurn(msgs')
        BY <1>1, <1>8, <1>9, <4>2
      <4>4. Settling(msgs'[Len(msgs) + i])
        BY <1>8, <4>1, <4>2 DEF Settling, IsWrite, ToolResult, Message
      <4>5. QED BY <2>1, <4>3, <4>4
    <3>4. QED BY <3>2, <3>3
  <2>4. QED BY <1>2, <2>2, <2>3 DEF SettledSound
<1>14. CapturesSound'
  BY <1>1, <1>2, <1>5, CapturesKept
<1>15. QED BY <1>5, <1>10, <1>11, <1>12, <1>13, <1>14 DEF AInv

(* The note settles the write in the messages, the verdict settles it in   *)
(* what happened, so the two agree again.                                  *)
LEMMA ConflictResolvedSound ==
    ASSUME AInv, NEW resolution \in {"settled", "lost"}, ConflictResolved(resolution)
    PROVE  AInv'
<1> DEFINE run == [turn |-> turn, at |-> Len(msgs), id |-> msgs[LastWrite].call,
                   tool |-> "write", out |-> resolution, cleared |-> FALSE]
<1>1. /\ msgs \in Seq(Msg) /\ Len(msgs) \in Nat /\ DOMAIN msgs = 1..Len(msgs)
      /\ \A i \in DOMAIN msgs : WellCalled(msgs[i])
      /\ turn \in Nat /\ ran \subseteq Execution /\ Dated /\ WritesSound /\ OnlyApprovedRan
  BY DEF AInv, AgentTypeOK
<1>2. /\ node = "resolving" /\ node' = "call_llm"
      /\ msgs' = [msgs EXCEPT ![LastWrite].out = "resolved"]
      /\ ran' = ran \cup {run}
      /\ UNCHANGED <<steps, force, captures, throttled, turn, forced, excused, cleared,
                     captured, stops>>
      /\ ~force
  BY DEF ConflictResolved, AInv, ForceSound
<1>3. LastWrite \in ThisTurn(msgs) /\ LastWrite \in DOMAIN msgs /\ IsWrite(msgs[LastWrite])
  BY <1>2 DEF AInv, ConflictSound, TurnWrites, ThisTurn
<1>4. msgs[LastWrite] \in Msg
  BY <1>1, <1>3
<1> DEFINE note == [msgs[LastWrite] EXCEPT !.out = "resolved"]
<1>5. /\ note \in Msg /\ note.role = msgs[LastWrite].role /\ note.tool = msgs[LastWrite].tool
      /\ note.calls = msgs[LastWrite].calls /\ note.out = "resolved"
  BY <1>4 DEF Msg, Outs
<1>6. msgs' = [msgs EXCEPT ![LastWrite] = note]
  BY <1>2
<1> HIDE DEF note
<1>7. /\ msgs' \in Seq(Msg) /\ Len(msgs') = Len(msgs) /\ DOMAIN msgs' = DOMAIN msgs
      /\ msgs'[LastWrite] = note
      /\ \A i \in DOMAIN msgs : i # LastWrite => msgs'[i] = msgs[i]
  BY <1>1, <1>3, <1>5, <1>6
<1>8. \A i \in DOMAIN msgs : WellCalled(msgs'[i]) /\ msgs'[i].role = msgs[i].role
  BY <1>1, <1>5, <1>7 DEF WellCalled
<1>9. LastWrite \in ThisTurn(msgs')
  <2>1. Grows(msgs, msgs')
    BY <1>1, <1>7, <1>8 DEF Grows
  <2>2. QED BY <1>1, <1>3, <1>7, <2>1, TurnGrows
<1>10. WriteSettled(msgs')
  <2>1. IsWrite(msgs'[LastWrite]) /\ msgs'[LastWrite].out = "resolved"
    BY <1>3, <1>5, <1>7 DEF IsWrite
  <2>2. QED BY <1>9, <2>1 DEF WriteSettled
<1>11. /\ run \in Execution /\ run.turn = turn /\ run.tool = "write"
       /\ run.out \in {"settled", "lost"}
  BY <1>1, <1>4 DEF Execution, Msg, ToolNames
<1> HIDE DEF run
<1>12. AgentTypeOK'
  BY <1>1, <1>2, <1>7, <1>8, <1>11 DEF AInv, AgentTypeOK, Nodes
<1>13. Dated' /\ OnlyApprovedRan'
  BY AgentAssumption, <1>1, <1>2, <1>11 DEF Dated, OnlyApprovedRan
<1>14. BatchSound' /\ ConflictSound' /\ ForceSound'
  BY <1>2 DEF BatchSound, ConflictSound, ForceSound, InBatch
<1>15. \A t : Writes(t)' = Writes(t)
  BY <1>2, <1>11 DEF Writes
<1>16. WritesSound'
  <2>1. ~Owing
    BY <1>2 DEF Owing, InBatch
  <2>2. QED BY <1>2, <1>15, <2>1, WritesKept
<1>17. SettledSound'
  <2>1. Happened(turn, {"stored", "settled", "lost"})'
    BY <1>2, <1>11 DEF Happened
  <2>2. QED BY <1>10, <2>1 DEF SettledSound
<1>18. CapturesSound'
  <2>1. \A t, outs : t # turn => Happened(t, outs)' = Happened(t, outs)
    BY <1>2, <1>11 DEF Happened
  <2>2. QED BY <1>1, <1>2, <2>1, CapturesKept
<1>19. QED BY <1>12, <1>13, <1>14, <1>16, <1>17, <1>18 DEF AInv

LEMMA GenerateFinalSound ==
    ASSUME AInv, GenerateFinal
    PROVE  AInv'
<1> DEFINE m == Assistant(NoCalls, "stub")
<1> PICK c : c = [turn |-> turn, settled |-> WriteSettled(msgs), pc |-> "queued"]
  OBVIOUS
<1>1. /\ msgs \in Seq(Msg) /\ \A i \in DOMAIN msgs : WellCalled(msgs[i])
      /\ AgentTypeOK /\ turn \in Nat /\ captures \subseteq Capture /\ SettledSound /\ CapturesSound
      /\ captured \subseteq Nat
  BY DEF AInv, AgentTypeOK
<1>2. /\ node = "generate_final" /\ node' = "idle"
      /\ msgs' = IF Reusable THEN msgs ELSE Append(msgs, m)
      /\ captures' = captures \cup {c}
      /\ UNCHANGED <<steps, force, throttled, turn, forced, excused, cleared, ran, captured, stops>>
      /\ ~force
  BY DEF GenerateFinal, AInv, ForceSound
<1>3. m \in Msg /\ m.role = "ai" /\ WellCalled(m) /\ ~Settling(m)
  <2>1. NoCalls \in SUBSET Call /\ IsFiniteSet(NoCalls) /\ "stub" \in Outs
    BY FS_EmptySet DEF NoCalls, Outs
  <2>2. QED BY <2>1, AssistantIs
<1> HIDE DEF m
<1>4. /\ msgs' \in Seq(Msg) /\ \A i \in DOMAIN msgs' : WellCalled(msgs'[i])
      /\ WriteSettled(msgs') <=> WriteSettled(msgs)
  <2>1. CASE msgs' = msgs
    BY <1>1, <2>1
  <2>2. CASE msgs' = Append(msgs, m)
    <3>1. m.role # "human"
      BY <1>3
    <3>2. QED BY <1>1, <1>3, <2>2, <3>1, OneMore
  <2>3. QED BY <1>2, <2>1, <2>2
<1>5. c \in Capture /\ c.turn = turn /\ c.pc = "queued" /\ (c.settled <=> WriteSettled(msgs))
  <2>1. WriteSettled(msgs) \in BOOLEAN
    BY Zenon DEF WriteSettled
  <2>2. c \in Capture
    BY <1>1, <2>1 DEF Capture
  <2>3. c.settled = WriteSettled(msgs)
    BY Zenon
  <2>4. QED BY <2>2, <2>3
<1>6. AgentTypeOK'
  BY <1>1, <1>2, <1>4, <1>5 DEF AgentTypeOK, Waiting
<1>7. Dated' /\ OnlyApprovedRan' /\ BatchSound' /\ ConflictSound' /\ ForceSound'
  BY <1>2, QuietHistories DEF BatchSound, ConflictSound, ForceSound, InBatch
<1>8. /\ \A t : Writes(t)' = Writes(t)
      /\ \A t, outs : Happened(t, outs)' = Happened(t, outs)
      /\ \A outs : Happened(turn, outs)' = Happened(turn, outs)
  BY <1>2, SameRuns DEF Happened
<1>9. WritesSound'
  <2>1. ~Owing
    BY <1>2 DEF Owing, InBatch
  <2>2. QED BY <1>2, <1>8, <2>1, WritesKept
<1>10. SettledSound'
  BY <1>1, <1>2, <1>4, <1>8 DEF SettledSound
<1>11. CapturesSound'
  <2>1. \A t \in Nat : Over(t) => Over(t)'
    BY <1>2 DEF Over
  <2>2. Over(c.turn)'
    BY <1>1, <1>2, <1>5 DEF Over
  <2>3. /\ c.settled => Happened(c.turn, {"stored", "settled", "lost"})
        /\ ~c.settled => ~Happened(c.turn, {"stored", "settled"})
    BY <1>1, <1>2, <1>5 DEF SettledSound
  <2>4. \A d \in captures : d.turn \in Nat
    BY <1>1 DEF Capture
  <2>5. QED BY <1>1, <1>2, <1>5, <1>8, <2>1, <2>2, <2>3, <2>4 DEF CapturesSound
<1>12. QED BY <1>6, <1>7, <1>9, <1>10, <1>11 DEF AInv
-----------------------------------------------------------------------------
(* Auto-memory's tasks leave the conversation alone.                       *)
LEMMA BesideTheRun ==
    ASSUME AInv, UNCHANGED <<state, node, turn, forced, excused, cleared, ran>>,
           stops' \in Nat, throttled' \in BOOLEAN,
           captures' \subseteq Capture, captured' \subseteq Nat, CapturesSound'
    PROVE  AInv'
<1>1. msgs' = msgs /\ steps' = steps /\ force' = force
  BY DEF state
<1>2. AgentTypeOK'
  BY <1>1 DEF AInv, AgentTypeOK
<1>3. /\ AnswerAt' = AnswerAt /\ Pending' = Pending /\ LastWrite' = LastWrite
      /\ AsksWrite(Pending)' = AsksWrite(Pending)
  BY <1>1, SameTalk
<1>4. /\ \A t : Writes(t)' = Writes(t)
      /\ Writes(turn)' = Writes(turn)
      /\ \A outs : Happened(turn, outs)' = Happened(turn, outs)
  BY SameRuns DEF Writes, Happened
<1>5. Dated' /\ OnlyApprovedRan'
  BY QuietHistories
<1>6. InBatch' = InBatch /\ Owing' = Owing
  BY <1>1, <1>3 DEF InBatch, Owing
<1>7. BatchSound'
  BY <1>1, <1>3, <1>6 DEF AInv, BatchSound
<1>8. ForceSound'
  BY <1>1, <1>3, <1>4, <1>6 DEF AInv, ForceSound
<1>9. WritesSound'
  BY <1>4, <1>6, WritesKept
<1>10. ConflictSound'
  BY <1>1, <1>3 DEF AInv, ConflictSound
<1>11. SettledSound'
  BY <1>1, <1>4 DEF AInv, SettledSound
<1>12. QED BY <1>2, <1>5, <1>7, <1>8, <1>9, <1>10, <1>11 DEF AInv

LEMMA StartCaptureSound ==
    ASSUME AInv, NEW c \in captures, StartCapture(c)
    PROVE  AInv'
<1> DEFINE d == [c EXCEPT !.pc = "extract"]
<1>1. /\ c.pc = "queued"
      /\ captures' = (captures \ {c}) \cup (IF c.settled \/ throttled THEN {} ELSE {d})
      /\ UNCHANGED <<state, node, throttled, turn, forced, excused, cleared, ran, captured, stops>>
  BY DEF StartCapture
<1>2. /\ captures \subseteq Capture /\ captured \subseteq Nat /\ CapturesSound
      /\ throttled \in BOOLEAN /\ stops \in Nat
  BY DEF AInv, AgentTypeOK
<1>3. d \in Capture /\ d.turn = c.turn /\ d.settled = c.settled
  BY <1>2 DEF Capture
<1> HIDE DEF d
<1>4. captures' \subseteq Capture
  BY <1>1, <1>2, <1>3
<1>5. \A t, outs : Happened(t, outs)' = Happened(t, outs)
  BY <1>1, SameRuns
<1>6. \A t : Over(t)' = Over(t)
  BY <1>1 DEF Over
<1>7. CapturesSound'
  <2>1. ASSUME NEW e \in captures'
        PROVE  /\ Over(e.turn)'
               /\ e.pc = "extract" => ~e.settled
               /\ IF e.settled THEN Happened(e.turn, {"stored", "settled", "lost"})'
                               ELSE ~Happened(e.turn, {"stored", "settled"})'
    <3>1. CASE e \in captures
      BY <1>2, <1>5, <1>6, <3>1 DEF CapturesSound
    <3>2. CASE e = d /\ ~c.settled
      BY <1>2, <1>3, <1>5, <1>6, <3>2 DEF CapturesSound
    <3>3. QED BY <1>1, <2>1, <3>1, <3>2
  <2>2. \A t \in captured' : Over(t)' /\ ~Happened(t, {"stored", "settled"})'
    BY <1>1, <1>2, <1>5, <1>6 DEF CapturesSound
  <2>3. QED BY <2>1, <2>2 DEF CapturesSound
<1>8. QED BY <1>1, <1>2, <1>4, <1>7, BesideTheRun

LEMMA EndCaptureSound ==
    ASSUME AInv, NEW c \in captures, NEW out \in {"stored", "conflict", "dropped"},
           EndCapture(c, out)
    PROVE  AInv'
<1>1. /\ c.pc = "extract" /\ captures' = captures \ {c}
      /\ throttled' = (throttled \/ out # "dropped")
      /\ captured' = IF out = "stored" THEN captured \cup {c.turn} ELSE captured
      /\ UNCHANGED <<state, node, turn, forced, excused, cleared, ran, stops>>
  BY DEF EndCapture, Released
<1>2. /\ captures \subseteq Capture /\ captured \subseteq Nat /\ CapturesSound
      /\ throttled \in BOOLEAN /\ stops \in Nat
  BY DEF AInv, AgentTypeOK
<1>3. captures' \subseteq Capture /\ captured' \subseteq Nat /\ throttled' \in BOOLEAN
  BY <1>1, <1>2 DEF Capture
<1>4. \A t, outs : Happened(t, outs)' = Happened(t, outs)
  BY <1>1, SameRuns
<1>5. \A t : Over(t)' = Over(t)
  BY <1>1 DEF Over
<1>6. Over(c.turn) /\ ~Happened(c.turn, {"stored", "settled"})
  BY <1>1, <1>2 DEF CapturesSound
<1>7. CapturesSound'
  BY <1>1, <1>2, <1>4, <1>5, <1>6 DEF CapturesSound
<1>8. QED BY <1>1, <1>2, <1>3, <1>7, BesideTheRun

LEMMA IntervalOverSound ==
    ASSUME AInv, IntervalOver
    PROVE  AInv'
<1>1. /\ throttled' = FALSE
      /\ UNCHANGED <<state, node, captures, turn, forced, excused, cleared, ran, captured, stops>>
  BY DEF IntervalOver
<1>2. captures \subseteq Capture /\ captured \subseteq Nat /\ stops \in Nat /\ turn \in Nat
  BY DEF AInv, AgentTypeOK
<1>3. \A t, outs : Happened(t, outs)' = Happened(t, outs)
  BY <1>1, SameRuns
<1>4. CapturesSound'
  BY <1>1, <1>2, <1>3, CapturesKept
<1>5. QED BY <1>1, <1>2, <1>4, BesideTheRun
-----------------------------------------------------------------------------
(* A run that ends inside a node excuses its turn.                         *)
LEMMA CutShort ==
    ASSUME AInv, node \in Nodes, node' = "idle", excused' = excused \cup {turn},
           NEW done \in SUBSET InFlight, ran' = ran \cup done,
           UNCHANGED <<steps, force, turn, forced, cleared, captured>>,
           msgs' \in Seq(Msg), \A i \in DOMAIN msgs' : WellCalled(msgs'[i]),
           WriteSettled(msgs') <=> WriteSettled(msgs),
           captures' \subseteq captures, throttled' \in BOOLEAN, stops' \in Nat
    PROVE  AInv'
<1>1. /\ turn \in Nat /\ excused \subseteq Nat /\ captures \subseteq Capture
      /\ Dated /\ WritesSound /\ SettledSound /\ node # "idle"
  BY DEF AInv, AgentTypeOK, Nodes
<1>2. /\ ran' \subseteq Execution /\ \A r \in ran' : r.turn <= turn
      /\ OnlyApprovedRan'
      /\ \A t : t # turn => Writes(t)' = Writes(t)
      /\ \A t, outs : (t # turn \/ node = "idle") => Happened(t, outs)' = Happened(t, outs)
      /\ \A outs : Happened(turn, outs) => Happened(turn, outs)'
      /\ \A r, s \in Writes(turn)' : r = s
      /\ Writes(turn)' # {} => turn \in forced
  BY InFlightGrow
<1>3. AgentTypeOK'
  <2>1. excused' \subseteq Nat /\ captures' \subseteq Capture
    BY <1>1
  <2>2. QED BY <1>2, <2>1 DEF AInv, AgentTypeOK, Waiting
<1>4. Dated' /\ BatchSound' /\ ConflictSound' /\ ForceSound'
  BY <1>1, <1>2 DEF Dated, BatchSound, ConflictSound, ForceSound, InBatch
<1>5. WritesSound'
  <2>1. ASSUME NEW t \in 0..turn'
        PROVE  /\ \A r, s \in Writes(t)' : r = s
               /\ Writes(t)' # {} => t \in forced'
    <3>1. CASE t # turn
      BY <1>1, <1>2, <3>1 DEF WritesSound
    <3>2. CASE t = turn
      <4>1. Writes(t)' = Writes(turn)'
        BY <3>2 DEF Writes
      <4>2. QED BY <1>2, <3>2, <4>1
    <3>3. QED BY <3>1, <3>2
  <2>2. ASSUME MaxSteps > 1, NEW t \in forced' \ excused'
        PROVE  Writes(t)' # {}
    BY <1>1, <1>2, <2>2 DEF WritesSound
  <2>3. QED BY <2>1, <2>2 DEF WritesSound
<1>6. SettledSound'
  BY <1>1, <1>2 DEF SettledSound
<1>7. CapturesSound'
  BY <1>1, <1>2, CapturesKept
<1>8. QED BY <1>2, <1>3, <1>4, <1>5, <1>6, <1>7 DEF AInv

LEMMA RunCancelledSound ==
    ASSUME AInv, NEW done \in SUBSET InFlight, RunCancelled(done)
    PROVE  AInv'
<1> DEFINE m == System("marker")
<1>1. /\ node \in Nodes /\ node' = "idle" /\ excused' = excused \cup {turn}
      /\ msgs' = Append(msgs, m) /\ ran' = ran \cup done
      /\ throttled' = (throttled \/ Stores(done)) /\ stops' = stops + 1
      /\ UNCHANGED <<steps, force, captures, turn, forced, cleared, captured>>
  BY DEF RunCancelled
<1>2. m \in Msg /\ m.role = "system" /\ WellCalled(m) /\ ~Settling(m)
  <2>1. m = [role |-> "system", calls |-> {}, call |-> NoCall, tool |-> "-", out |-> "marker"]
    BY DEF System, Message, NoCalls
  <2>2. QED BY <2>1, NoCallIs, FS_EmptySet DEF Msg, ToolNames, Outs, WellCalled, Settling, IsWrite
<1> HIDE DEF m
<1>3. AgentTypeOK /\ m.role # "human"
  BY <1>2 DEF AInv
<1>4. /\ msgs' \in Seq(Msg) /\ \A i \in DOMAIN msgs' : WellCalled(msgs'[i])
      /\ WriteSettled(msgs') <=> WriteSettled(msgs)
  BY <1>1, <1>2, <1>3, OneMore
<1>5. throttled' \in BOOLEAN /\ stops' \in Nat
  <2>1. stops \in Nat
    BY <1>3 DEF AgentTypeOK
  <2>2. Stores(done) \in BOOLEAN
    BY Zenon DEF Stores
  <2>3. throttled' \in BOOLEAN
    BY <1>1, Zenon
  <2>4. QED BY <1>1, <2>1, <2>3
<1>6. QED BY <1>1, <1>4, <1>5, CutShort

LEMMA CrashSound ==
    ASSUME AInv, NEW done \in SUBSET InFlight, Crash(done)
    PROVE  AInv'
<1>1. /\ ran' = ran \cup done
      /\ node' = IF node \in Nodes THEN "idle" ELSE node
      /\ excused' = IF node \in Nodes THEN excused \cup {turn} ELSE excused
      /\ captures' = {} /\ throttled' = FALSE /\ stops' = stops + 1
      /\ UNCHANGED <<msgs, steps, force, turn, forced, cleared, captured>>
  BY DEF Crash, state
<1>2. /\ msgs \in Seq(Msg) /\ \A i \in DOMAIN msgs : WellCalled(msgs[i])
      /\ stops' \in Nat /\ turn \in Nat /\ captured \subseteq Nat
  BY <1>1 DEF AInv, AgentTypeOK
<1>3. CASE node \in Nodes
  BY <1>1, <1>2, <1>3, CutShort
<1>4. CASE node \notin Nodes
  <2>1. node # "tools"
    BY <1>4 DEF Nodes
  <2>2. ran' = ran
    BY <1>1, <2>1, InFlightGrow
  <2>3. UNCHANGED <<state, node, turn, forced, excused, cleared, ran>>
    BY <1>1, <1>4, <2>2 DEF state
  <2>4. \A t, outs : Happened(t, outs)' = Happened(t, outs)
    BY <2>2, SameRuns
  <2>5. CapturesSound'
    BY <1>1, <1>2, <2>3, <2>4, CapturesKept
  <2>6. QED BY <1>1, <1>2, <2>3, <2>5, BesideTheRun
<1>5. QED BY <1>3, <1>4

LEMMA StandsStill == ASSUME AInv, UNCHANGED vars PROVE AInv'
<1>1. /\ UNCHANGED <<state, node, turn, forced, excused, cleared, ran>>
      /\ UNCHANGED <<captures, captured, throttled, stops>>
  BY DEF vars
<1>2. /\ captures' \subseteq Capture /\ captured' \subseteq Nat
      /\ throttled' \in BOOLEAN /\ stops' \in Nat /\ turn' \in Nat /\ turn <= turn'
  BY <1>1 DEF AInv, AgentTypeOK
<1>3. \A t, outs : Happened(t, outs)' = Happened(t, outs)
  BY <1>1, SameRuns
<1>4. CapturesSound'
  BY <1>1, <1>2, <1>3, CapturesKept
<1>5. QED BY <1>1, <1>2, <1>4, BesideTheRun

LEMMA StepSound == AInv /\ [Next]_vars => AInv'
<1> SUFFICES ASSUME AInv, [Next]_vars PROVE AInv'
  OBVIOUS
<1>1. CASE \E f \in BOOLEAN : NewMessage(f)
  BY <1>1, NewMessageSound
<1>2. CASE NodeStep
  <2>1. CASE \E answer \in Answers : CallLLM(answer)
    BY <2>1, CallLLMSound
  <2>2. CASE CallLLMFails
    BY <2>2, CallLLMFailsSound
  <2>3. CASE CheckApproval
    BY <2>3, CheckApprovalSound
  <2>4. CASE \E write \in {"stored", "conflict", "error"} : Tools(write)
    BY <2>4, ToolsSound
  <2>5. CASE CheckConflict
    BY <2>5, CheckConflictSound
  <2>6. CASE \E resolution \in {"settled", "lost"} : ConflictResolved(resolution)
    BY <2>6, ConflictResolvedSound
  <2>7. CASE GenerateFinal
    BY <2>7, GenerateFinalSound
  <2>8. QED BY <1>2, <2>1, <2>2, <2>3, <2>4, <2>5, <2>6, <2>7 DEF NodeStep
<1>3. CASE \E v \in Verdicts : ResumeApproval(v)
  BY <1>3, ResumeApprovalSound
<1>4. CASE ResumeConflict
  BY <1>4, ResumeConflictSound
<1>5. CASE CaptureStep
  BY <1>5, StartCaptureSound, EndCaptureSound DEF CaptureStep
<1>6. CASE IntervalOver
  BY <1>6, IntervalOverSound
<1>7. CASE \E done \in SUBSET InFlight : RunCancelled(done)
  BY <1>7, RunCancelledSound
<1>8. CASE \E done \in SUBSET InFlight : Crash(done)
  BY <1>8, CrashSound
<1>9. CASE UNCHANGED vars
  BY <1>9, StandsStill
<1>10. QED BY <1>1, <1>2, <1>3, <1>4, <1>5, <1>6, <1>7, <1>8, <1>9 DEF Next

LEMMA AgentInvariant == Spec => []AInv
<1>1. Init => AInv
  BY InitSound
<1>2. AInv /\ [Next]_vars => AInv'
  BY StepSound
<1>3. QED BY <1>1, <1>2, PTL DEF Spec
-----------------------------------------------------------------------------
(* The conversation, its position and the histories always have their      *)
(* types: no verdict, cancelled run or crash leaves a message malformed.   *)
THEOREM AgentTypeCorrect == Spec => []AgentTypeOK
<1>1. AInv => AgentTypeOK
  BY DEF AInv
<1>2. QED BY <1>1, AgentInvariant, PTL

(* Whatever the model asks for and however verdicts, new messages,         *)
(* timeouts and crashes come between, a gated tool ran only on a call that *)
(* a human approved, or that a verdict approving all it named left unnamed *)
(* (check_approval_node, resume_graph).                                    *)
THEOREM OnlyApprovedAlwaysRan == Spec => []OnlyApprovedRan
<1>1. AInv => OnlyApprovedRan
  BY DEF AInv
<1>2. QED BY <1>1, AgentInvariant, PTL

(* A ticked checkbox makes at most one write, in its own turn, and exactly *)
(* one if nothing cut the turn short and a run has a step after the        *)
(* answer (call_llm_node's forced call).                                   *)
THEOREM ForcedAlwaysHandled == Spec => []ForcedHandled
<1>1. AInv => ForcedHandled
  <2> SUFFICES ASSUME AInv, NEW t \in 1..turn
               PROVE  /\ Cardinality(Writes(t)) <= (IF t \in forced THEN 1 ELSE 0)
                      /\ t \in forced \ excused /\ TurnOver(t) /\ MaxSteps > 1 => Writes(t) # {}
    BY DEF ForcedHandled
  <2>1. WritesSound /\ ForceSound /\ turn \in Nat /\ t \in 0..turn
    BY DEF AInv, AgentTypeOK
  <2>2. CASE Writes(t) = {}
    <3>1. Cardinality(Writes(t)) = 0
      BY <2>2, FS_EmptySet
    <3>2. t \in forced \ excused /\ TurnOver(t) /\ MaxSteps > 1 => FALSE
      BY <2>1, <2>2 DEF WritesSound, TurnOver, Owing, InBatch
    <3>3. QED BY <3>1, <3>2
  <2>3. CASE Writes(t) # {}
    <3>1. PICK r \in Writes(t) : TRUE
      BY <2>3
    <3>2. t \in forced /\ Writes(t) = {r}
      BY <2>1, <2>3, <3>1 DEF WritesSound
    <3>3. Cardinality(Writes(t)) = 1
      BY <3>2, FS_Singleton
    <3>4. QED BY <2>3, <3>2, <3>3
  <2>4. QED BY <2>2, <2>3
<1>2. QED BY <1>1, AgentInvariant, PTL

(* Auto-memory stores no turn whose write stored or whose conflict the     *)
(* human settled, whatever order tasks, turns and crashes take, and stands *)
(* down only for a turn that had such a write (_maybe_auto_remember).      *)
THEOREM CapturesAlwaysComplement == Spec => []CaptureComplements
<1>1. AInv => CaptureComplements
  BY DEF AInv, CapturesSound, CaptureComplements, Happened
<1>2. QED BY <1>1, AgentInvariant, PTL

-----------------------------------------------------------------------------
(* What a provider can be sent of a conversation: every result follows the *)
(* message that asked for it, with results alone in between, and no call   *)
(* has two.                                                                *)
OnlyTools(s, o, j) == \A k \in (o + 1)..j : s[k].role = "tool"
Woven(s) ==
    /\ \A i \in DOMAIN s :
         /\ WellCalled(s[i]) /\ (IsErrorStub(s[i]) => s[i].calls = {})
         /\ \A c, d \in s[i].calls : c.id = d.id => c = d
    /\ \A i, j \in DOMAIN s :
         s[j].role = "tool" /\ s[j].call \in Ids(s[i].calls) => i < j /\ OnlyTools(s, i, j)
    /\ \A j, k \in DOMAIN s :
         s[j].role = "tool" /\ s[k].role = "tool" /\ s[j].call = s[k].call => j = k

(* Some messages of a conversation in their order, behind system messages. *)
Draws(t, s) ==
    \E pos \in [1..Len(t) -> 0..Len(s)] :
        \A k \in 1..Len(t) :
            /\ pos[k] = 0 => t[k].role = "system" /\ t[k].calls = {}
            /\ pos[k] # 0 => t[k] = s[pos[k]]
            /\ \A m \in 1..Len(t) : k < m /\ pos[k] # 0 => pos[k] < pos[m]

LEMMA DrawsItself == ASSUME NEW s \in Seq(Msg) PROVE Draws(s, s)
<1> DEFINE pos == [k \in 1..Len(s) |-> k]
<1>1. pos \in [1..Len(s) -> 0..Len(s)] /\ \A k \in 1..Len(s) : pos[k] = k
  OBVIOUS
<1> HIDE DEF pos
<1>2. \A k \in 1..Len(s) : pos[k] # 0 /\ s[k] = s[pos[k]]
  BY <1>1
<1>3. \A k, m \in 1..Len(s) : k < m => pos[k] < pos[m]
  BY <1>1
<1>4. QED BY <1>1, <1>2, <1>3 DEF Draws

LEMMA DrawsOn ==
    ASSUME NEW r \in Seq(Msg), NEW s \in Seq(Msg), NEW t \in Seq(Msg), Draws(t, s), Draws(s, r)
    PROVE  Draws(t, r)
<1>1. PICK p \in [1..Len(t) -> 0..Len(s)] :
        \A k \in 1..Len(t) :
            /\ p[k] = 0 => t[k].role = "system" /\ t[k].calls = {}
            /\ p[k] # 0 => t[k] = s[p[k]]
            /\ \A m \in 1..Len(t) : k < m /\ p[k] # 0 => p[k] < p[m]
  BY DEF Draws
<1>2. PICK q \in [1..Len(s) -> 0..Len(r)] :
        \A k \in 1..Len(s) :
            /\ q[k] = 0 => s[k].role = "system" /\ s[k].calls = {}
            /\ q[k] # 0 => s[k] = r[q[k]]
            /\ \A m \in 1..Len(s) : k < m /\ q[k] # 0 => q[k] < q[m]
  BY DEF Draws
<1> DEFINE pos == [k \in 1..Len(t) |-> IF p[k] = 0 THEN 0 ELSE q[p[k]]]
<1>3. Len(t) \in Nat /\ Len(s) \in Nat /\ Len(r) \in Nat
  OBVIOUS
<1>4. ASSUME NEW k \in 1..Len(t), p[k] # 0 PROVE p[k] \in 1..Len(s)
  <2>1. p[k] \in 0..Len(s)
    BY <1>1
  <2>2. QED BY <1>3, <1>4, <2>1
<1>5. pos \in [1..Len(t) -> 0..Len(r)]
  <2> SUFFICES \A k \in 1..Len(t) : (IF p[k] = 0 THEN 0 ELSE q[p[k]]) \in 0..Len(r)
    BY Zenon
  <2>1. 0 \in 0..Len(r)
    BY <1>3
  <2>2. QED
    <3>1. ASSUME NEW k \in 1..Len(t), p[k] # 0 PROVE q[p[k]] \in 0..Len(r)
      <4>1. p[k] \in 1..Len(s)
        BY <1>4, <3>1
      <4>2. QED BY <1>2, <4>1
    <3>2. QED BY <2>1, <3>1
<1>6. \A k \in 1..Len(t) : pos[k] = IF p[k] = 0 THEN 0 ELSE q[p[k]]
  OBVIOUS
<1> HIDE DEF pos
<1>7. ASSUME NEW k \in 1..Len(t)
      PROVE  /\ pos[k] = 0 => t[k].role = "system" /\ t[k].calls = {}
             /\ pos[k] # 0 => t[k] = r[pos[k]]
  BY <1>1, <1>2, <1>4, <1>6
<1>8. ASSUME NEW k \in 1..Len(t), NEW m \in 1..Len(t), k < m, pos[k] # 0
      PROVE  pos[k] < pos[m]
  <2>1. p[k] # 0 /\ p[k] < p[m] /\ p[k] \in 1..Len(s) /\ p[m] # 0 /\ p[m] \in 1..Len(s)
    BY <1>1, <1>3, <1>4, <1>6, <1>8
  <2>2. pos[k] = q[p[k]] /\ pos[m] = q[p[m]]
    BY <1>6, <2>1
  <2>3. QED BY <1>2, <1>8, <2>1, <2>2
<1>9. QED BY <1>5, <1>7, <1>8 DEF Draws

LEMMA DrawsChosen ==
    ASSUME NEW s \in Seq(Msg), NEW keep
    PROVE  Chosen(s, keep) \in Seq(Msg) /\ Draws(Chosen(s, keep), s)
<1> DEFINE t == Chosen(s, keep)
<1>1. t \in Seq(Msg) /\ Selects(t, s, keep, Len(s)) /\ Len(s) \in Nat
  BY ChosenSelects
<1> HIDE DEF t
<1>2. PICK pos \in [1..Len(t) -> 1..Len(s)] :
        /\ \A i \in 1..Len(t) : pos[i] \in keep /\ t[i] = s[pos[i]]
        /\ \A i, j \in 1..Len(t) : i < j => pos[i] < pos[j]
  BY <1>1 DEF Selects
<1>3. \A k \in 1..Len(t) : pos[k] \in 0..Len(s) /\ pos[k] # 0
  BY <1>1, <1>2
<1>4. pos \in [1..Len(t) -> 0..Len(s)]
  BY <1>2, <1>3
<1>5. QED BY <1>1, <1>2, <1>3, <1>4 DEF Draws, t

(* The last messages, in terms of their places.                            *)
LEMMA LastIs ==
    ASSUME NEW s \in Seq(Msg), NEW n \in Nat \ {0}
    PROVE  /\ LastN(s, n) \in Seq(Msg)
           /\ Len(LastN(s, n)) = IF n < Len(s) THEN n ELSE Len(s)
           /\ \A k \in 1..Len(LastN(s, n)) :
                LastN(s, n)[k] = s[(Len(s) - Len(LastN(s, n))) + k]
<1> DEFINE len == Len(s)
           from == IF n < len THEN len - n + 1 ELSE 1
           t == LastN(s, n)
<1>1. len \in Nat /\ from \in 1..(len + 1) /\ \A i \in 1..len : s[i] \in Msg
  OBVIOUS
<1>2. t = SubSeq(s, from, len)
  BY DEF LastN
<1> HIDE DEF t, from
<1>3. /\ t \in Seq(Msg) /\ Len(t) = IF from <= len THEN len - from + 1 ELSE 0
      /\ \A k \in 1..(len - from + 1) : t[k] = s[from + k - 1]
  <2>1. from \in Int /\ len \in Int /\ \A k \in from..len : s[k] \in Msg
    BY <1>1
  <2>2. QED BY <1>2, <2>1, SubSeqProperties
<1> HIDE DEF len
<1>4. t \in Seq(Msg) /\ Len(t) = len - from + 1
        /\ \A k \in 1..Len(t) : t[k] = s[from + k - 1]
  BY <1>1, <1>3
<1>5. len - from + 1 = (IF n < len THEN n ELSE len) /\ \A k \in 1..Len(t) : from + k - 1 = (len - Len(t)) + k
  BY <1>1, <1>4 DEF from
<1>6. QED BY <1>4, <1>5 DEF t, len

LEMMA DrawsLast ==
    ASSUME NEW s \in Seq(Msg), NEW n \in Nat \ {0}
    PROVE  LastN(s, n) \in Seq(Msg) /\ Draws(LastN(s, n), s)
<1> DEFINE t == LastN(s, n)
           gap == Len(s) - Len(t)
           pos == [k \in 1..Len(t) |-> gap + k]
<1>1. /\ t \in Seq(Msg) /\ Len(s) \in Nat /\ Len(t) \in Nat /\ gap \in Nat
      /\ \A k \in 1..Len(t) : t[k] = s[gap + k]
  BY LastIs
<1> HIDE DEF t
<1>2. pos \in [1..Len(t) -> 0..Len(s)] /\ \A k \in 1..Len(t) : pos[k] = gap + k
  BY <1>1
<1> HIDE DEF gap, pos
<1>3. \A k \in 1..Len(t) : pos[k] # 0 /\ t[k] = s[pos[k]]
  BY <1>1, <1>2
<1>4. \A k, m \in 1..Len(t) : k < m => pos[k] < pos[m]
  BY <1>1, <1>2
<1>5. QED BY <1>1, <1>2, <1>3, <1>4 DEF Draws, t

AllSystem(q) == \A i \in DOMAIN q : q[i].role = "system" /\ q[i].calls = {}

LEMMA DrawsBehind ==
    ASSUME NEW s \in Seq(Msg), NEW t \in Seq(Msg), Draws(t, s), NEW q \in Seq(Msg), AllSystem(q)
    PROVE  q \o t \in Seq(Msg) /\ Draws(q \o t, s)
<1>1. PICK p \in [1..Len(t) -> 0..Len(s)] :
        \A k \in 1..Len(t) :
            /\ p[k] = 0 => t[k].role = "system" /\ t[k].calls = {}
            /\ p[k] # 0 => t[k] = s[p[k]]
            /\ \A m \in 1..Len(t) : k < m /\ p[k] # 0 => p[k] < p[m]
  BY DEF Draws
<1> DEFINE u == q \o t
           n == Len(q)
           pos == [k \in 1..Len(u) |-> IF k <= n THEN 0 ELSE p[k - n]]
<1>2. /\ u \in Seq(Msg) /\ Len(u) = n + Len(t) /\ n \in Nat /\ Len(t) \in Nat /\ Len(s) \in Nat
      /\ \A k \in 1..n : u[k] = q[k]
      /\ \A k \in 1..Len(t) : u[n + k] = t[k]
  OBVIOUS
<1>3. \A k \in 1..n : q[k].role = "system" /\ q[k].calls = {}
  BY DEF AllSystem
<1> HIDE DEF u, n
<1>4. \A k \in 1..Len(u) : k <= n \/ (k - n \in 1..Len(t) /\ k = n + (k - n))
  BY <1>2
<1>5. pos \in [1..Len(u) -> 0..Len(s)]
  BY <1>2, <1>4
<1>6. \A k \in 1..Len(u) : pos[k] = IF k <= n THEN 0 ELSE p[k - n]
  OBVIOUS
<1> HIDE DEF pos
<1>7. ASSUME NEW k \in 1..Len(u)
      PROVE  /\ pos[k] = 0 => u[k].role = "system" /\ u[k].calls = {}
             /\ pos[k] # 0 => u[k] = s[pos[k]]
  <2>1. CASE k <= n
    <3>1. pos[k] = 0 /\ k \in 1..n
      BY <1>2, <1>6, <2>1
    <3>2. QED BY <1>2, <1>3, <3>1
  <2>2. CASE ~(k <= n)
    <3>1. k - n \in 1..Len(t) /\ u[k] = t[k - n] /\ pos[k] = p[k - n]
      BY <1>2, <1>4, <1>6, <2>2
    <3>2. QED BY <1>1, <3>1
  <2>3. QED BY <2>1, <2>2
<1>8. ASSUME NEW k \in 1..Len(u), NEW m \in 1..Len(u), k < m, pos[k] # 0
      PROVE  pos[k] < pos[m]
  <2>1. ~(k <= n) /\ ~(m <= n)
    BY <1>2, <1>6, <1>8
  <2>2. k - n \in 1..Len(t) /\ m - n \in 1..Len(t) /\ pos[k] = p[k - n] /\ pos[m] = p[m - n]
        /\ k - n < m - n
    BY <1>2, <1>4, <1>6, <1>8, <2>1
  <2>3. p[k - n] # 0
    BY <1>8, <2>2
  <2>4. p[k - n] < p[m - n]
    BY <1>1, <2>2, <2>3
  <2>5. QED BY <2>2, <2>4
<1>9. Draws(u, s)
  BY <1>5, <1>7, <1>8 DEF Draws
<1>10. QED BY <1>2, <1>9 DEF u

LEMMA WovenDrawn ==
    ASSUME NEW s \in Seq(Msg), NEW t \in Seq(Msg), Draws(t, s), Woven(s)
    PROVE  Woven(t)
<1>1. PICK p \in [1..Len(t) -> 0..Len(s)] :
        \A k \in 1..Len(t) :
            /\ p[k] = 0 => t[k].role = "system" /\ t[k].calls = {}
            /\ p[k] # 0 => t[k] = s[p[k]]
            /\ \A m \in 1..Len(t) : k < m /\ p[k] # 0 => p[k] < p[m]
  BY DEF Draws
<1>2. DOMAIN t = 1..Len(t) /\ DOMAIN s = 1..Len(s) /\ Len(t) \in Nat /\ Len(s) \in Nat
  OBVIOUS
<1>3. \A k \in 1..Len(t) : p[k] # 0 => p[k] \in 1..Len(s)
  BY <1>2
<1>4. ASSUME NEW i \in DOMAIN t
      PROVE  /\ WellCalled(t[i]) /\ (IsErrorStub(t[i]) => t[i].calls = {})
             /\ \A c, d \in t[i].calls : c.id = d.id => c = d
  <2>1. CASE p[i] = 0
    BY <1>1, <1>2, <2>1, FS_EmptySet DEF WellCalled, IsErrorStub
  <2>2. CASE p[i] # 0
    BY <1>1, <1>2, <1>3, <2>2 DEF Woven
  <2>3. QED BY <2>1, <2>2
<1>5. \A i, j \in DOMAIN t : i < j /\ p[i] # 0 => p[i] < p[j]
  BY <1>1, <1>2
<1>6. ASSUME NEW i \in DOMAIN t, NEW j \in DOMAIN t,
             t[j].role = "tool", t[j].call \in Ids(t[i].calls)
      PROVE  i < j /\ OnlyTools(t, i, j)
  <2>1. p[i] # 0 /\ p[j] # 0
    BY <1>1, <1>2, <1>6 DEF Ids
  <2>2. p[i] \in 1..Len(s) /\ p[j] \in 1..Len(s) /\ t[i] = s[p[i]] /\ t[j] = s[p[j]]
    BY <1>1, <1>2, <1>3, <2>1
  <2>3. p[i] < p[j] /\ OnlyTools(s, p[i], p[j])
    BY <1>2, <1>6, <2>2 DEF Woven
  <2>4. i < j
    BY <1>2, <1>5, <2>1, <2>2, <2>3
  <2>5. ASSUME NEW k \in (i + 1)..j PROVE t[k].role = "tool"
    <3>1. k \in DOMAIN t /\ i < k /\ (k < j \/ k = j)
      BY <1>2, <2>5
    <3>2. p[i] < p[k] /\ p[k] \in 0..Len(s)
      BY <1>2, <1>5, <2>1, <3>1
    <3>3. p[k] # 0
      BY <2>2, <3>2
    <3>4. p[k] <= p[j]
      BY <1>2, <1>5, <3>1, <3>2, <3>3, <2>2
    <3>5. p[k] \in (p[i] + 1)..p[j] /\ t[k] = s[p[k]]
      BY <1>1, <1>2, <2>2, <3>1, <3>2, <3>3, <3>4
    <3>6. QED BY <2>3, <3>5 DEF OnlyTools
  <2>6. QED BY <2>4, <2>5 DEF OnlyTools
<1>7. ASSUME NEW j \in DOMAIN t, NEW k \in DOMAIN t,
             t[j].role = "tool", t[k].role = "tool", t[j].call = t[k].call
      PROVE  j = k
  <2>1. p[j] # 0 /\ p[k] # 0
    BY <1>1, <1>2, <1>7
  <2>2. p[j] \in 1..Len(s) /\ p[k] \in 1..Len(s) /\ t[j] = s[p[j]] /\ t[k] = s[p[k]]
    BY <1>1, <1>2, <1>3, <2>1
  <2>3. p[j] = p[k]
    BY <1>2, <1>7, <2>2 DEF Woven
  <2>4. ~(j < k) /\ ~(k < j)
    BY <1>5, <2>1, <2>2, <2>3
  <2>5. QED BY <1>2, <2>4
<1>8. QED BY <1>4, <1>6, <1>7 DEF Woven
-----------------------------------------------------------------------------
(* What a provider is sent of a woven conversation is well formed.         *)
LEMMA AsMany ==
    ASSUME NEW S, NEW T, IsFiniteSet(S), NEW f, \A x \in S : f[x] \in T,
           \A x, y \in S : f[x] = f[y] => x = y,
           \A z \in T : \E x \in S : f[x] = z
    PROVE  IsFiniteSet(T) /\ Cardinality(T) = Cardinality(S)
<1> DEFINE g == [x \in S |-> f[x]]
<1>1. g \in [S -> T] /\ \A x \in S : g[x] = f[x]
  OBVIOUS
<1> HIDE DEF g
<1>2. g \in Bijection(S, T)
  BY <1>1 DEF Bijection, Injection, Surjection, IsInjective
<1>3. ExistsBijection(S, T)
  BY <1>2, Zenon DEF ExistsBijection
<1>4. QED BY <1>3, FS_Bijection

LEMMA CallsAndIds ==
    ASSUME NEW calls, IsFiniteSet(calls), \A c, d \in calls : c.id = d.id => c = d
    PROVE  IsFiniteSet(Ids(calls)) /\ Cardinality(Ids(calls)) = Cardinality(calls)
<1> DEFINE f == [c \in calls |-> c.id]
<1>1. /\ \A c \in calls : f[c] \in Ids(calls)
      /\ \A c, d \in calls : f[c] = f[d] => c = d
      /\ \A z \in Ids(calls) : \E c \in calls : f[c] = z
  BY Zenon DEF Ids
<1> HIDE DEF f
<1>2. QED BY <1>1, AsMany

Owns(s, o, j) == s[j].call \in Ids(Answered(s[o], s))
KeptPlaces(s) ==
    {i \in DOMAIN s :
        /\ ~IsErrorStub(s[i])
        /\ s[i].role = "tool" => \E o \in 1..(i - 1) : ~IsErrorStub(s[o]) /\ Owns(s, o, i)}

(* The messages kept, with their places and without unanswered calls.      *)
Keeps(d, s, pos) ==
    /\ d \in Seq(Msg) /\ Len(d) \in Nat /\ Increases(pos, Len(d))
    /\ \A k \in 1..Len(d) :
         /\ pos[k] \in KeptPlaces(s) /\ d[k].calls = Answered(s[pos[k]], s)
         /\ d[k].role = s[pos[k]].role /\ d[k].call = s[pos[k]].call
    /\ \A i \in KeptPlaces(s) : \E k \in 1..Len(d) : pos[k] = i

LEMMA DictsAre ==
    ASSUME NEW s \in Seq(Msg), NEW d, d = Dicts(s)
    PROVE  \E pos \in [1..Len(d) -> 1..Len(s)] : Keeps(d, s, pos)
<1> DEFINE emitted(i) ==
             UNION {Ids(Answered(s[j], s)) : j \in {k \in 1..(i - 1) : ~IsErrorStub(s[k])}}
           keep == {i \in DOMAIN s : ~IsErrorStub(s[i]) /\ (s[i].role = "tool" => s[i].call \in emitted(i))}
           pos == Places(s, keep)
<1>1. d = [k \in DOMAIN pos |-> [s[pos[k]] EXCEPT !.calls = Answered(s[pos[k]], s)]]
  BY DEF Dicts
<1>2. ASSUME NEW i \in DOMAIN s
      PROVE  s[i].call \in emitted(i) <=> \E o \in 1..(i - 1) : ~IsErrorStub(s[o]) /\ Owns(s, o, i)
  BY DEF Owns
<1>3. keep = KeptPlaces(s)
  BY <1>2, Zenon DEF KeptPlaces
<1> HIDE DEF keep
<1>4. /\ pos \in Seq(1..Len(s)) /\ Len(pos) \in Nat /\ Increases(pos, Len(pos))
      /\ \A i \in 1..Len(pos) : pos[i] \in keep /\ pos[i] \in 1..Len(s)
      /\ \A m \in 1..Len(s) : m \in keep => \E i \in 1..Len(pos) : pos[i] = m
  BY PlacesSelect
<1> HIDE DEF pos
<1>5. DOMAIN pos = 1..Len(pos) /\ pos \in [1..Len(pos) -> 1..Len(s)]
  BY <1>4
<1>6. ASSUME NEW k \in 1..Len(pos)
      PROVE  /\ d[k] \in Msg /\ d[k].calls = Answered(s[pos[k]], s)
             /\ d[k].role = s[pos[k]].role /\ d[k].call = s[pos[k]].call
  <2>1. s[pos[k]] \in Msg /\ d[k] = [s[pos[k]] EXCEPT !.calls = Answered(s[pos[k]], s)]
    BY <1>1, <1>4, <1>5
  <2>2. Answered(s[pos[k]], s) \subseteq s[pos[k]].calls
    BY DEF Answered, Only
  <2>3. QED BY <2>1, <2>2 DEF Msg
<1>7. d \in [1..Len(pos) -> Msg]
  BY <1>1, <1>5, <1>6
<1> DEFINE n == Len(pos)
<1>8. n \in Nat /\ d \in [1..n -> Msg]
  BY <1>4, <1>7
<1> HIDE DEF n
<1>9. d \in Seq(Msg) /\ Len(d) = n
  BY <1>8
<1>10. \A i \in KeptPlaces(s) : i \in 1..Len(s)
  BY DEF KeptPlaces
<1>11. \A i \in KeptPlaces(s) : \E k \in 1..n : pos[k] = i
  BY <1>3, <1>4, <1>10 DEF n
<1>12. /\ pos \in [1..Len(d) -> 1..Len(s)]
       /\ d \in Seq(Msg) /\ Len(d) \in Nat /\ Increases(pos, Len(d))
       /\ \A k \in 1..Len(d) : pos[k] \in KeptPlaces(s)
  BY <1>3, <1>4, <1>5, <1>8, <1>9 DEF n
<1>13. \A k \in 1..Len(d) : /\ d[k].calls = Answered(s[pos[k]], s)
                            /\ d[k].role = s[pos[k]].role /\ d[k].call = s[pos[k]].call
  BY <1>6, <1>9 DEF n
<1>14. Keeps(d, s, pos)
  BY <1>9, <1>11, <1>12, <1>13, Zenon DEF Keeps
<1>15. QED BY <1>12, <1>14, Zenon

(* The owner of a result is the only message with calls since.             *)
LEMMA OneOwner ==
    ASSUME NEW s \in Seq(Msg), Woven(s), NEW j \in DOMAIN s, s[j].role = "tool",
           NEW o \in DOMAIN s, NEW p \in DOMAIN s, o < j, OnlyTools(s, o, j), s[o].role # "tool",
           s[j].call \in Ids(s[p].calls)
    PROVE  p = o
<1>1. p < j /\ OnlyTools(s, p, j) /\ s[p].role # "tool"
  <2>1. s[p].calls # {}
    BY DEF Ids
  <2>2. QED BY <2>1 DEF Woven, WellCalled
<1>2. ~(p < o)
  <2> SUFFICES ASSUME p < o PROVE FALSE
    OBVIOUS
  <2>1. o \in (p + 1)..j
    OBVIOUS
  <2>2. QED BY <1>1, <2>1 DEF OnlyTools
<1>3. ~(o < p)
  <2> SUFFICES ASSUME o < p PROVE FALSE
    OBVIOUS
  <2>1. p \in (o + 1)..j
    BY <1>1
  <2>2. QED BY <1>1, <2>1 DEF OnlyTools
<1>4. QED BY <1>2, <1>3

LEMMA AnsweredIn == \A m, s : Answered(m, s) \subseteq m.calls /\ Ids(Answered(m, s)) \subseteq Ids(m.calls)
BY DEF Answered, Only, Ids

LEMMA DictsWellFormed ==
    ASSUME NEW s \in Seq(Msg), Woven(s)
    PROVE  /\ WellFormed(Dicts(s)) /\ Dicts(s) \in Seq(Msg)
           /\ \A i \in DOMAIN Dicts(s) : WellCalled(Dicts(s)[i])
<1>1. PICK d : d = Dicts(s)
  OBVIOUS
<1>0. PICK pos \in [1..Len(d) -> 1..Len(s)] : Keeps(d, s, pos)
  BY <1>1, DictsAre
<1>2. /\ pos \in [1..Len(d) -> 1..Len(s)]
      /\ d \in Seq(Msg) /\ Len(d) \in Nat /\ Increases(pos, Len(d))
      /\ \A k \in 1..Len(d) :
           /\ pos[k] \in KeptPlaces(s) /\ d[k].calls = Answered(s[pos[k]], s)
           /\ d[k].role = s[pos[k]].role /\ d[k].call = s[pos[k]].call
      /\ \A i \in KeptPlaces(s) : \E k \in 1..Len(d) : pos[k] = i
  BY <1>0 DEF Keeps
<1> DEFINE len == Len(d)
<1>3. /\ DOMAIN d = 1..len /\ len \in Nat /\ DOMAIN s = 1..Len(s) /\ Len(s) \in Nat
      /\ \A k \in 1..len : pos[k] \in DOMAIN s
  BY <1>2
<1> HIDE DEF len
<1>4. \A i, j \in 1..len : pos[i] < pos[j] => i < j
  <2> SUFFICES ASSUME NEW i \in 1..len, NEW j \in 1..len, pos[i] < pos[j], ~(i < j) PROVE FALSE
    OBVIOUS
  <2>1. j < i \/ i = j
    BY <1>3
  <2>2. pos[j] < pos[i] \/ pos[i] = pos[j]
    BY <1>2, <2>1 DEF Increases, len
  <2>3. QED BY <1>3, <2>2
<1>5. ASSUME NEW i \in 1..len, d[i].role = "tool"
      PROVE  \E o \in 1..len :
               o < i /\ ~IsErrorStub(s[pos[o]]) /\ d[i].call \in Ids(d[o].calls)
  <2>1. PICK q \in 1..(pos[i] - 1) : ~IsErrorStub(s[q]) /\ Owns(s, q, pos[i])
    BY <1>2, <1>5 DEF KeptPlaces, len
  <2>2. q \in DOMAIN s /\ q < pos[i]
    BY <1>3, <2>1
  <2>3. Ids(Answered(s[q], s)) # {}
    BY <2>1 DEF Owns
  <2>4. s[q].calls # {}
    BY <2>3, AnsweredIn DEF Ids
  <2>5. s[q].role = "ai"
    BY <2>2, <2>4 DEF Woven, WellCalled
  <2>6. q \in KeptPlaces(s)
    BY <2>1, <2>2, <2>5 DEF KeptPlaces
  <2>7. PICK o \in 1..len : pos[o] = q
    BY <1>2, <2>6 DEF len
  <2>8. o < i
    BY <1>4, <2>2, <2>7
  <2>9. d[i].call \in Ids(d[o].calls)
    BY <1>2, <2>1, <2>7 DEF Owns, len
  <2>10. QED BY <2>1, <2>7, <2>8, <2>9
<1>6. ASSUME NEW i \in 1..len, NEW o \in 1..len, d[i].role = "tool", d[i].call \in Ids(d[o].calls)
      PROVE  /\ o < i /\ pos[o] < pos[i] /\ OnlyTools(s, pos[o], pos[i])
             /\ s[pos[i]].call \in Ids(s[pos[o]].calls)
             /\ \A k \in (o + 1)..i : d[k].role = "tool"
  <2>1. s[pos[i]].role = "tool" /\ s[pos[i]].call \in Ids(s[pos[o]].calls)
    <3>1. s[pos[i]].call \in Ids(Answered(s[pos[o]], s)) /\ s[pos[i]].role = "tool"
      BY <1>2, <1>6 DEF len
    <3>2. QED BY <3>1, AnsweredIn
  <2>2. pos[o] < pos[i] /\ OnlyTools(s, pos[o], pos[i])
    BY <1>3, <2>1 DEF Woven
  <2>3. o < i
    BY <1>4, <2>2
  <2>4. ASSUME NEW k \in (o + 1)..i PROVE d[k].role = "tool"
    <3>1. k \in 1..len /\ o < k /\ (k < i \/ k = i)
      BY <1>3, <2>4
    <3>2. pos[o] < pos[k] /\ (pos[k] < pos[i] \/ pos[k] = pos[i])
      BY <1>2, <3>1 DEF Increases, len
    <3>3. pos[k] \in (pos[o] + 1)..pos[i]
      BY <1>3, <3>1, <3>2
    <3>4. s[pos[k]].role = "tool"
      BY <2>2, <3>3 DEF OnlyTools
    <3>5. QED BY <1>2, <3>1, <3>4 DEF len
  <2>5. QED BY <2>1, <2>2, <2>3, <2>4
<1>7. ASSUME NEW i \in 1..len, d[i].role = "tool"
      PROVE  \E j \in 1..(i - 1) : /\ d[i].call \in Ids(d[j].calls)
                                   /\ \A k \in (j + 1)..i : d[k].role = "tool"
  <2>1. PICK o \in 1..len : o < i /\ d[i].call \in Ids(d[o].calls)
    BY <1>5, <1>7
  <2>2. \A k \in (o + 1)..i : d[k].role = "tool"
    BY <1>6, <1>7, <2>1
  <2>3. o \in 1..(i - 1)
    BY <1>3, <2>1
  <2>4. QED BY <2>1, <2>2, <2>3
<1>8. ASSUME NEW i \in 1..len PROVE WellCalled(d[i]) /\ \A c, e \in d[i].calls : c.id = e.id => c = e
  <2>1. /\ d[i].calls \subseteq s[pos[i]].calls /\ d[i].role = s[pos[i]].role
        /\ WellCalled(s[pos[i]]) /\ \A c, e \in s[pos[i]].calls : c.id = e.id => c = e
    BY <1>2, <1>3, AnsweredIn DEF Woven, len
  <2>2. IsFiniteSet(s[pos[i]].calls) /\ (s[pos[i]].role # "ai" => s[pos[i]].calls = {})
    BY <2>1 DEF WellCalled
  <2>3. IsFiniteSet(d[i].calls)
    BY <2>1, <2>2, FS_Subset
  <2>4. WellCalled(d[i])
    BY <2>1, <2>2, <2>3 DEF WellCalled
  <2>5. QED BY <2>1, <2>4
<1>9. ASSUME NEW i \in 1..len, d[i].calls # {}
      PROVE  LET n == Cardinality(d[i].calls)
             IN /\ i + n <= len
                /\ \A k \in (i + 1)..(i + n) : d[k].role = "tool"
                /\ {d[k].call : k \in (i + 1)..(i + n)} = Ids(d[i].calls)
  <2> DEFINE A == Ids(d[i].calls)
             J == {k \in (i + 1)..len : d[k].role = "tool" /\ d[k].call \in A}
             f == [k \in J |-> d[k].call]
             n == Cardinality(d[i].calls)
  <2>1. IsFiniteSet(A) /\ Cardinality(A) = n /\ A # {}
    <3>1. A # {}
      BY <1>9 DEF Ids
    <3>2. IsFiniteSet(d[i].calls) /\ \A c, e \in d[i].calls : c.id = e.id => c = e
      BY <1>8 DEF WellCalled
    <3>3. QED BY <3>1, <3>2, CallsAndIds
  <2>2. s[pos[i]].role = "ai" /\ ~IsErrorStub(s[pos[i]]) /\ pos[i] \in DOMAIN s
    <3>1. WellCalled(d[i])
      BY <1>8
    <3>2. QED BY <1>2, <1>3, <1>9, <3>1 DEF WellCalled, KeptPlaces, len
  <2>3. ASSUME NEW z \in A PROVE \E k \in J : d[k].call = z
    <3>1. z \in Responded(s) /\ z \in Ids(s[pos[i]].calls) /\ z \in Ids(Answered(s[pos[i]], s))
      BY <1>2 DEF Answered, Only, Ids, len
    <3>2. PICK j \in DOMAIN s : s[j].role = "tool" /\ s[j].call = z
      BY <3>1 DEF Responded
    <3>3. pos[i] < j
      BY <2>2, <3>1, <3>2 DEF Woven
    <3>4. pos[i] \in 1..(j - 1) /\ Owns(s, pos[i], j) /\ ~IsErrorStub(s[j])
      BY <1>3, <2>2, <3>1, <3>2, <3>3 DEF Owns, IsErrorStub
    <3>5. j \in KeptPlaces(s)
      BY <2>2, <3>2, <3>4 DEF KeptPlaces
    <3>6. PICK k \in 1..len : pos[k] = j
      BY <1>2, <3>5 DEF len
    <3>7. i < k /\ d[k].role = "tool" /\ d[k].call = z
      BY <1>2, <1>4, <3>2, <3>3, <3>6 DEF len
    <3>8. k \in J
      BY <1>3, <3>7
    <3>9. QED BY <3>7, <3>8
  <2>4. ASSUME NEW k \in J, NEW m \in J, d[k].call = d[m].call PROVE k = m
    <3>1. /\ k \in 1..len /\ m \in 1..len /\ pos[k] \in DOMAIN s /\ pos[m] \in DOMAIN s
          /\ d[k].role = "tool" /\ d[m].role = "tool"
      BY <1>3
    <3>2. /\ s[pos[k]].role = "tool" /\ s[pos[m]].role = "tool"
          /\ s[pos[k]].call = s[pos[m]].call
      BY <1>2, <2>4, <3>1 DEF len
    <3>3. pos[k] = pos[m]
      BY <3>1, <3>2 DEF Woven
    <3>4. (k < m => pos[k] < pos[m]) /\ (m < k => pos[m] < pos[k])
      BY <1>2, <3>1 DEF Increases, len
    <3>5. pos[k] \in Nat
      BY <1>3, <3>1
    <3>6. QED BY <1>3, <3>1, <3>3, <3>4, <3>5
  <2>5. ASSUME NEW k \in J PROVE (i + 1)..k \subseteq J
    <3>1. k \in 1..len /\ i < k /\ d[k].role = "tool" /\ d[k].call \in Ids(d[i].calls)
      BY <1>3
    <3>2. OnlyTools(s, pos[i], pos[k]) /\ \A m \in (i + 1)..k : d[m].role = "tool"
      BY <1>6, <3>1
    <3>3. ASSUME NEW m \in (i + 1)..k PROVE m \in J
      <4>1. m \in 1..len /\ i < m /\ (m < k \/ m = k) /\ d[m].role = "tool"
        BY <1>3, <3>1, <3>2, <3>3
      <4>2. PICK o \in 1..len : o < m /\ d[m].call \in Ids(d[o].calls)
        BY <1>5, <4>1
      <4>3. s[pos[m]].call \in Ids(s[pos[o]].calls) /\ s[pos[m]].role = "tool"
        BY <1>2, <1>6, <4>1, <4>2 DEF len
      <4>4. pos[i] < pos[m] /\ (pos[m] < pos[k] \/ pos[m] = pos[k])
        BY <1>2, <3>1, <4>1 DEF Increases, len
      <4>5. OnlyTools(s, pos[i], pos[m])
        <5>1. (pos[i] + 1)..pos[m] \subseteq (pos[i] + 1)..pos[k]
          BY <1>3, <3>1, <4>1, <4>4
        <5>2. QED BY <3>2, <5>1 DEF OnlyTools
      <4>6. pos[o] = pos[i]
        BY <1>3, <2>2, <4>1, <4>3, <4>4, <4>5, OneOwner
      <4>7. o = i
        <5>1. ~(o < i) /\ ~(i < o)
          BY <1>2, <1>3, <4>6 DEF Increases, len
        <5>2. QED BY <1>3, <5>1
      <4>8. m \in (i + 1)..len
        BY <1>3, <4>1
      <4>9. QED BY <4>1, <4>2, <4>7, <4>8
    <3>4. QED BY <3>3
  <2>6. IsFiniteSet(J)
    <3>1. J \subseteq 1..len /\ IsFiniteSet(1..len)
      BY <1>3, NumbersFinite
    <3> HIDE DEF J
    <3>2. QED BY <3>1, FS_Subset
  <2>7. Cardinality(J) = n
    <3>1. /\ \A k \in J : f[k] \in A
          /\ \A k, m \in J : f[k] = f[m] => k = m
          /\ \A z \in A : \E k \in J : f[k] = z
      BY <2>3, <2>4
    <3> HIDE DEF J, A, f
    <3>2. QED BY <2>1, <2>6, <3>1, AsMany
  <2>8. J = (i + 1)..(i + n) /\ i + n <= len
    <3>1. J # {}
      BY <2>1, <2>3
    <3>2. i \in Nat /\ len \in Nat /\ J \subseteq (i + 1)..len
      BY <1>3
    <3> HIDE DEF J, n
    <3>3. QED BY <2>5, <2>7, <3>1, <3>2, NoGaps
  <2>9. {d[k].call : k \in J} = A
    BY <2>3
  <2>10. \A k \in J : d[k].role = "tool"
    OBVIOUS
  <2> HIDE DEF J
  <2>11. QED BY <2>8, <2>9, <2>10
<1>10. WellFormed(d)
  BY <1>3, <1>7, <1>9 DEF WellFormed, NoCalls, len
<1>11. QED BY <1>1, <1>2, <1>3, <1>8, <1>10
-----------------------------------------------------------------------------
(* The same without its leading system message, as Anthropic's blocks.     *)
Sendable(e) ==
    /\ e \in Seq(Msg) /\ WellFormed(e)
    /\ \A i \in 1..Len(e) : WellCalled(e[i]) /\ e[i].role # "system"

LEMMA BehindSystem ==
    ASSUME NEW d \in Seq(Msg), WellFormed(d), \A i \in 1..Len(d) : WellCalled(d[i]),
           d # <<>>, d[1].role = "system", \A i \in 2..Len(d) : d[i].role # "system"
    PROVE  Sendable(Split(d))
<1> DEFINE len == Len(d)
<1>1. len \in Nat /\ len # 0 /\ DOMAIN d = 1..len
  OBVIOUS
<1>2. Split(d) = Tail(d)
  BY DEF Split
<1>3. PICK e : e = Tail(d)
  OBVIOUS
<1>4. e \in Seq(Msg) /\ Len(e) = len - 1 /\ \A i \in 1..(len - 1) : e[i] = d[i + 1]
  BY <1>1, <1>3
<1> HIDE DEF len
<1>5. DOMAIN e = 1..(len - 1) /\ \A i \in 1..(len - 1) : i + 1 \in 1..len
  BY <1>1, <1>4
<1>6. d[1].calls = {} /\ 1 \in 1..len
  BY <1>1 DEF WellCalled, len
<1>7. ASSUME NEW i \in 1..(len - 1), e[i].calls # {}
      PROVE  LET n == Cardinality(e[i].calls)
             IN /\ i + n <= Len(e)
                /\ \A k \in (i + 1)..(i + n) : e[k].role = "tool"
                /\ {e[k].call : k \in (i + 1)..(i + n)} = Ids(e[i].calls)
  <2> DEFINE n == Cardinality(d[i + 1].calls)
  <2>1. /\ i + 1 + n <= len
        /\ \A k \in (i + 1 + 1)..(i + 1 + n) : d[k].role = "tool"
        /\ {d[k].call : k \in (i + 1 + 1)..(i + 1 + n)} = Ids(d[i + 1].calls)
    <3>1. i + 1 \in {j \in DOMAIN d : d[j].calls # NoCalls}
      BY <1>1, <1>4, <1>5, <1>7 DEF NoCalls
    <3>2. QED BY <3>1 DEF WellFormed, len
  <2>2. n \in Nat
    <3>1. IsFiniteSet(d[i + 1].calls)
      BY <1>5 DEF WellCalled, len
    <3>2. QED BY <3>1, FS_CardinalityType
  <2>3. e[i] = d[i + 1]
    BY <1>4
  <2> HIDE DEF n
  <2>4. i + n <= Len(e)
    BY <1>1, <1>4, <2>1, <2>2
  <2>5. ASSUME NEW k \in (i + 1)..(i + n)
        PROVE  e[k] = d[k + 1] /\ k + 1 \in (i + 1 + 1)..(i + 1 + n)
    BY <1>1, <1>4, <2>1, <2>2
  <2>6. ASSUME NEW k \in (i + 1 + 1)..(i + 1 + n)
        PROVE  k - 1 \in (i + 1)..(i + n) /\ e[k - 1] = d[k]
    BY <1>1, <1>4, <2>1, <2>2
  <2>7. \A k \in (i + 1)..(i + n) : e[k].role = "tool"
    BY <2>1, <2>5
  <2>8. {e[k].call : k \in (i + 1)..(i + n)} = {d[k].call : k \in (i + 1 + 1)..(i + 1 + n)}
    BY <2>5, <2>6
  <2>9. QED BY <2>1, <2>3, <2>4, <2>7, <2>8 DEF n
<1>8. ASSUME NEW i \in 1..(len - 1), e[i].role = "tool"
      PROVE  \E j \in 1..(i - 1) : /\ e[i].call \in Ids(e[j].calls)
                                   /\ \A k \in (j + 1)..i : e[k].role = "tool"
  <2>1. e[i] = d[i + 1] /\ i + 1 \in DOMAIN d
    BY <1>1, <1>4, <1>5
  <2>2. PICK j \in 1..((i + 1) - 1) : /\ d[i + 1].call \in Ids(d[j].calls)
                                      /\ \A k \in (j + 1)..(i + 1) : d[k].role = "tool"
    BY <1>8, <2>1 DEF WellFormed
  <2>3. d[j].calls # {}
    BY <2>2 DEF Ids
  <2>4. j # 1
    BY <1>6, <2>3
  <2>5. j - 1 \in 1..(i - 1) /\ e[j - 1] = d[j]
    BY <1>1, <1>4, <2>2, <2>4
  <2>6. ASSUME NEW k \in ((j - 1) + 1)..i PROVE e[k].role = "tool"
    <3>1. k + 1 \in (j + 1)..(i + 1) /\ e[k] = d[k + 1]
      BY <1>1, <1>4, <2>2, <2>6
    <3>2. QED BY <2>2, <3>1
  <2>7. QED BY <2>1, <2>2, <2>5, <2>6
<1>9. WellFormed(e)
  BY <1>5, <1>7, <1>8 DEF WellFormed, NoCalls
<1>10. \A i \in 1..Len(e) : WellCalled(e[i]) /\ e[i].role # "system"
  <2> SUFFICES ASSUME NEW i \in 1..Len(e) PROVE WellCalled(e[i]) /\ e[i].role # "system"
    OBVIOUS
  <2>1. e[i] = d[i + 1] /\ i + 1 \in 1..Len(d) /\ i + 1 \in 2..Len(d)
    BY <1>1, <1>4, <1>5 DEF len
  <2>2. QED BY <2>1
<1>11. QED BY <1>2, <1>3, <1>4, <1>9, <1>10 DEF Sendable

(* The results that follow a message with calls are theirs.                *)
Following(e, i) == {e[k].call : k \in {j \in i..Len(e) : \A l \in i..j : e[l].role = "tool"}}

LEMMA FollowingIs ==
    ASSUME NEW e, Sendable(e), NEW i \in 1..Len(e), e[i].calls # {}
    PROVE  /\ i + 1 \in 1..Len(e) /\ e[i + 1].role = "tool" /\ e[i].role = "ai"
           /\ Following(e, i + 1) = Ids(e[i].calls)
<1> DEFINE len == Len(e)
           n == Cardinality(e[i].calls)
<1>1. len \in Nat /\ DOMAIN e = 1..len /\ i \in 1..len
  BY DEF Sendable
<1> HIDE DEF len
<1>2. e[i].role = "ai" /\ IsFiniteSet(e[i].calls)
  BY <1>1 DEF Sendable, WellCalled, len
<1>3. n \in Nat /\ n # 0
  BY <1>2, FS_CardinalityType, FS_EmptySet
<1>4. /\ i + n <= len
      /\ \A k \in (i + 1)..(i + n) : e[k].role = "tool"
      /\ {e[k].call : k \in (i + 1)..(i + n)} = Ids(e[i].calls)
  <2>1. i \in {j \in DOMAIN e : e[j].calls # NoCalls}
    BY <1>1 DEF NoCalls
  <2>2. QED BY <2>1 DEF WellFormed, Sendable, len
<1> HIDE DEF n
<1>5. i + 1 \in 1..len /\ i + 1 \in (i + 1)..(i + n)
  BY <1>1, <1>3, <1>4
<1>6. ASSUME NEW z \in Ids(e[i].calls) PROVE z \in Following(e, i + 1)
  <2>1. PICK k \in (i + 1)..(i + n) : e[k].call = z
    BY <1>4
  <2>2. k \in (i + 1)..len /\ (i + 1)..k \subseteq (i + 1)..(i + n)
    BY <1>1, <1>3, <1>4
  <2>3. QED BY <1>4, <2>1, <2>2 DEF Following, len
<1>7. ASSUME NEW z \in Following(e, i + 1) PROVE z \in Ids(e[i].calls)
  <2>1. PICK k \in (i + 1)..len : e[k].call = z /\ \A l \in (i + 1)..k : e[l].role = "tool"
    BY <1>7 DEF Following, len
  <2>2. k \in DOMAIN e /\ k \in (i + 1)..k
    BY <1>1, <2>1
  <2>3. PICK j \in 1..(k - 1) : /\ e[k].call \in Ids(e[j].calls)
                                /\ \A l \in (j + 1)..k : e[l].role = "tool"
    BY <2>1, <2>2 DEF WellFormed, Sendable
  <2>4. e[j].calls # {} /\ j \in 1..len
    BY <1>1, <2>2, <2>3 DEF Ids
  <2>5. e[j].role = "ai"
    BY <2>4 DEF Sendable, WellCalled, len
  <2>6. ~(j < i)
    <3> SUFFICES ASSUME j < i PROVE FALSE
      OBVIOUS
    <3>1. i \in (j + 1)..k
      BY <1>1, <2>1, <2>3
    <3>2. QED BY <1>2, <2>3, <3>1
  <2>7. ~(i < j)
    <3> SUFFICES ASSUME i < j PROVE FALSE
      OBVIOUS
    <3>1. j \in (i + 1)..k
      BY <1>1, <2>1, <2>3
    <3>2. QED BY <2>1, <2>5, <3>1
  <2>8. i = j
    BY <1>1, <2>3, <2>6, <2>7
  <2>9. QED BY <2>1, <2>3, <2>8
<1>8. QED BY <1>2, <1>4, <1>5, <1>6, <1>7 DEF len

LEMMA AnthropicAccepts ==
    ASSUME NEW e, Sendable(e)
    PROVE  Accepted(ToAnthropic(e))
<1> DEFINE flushes(i) == e[i].role # "tool" \/ i = 1 \/ e[i - 1].role # "tool"
           keep == {i \in DOMAIN e : flushes(i)}
           heads == Places(e, keep)
           block(h) == IF e[h].role = "tool" THEN Block("user", {}, Following(e, h))
                       ELSE Block(Role(e[h]), Ids(e[h].calls), {})
           t == ToAnthropic(e)
           len == Len(e)
<1>1. /\ heads \in Seq(1..Len(e)) /\ Len(heads) \in Nat
      /\ \A i \in 1..Len(heads) : heads[i] \in keep /\ heads[i] \in 1..Len(e)
      /\ Increases(heads, Len(heads))
      /\ \A m \in 1..Len(e) : m \in keep => \E i \in 1..Len(heads) : heads[i] = m
  <2>1. e \in Seq(Msg)
    BY DEF Sendable
  <2> HIDE DEF keep
  <2>2. QED BY <2>1, PlacesSelect
<1>2. t = [n \in DOMAIN heads |-> block(heads[n])]
  BY DEF ToAnthropic, Following
<1> HIDE DEF t
<1>3. DOMAIN e = 1..len /\ len \in Nat
  BY DEF Sendable
<1>4. \A i \in 1..len : i \in keep <=> flushes(i)
  BY <1>3
<1> HIDE DEF keep, heads, len
<1> DEFINE n == Len(heads)
<1>5. /\ DOMAIN heads = 1..n /\ n \in Nat
      /\ \A k \in 1..n : heads[k] \in 1..len /\ flushes(heads[k])
      /\ \A m \in 1..len : flushes(m) => \E k \in 1..n : heads[k] = m
  BY <1>1, <1>3, <1>4 DEF len
<1>6. \A k, m \in 1..n : k < m => heads[k] < heads[m]
  BY <1>1 DEF Increases
<1> HIDE DEF n
<1>7. DOMAIN t = 1..n /\ \A k \in 1..n : t[k] = block(heads[k])
  BY <1>2, <1>5
<1>8. \A k, m \in 1..n : heads[k] + 1 = heads[m] => m = k + 1
  <2> SUFFICES ASSUME NEW k \in 1..n, NEW m \in 1..n, heads[k] + 1 = heads[m] PROVE m = k + 1
    OBVIOUS
  <2>1. heads[k] \in Int /\ heads[m] \in Int
    BY <1>3, <1>5
  <2>2. k < m
    <3>1. ~(m < k) /\ m # k
      BY <1>6, <2>1
    <3>2. QED BY <1>5, <3>1
  <2>3. ~(k + 1 < m)
    <3> SUFFICES ASSUME k + 1 < m PROVE FALSE
      OBVIOUS
    <3>1. k + 1 \in 1..n /\ k < k + 1
      BY <1>5, <2>2
    <3>2. heads[k] < heads[k + 1] /\ heads[k + 1] < heads[m] /\ heads[k + 1] \in Int
      BY <1>3, <1>5, <1>6, <3>1
    <3>3. QED BY <2>1, <3>2
  <2>4. QED BY <1>5, <2>2, <2>3
<1>9. ASSUME NEW k \in 1..n, t[k].uses # {}
      PROVE  k < n /\ t[k + 1].results = t[k].uses
  <2> DEFINE h == heads[k]
  <2>1. h \in 1..len /\ t[k] = block(h)
    BY <1>5, <1>7
  <2> HIDE DEF h
  <2>2. e[h].role # "tool" /\ t[k].uses = Ids(e[h].calls)
    BY <1>9, <2>1 DEF Block
  <2>3. e[h].calls # {}
    BY <1>9, <2>2 DEF Ids
  <2>4. /\ h + 1 \in 1..len /\ e[h + 1].role = "tool"
        /\ Following(e, h + 1) = Ids(e[h].calls)
    BY <2>1, <2>3, FollowingIs DEF len
  <2>5. flushes(h + 1)
    BY <1>3, <2>1, <2>2
  <2>6. PICK m \in 1..n : heads[m] = h + 1
    BY <1>5, <2>4, <2>5
  <2>7. m = k + 1
    BY <1>8, <2>6 DEF h
  <2>8. t[k + 1] = block(h + 1) /\ k + 1 <= n
    BY <1>5, <1>7, <2>6, <2>7
  <2>9. t[k + 1].results = Following(e, h + 1)
    BY <2>4, <2>8 DEF Block
  <2>10. QED BY <1>5, <2>2, <2>4, <2>8, <2>9
<1>10. ASSUME NEW k \in 1..n, t[k].results # {}
       PROVE  k > 1 /\ t[k].results = t[k - 1].uses
  <2> DEFINE h == heads[k]
  <2>1. h \in 1..len /\ t[k] = block(h) /\ flushes(h)
    BY <1>5, <1>7
  <2> HIDE DEF h
  <2>2. e[h].role = "tool" /\ t[k].results = Following(e, h)
    BY <1>10, <2>1 DEF Block
  <2>3. PICK j \in 1..(h - 1) : /\ e[h].call \in Ids(e[j].calls)
                                /\ \A l \in (j + 1)..h : e[l].role = "tool"
    BY <1>3, <2>1, <2>2 DEF WellFormed, Sendable
  <2>4. j \in 1..len /\ e[j].calls # {}
    BY <1>3, <2>1, <2>3 DEF Ids
  <2>5. j = h - 1
    <3> SUFFICES ASSUME j # h - 1 PROVE FALSE
      OBVIOUS
    <3>1. h - 1 \in (j + 1)..h /\ h # 1
      BY <1>3, <2>1, <2>3
    <3>2. QED BY <2>1, <2>2, <2>3, <3>1
  <2>6. /\ e[j].role = "ai" /\ Following(e, j + 1) = Ids(e[j].calls) /\ j + 1 = h
    BY <1>3, <2>1, <2>4, <2>5, FollowingIs DEF len
  <2>7. PICK m \in 1..n : heads[m] = j
    BY <1>5, <2>4, <2>6
  <2>8. k = m + 1
    BY <1>8, <2>6, <2>7 DEF h
  <2>9. t[m] = block(j)
    BY <1>7, <2>7
  <2>10. t[m].uses = Ids(e[j].calls)
    BY <2>6, <2>9 DEF Block
  <2>11. k > 1 /\ k - 1 = m
    BY <1>5, <2>8
  <2>12. QED BY <2>2, <2>6, <2>10, <2>11
<1>11. ASSUME NEW k \in 1..n PROVE t[k].role \in {"user", "assistant"}
  <2>1. heads[k] \in 1..len
    BY <1>5
  <2>2. e[heads[k]] \in Msg /\ e[heads[k]].role # "system"
    BY <2>1 DEF Sendable, len
  <2>3. e[heads[k]].role \in {"human", "ai", "tool"}
    BY <2>2 DEF Msg
  <2>4. QED BY <1>7, <2>3 DEF Block, Role
<1>12. Len(t) = n
  BY <1>5, <1>7
<1>13. QED BY <1>7, <1>9, <1>10, <1>11, <1>12 DEF Accepted, t
-----------------------------------------------------------------------------
(* Whatever is cut from a woven conversation or put in front of it, what   *)
(* remains is drawn from it.                                               *)
Drawn(t, s) == t \in Seq(Msg) /\ Draws(t, s)

LEMMA SystemIs == \A what \in {"persona", "summary", "marker"} :
    System(what) \in Msg /\ System(what).role = "system" /\ System(what).calls = {}
BY NoCallIs DEF System, Message, NoCalls, Msg, Call, CallId, ToolNames, Outs

LEMMA SystemsAre ==
    ASSUME NEW s \in Seq(Msg), \A i \in DOMAIN s : WellCalled(s[i])
    PROVE  /\ SystemsOf(s) \in Seq(Msg) /\ AllSystem(SystemsOf(s))
           /\ SystemsOf(s) = <<>> => \A i \in DOMAIN s : s[i].role # "system"
           /\ Len(SystemsOf(s)) <= 1 =>
                \A i, j \in DOMAIN s : s[i].role = "system" /\ s[j].role = "system" => i = j
<1> DEFINE keep == {i \in DOMAIN s : s[i].role = "system"}
           c == SystemsOf(s)
<1>1. c = Chosen(s, keep)
  BY DEF SystemsOf
<1>2. \A i \in keep : i \in DOMAIN s /\ s[i].role = "system"
  OBVIOUS
<1>3. \A i \in DOMAIN s : s[i].role = "system" => i \in keep
  OBVIOUS
<1> HIDE DEF keep, c
<1>4. c \in Seq(Msg) /\ Selects(c, s, keep, Len(s))
  BY <1>1, ChosenSelects
<1>5. PICK pos \in [1..Len(c) -> 1..Len(s)] :
        /\ \A i \in 1..Len(c) : pos[i] \in keep /\ c[i] = s[pos[i]]
        /\ \A i, j \in 1..Len(c) : i < j => pos[i] < pos[j]
        /\ \A m \in 1..Len(s) : m \in keep => \E i \in 1..Len(c) : pos[i] = m
  BY <1>4 DEF Selects
<1>6. DOMAIN c = 1..Len(c) /\ Len(c) \in Nat /\ DOMAIN s = 1..Len(s)
  BY <1>4
<1>7. AllSystem(c)
  <2> SUFFICES ASSUME NEW i \in DOMAIN c PROVE c[i].role = "system" /\ c[i].calls = {}
    BY DEF AllSystem
  <2>1. c[i] = s[pos[i]] /\ pos[i] \in keep
    BY <1>5, <1>6
  <2>2. s[pos[i]].role = "system" /\ WellCalled(s[pos[i]])
    BY <1>2, <2>1
  <2>3. QED BY <2>1, <2>2 DEF WellCalled
<1>8. ASSUME c = <<>>, NEW i \in DOMAIN s PROVE s[i].role # "system"
  <2>1. 1..Len(c) = {}
    BY <1>8
  <2>2. QED BY <1>3, <1>5, <1>6, <2>1
<1>9. ASSUME Len(c) <= 1, NEW i \in DOMAIN s, NEW j \in DOMAIN s,
             s[i].role = "system", s[j].role = "system"
      PROVE  i = j
  <2>1. PICK k \in 1..Len(c) : pos[k] = i
    BY <1>3, <1>5, <1>6, <1>9
  <2>2. PICK m \in 1..Len(c) : pos[m] = j
    BY <1>3, <1>5, <1>6, <1>9
  <2>3. k = m
    BY <1>6, <1>9, <2>1, <2>2
  <2>4. QED BY <2>1, <2>2, <2>3
<1>10. QED BY <1>4, <1>7, <1>8, <1>9 DEF c

LEMMA RestDrawn == \A s \in Seq(Msg) : Drawn(RestOf(s), s)
BY DrawsChosen DEF RestOf, Drawn

LEMMA LastDrawn ==
    ASSUME NEW s \in Seq(Msg), NEW n \in Nat \ {0}, NEW q \in Seq(Msg), AllSystem(q)
    PROVE  Drawn(q \o LastN(RestOf(s), n), s)
<1> DEFINE rest == RestOf(s)
           t == LastN(rest, n)
<1>1. rest \in Seq(Msg) /\ Draws(rest, s)
  BY RestDrawn DEF Drawn
<1> HIDE DEF rest
<1>2. t \in Seq(Msg) /\ Draws(t, rest)
  BY <1>1, DrawsLast
<1> HIDE DEF t
<1>3. Draws(t, s)
  BY <1>1, <1>2, DrawsOn
<1>4. q \o t \in Seq(Msg) /\ Draws(q \o t, s)
  BY <1>2, <1>3, DrawsBehind
<1>5. QED BY <1>4 DEF Drawn, t, rest

LEMMA OneMoreSystem ==
    ASSUME NEW q \in Seq(Msg), AllSystem(q), NEW what \in {"persona", "summary", "marker"}
    PROVE  q \o <<System(what)>> \in Seq(Msg) /\ AllSystem(q \o <<System(what)>>)
<1>1. PICK m \in Msg : m = System(what) /\ m.role = "system" /\ m.calls = {}
  BY SystemIs
<1>2. \A i \in 1..Len(q) : q[i].role = "system" /\ q[i].calls = {}
  BY DEF AllSystem
<1>3. QED BY <1>1, <1>2 DEF AllSystem

LEMMA WindowDrawn ==
    ASSUME NEW s \in Seq(Msg), Woven(s), NEW budget \in Nat \ {0}
    PROVE  Drawn(Window(s, budget), s)
<1>1. SystemsOf(s) \in Seq(Msg) /\ AllSystem(SystemsOf(s))
  BY SystemsAre DEF Woven
<1>2. Drawn(SystemsOf(s) \o LastN(RestOf(s), budget), s)
  BY <1>1, LastDrawn
<1>3. QED BY <1>2, DrawsItself DEF Window, Drawn

LEMMA TailBudgetIs == \A budget \in Nat \ {0} : TailBudget(budget) \in Nat \ {0} /\ TailBudget(budget) <= budget
BY DEF TailBudget

LEMMA CompactDrawn ==
    ASSUME NEW s \in Seq(Msg), Woven(s), NEW budget \in Nat \ {0}, NEW summarised \in BOOLEAN
    PROVE  Drawn(Compact(s, budget, summarised), s)
<1> DEFINE q == SystemsOf(s) \o <<System("summary")>>
<1>1. q \in Seq(Msg) /\ AllSystem(q)
  BY SystemsAre, OneMoreSystem DEF Woven
<1> HIDE DEF q
<1>2. Drawn(q \o LastN(RestOf(s), TailBudget(budget)), s)
  BY <1>1, LastDrawn, TailBudgetIs
<1>3. Drawn(s, s)
  BY DrawsItself DEF Drawn
<1>4. QED BY <1>2, <1>3, Zenon DEF Compact, q

LEMMA BoundedDrawn ==
    ASSUME NEW s \in Seq(Msg), Woven(s), NEW budget \in Nat \ {0}, NEW summarised \in BOOLEAN
    PROVE  Drawn(Bounded(s, budget, summarised), s)
<1> DEFINE c == Compact(s, budget, summarised)
           w == Window(c, budget)
<1>1. c \in Seq(Msg) /\ Draws(c, s)
  BY CompactDrawn DEF Drawn
<1> HIDE DEF c
<1>2. Woven(c)
  BY <1>1, WovenDrawn
<1>3. w \in Seq(Msg) /\ Draws(w, c)
  BY <1>1, <1>2, WindowDrawn DEF Drawn
<1> HIDE DEF w
<1>4. Draws(w, s)
  BY <1>1, <1>3, DrawsOn
<1>5. QED BY <1>3, <1>4 DEF Bounded, Drawn, w, c

LEMMA MergeDrawn ==
    ASSUME NEW s \in Seq(Msg), Woven(s)
    PROVE  Drawn(MergeSystem(s), s)
<1> DEFINE sys == SystemsOf(s)
           rest == RestOf(s)
<1>1. sys \in Seq(Msg) /\ AllSystem(sys) /\ rest \in Seq(Msg) /\ Draws(rest, s)
  BY SystemsAre, RestDrawn DEF Woven, Drawn
<1> HIDE DEF sys, rest
<1>2. CASE Len(sys) <= 1
  BY <1>2, DrawsItself DEF MergeSystem, Drawn, sys
<1>3. CASE ~(Len(sys) <= 1)
  <2>1. Head(sys) = sys[1] /\ 1 \in DOMAIN sys /\ sys[1] \in Msg
    BY <1>1, <1>3
  <2>2. PICK m \in Msg : m = Head(sys) /\ m.role = "system" /\ m.calls = {}
    BY <1>1, <2>1 DEF AllSystem
  <2>3. <<m>> \in Seq(Msg) /\ AllSystem(<<m>>)
    BY <2>2 DEF AllSystem
  <2>4. <<m>> \o rest \in Seq(Msg) /\ Draws(<<m>> \o rest, s)
    BY <1>1, <2>3, DrawsBehind
  <2>5. QED BY <1>3, <2>2, <2>4 DEF MergeSystem, Drawn, sys, rest
<1>4. QED BY <1>2, <1>3

(* A single system message in front.                                       *)
Fronted(t) ==
    /\ t # <<>> /\ t[1].role = "system"
    /\ \A i \in 2..Len(t) : t[i].role # "system"

LEMMA MergeFronts ==
    ASSUME NEW s \in Seq(Msg), Woven(s), s # <<>>, s[1].role = "system"
    PROVE  Fronted(MergeSystem(s))
<1> DEFINE sys == SystemsOf(s)
           rest == RestOf(s)
           keep == {i \in DOMAIN s : s[i].role # "system"}
<1>1. /\ sys \in Seq(Msg) /\ AllSystem(sys) /\ rest \in Seq(Msg)
      /\ Len(sys) <= 1 => \A i, j \in DOMAIN s : s[i].role = "system" /\ s[j].role = "system" => i = j
  BY SystemsAre, RestDrawn DEF Woven, Drawn
<1>2. \A i \in 1..Len(rest) : rest[i].role # "system"
  <2>1. rest = Chosen(s, keep) /\ \A i \in keep : s[i].role # "system"
    BY DEF RestOf
  <2> HIDE DEF keep, rest
  <2>2. Selects(rest, s, keep, Len(s))
    BY <2>1, ChosenSelects
  <2>3. QED BY <2>1, <2>2 DEF Selects
<1> HIDE DEF sys, rest, keep
<1>3. DOMAIN s = 1..Len(s) /\ Len(s) \in Nat /\ 1 \in DOMAIN s
  OBVIOUS
<1>4. CASE Len(sys) <= 1
  <2>1. MergeSystem(s) = s
    BY <1>4 DEF MergeSystem, sys
  <2>2. \A i \in 2..Len(s) : i \in DOMAIN s /\ i # 1
    BY <1>3
  <2>3. QED BY <1>1, <1>3, <1>4, <2>1, <2>2 DEF Fronted
<1>5. CASE ~(Len(sys) <= 1)
  <2>1. Head(sys) = sys[1] /\ 1 \in DOMAIN sys /\ sys[1] \in Msg
    BY <1>1, <1>5
  <2>2. PICK m \in Msg : m = Head(sys) /\ m.role = "system"
    BY <1>1, <2>1 DEF AllSystem
  <2>3. MergeSystem(s) = <<m>> \o rest
    BY <1>5, <2>2 DEF MergeSystem, sys, rest
  <2>4. PICK t : t = <<m>> \o rest
    OBVIOUS
  <2>5. t # <<>> /\ t[1] = m /\ Len(t) = Len(rest) + 1 /\ \A i \in 2..Len(t) : t[i] = rest[i - 1] /\ i - 1 \in 1..Len(rest)
    BY <1>1, <2>4
  <2>6. QED BY <1>2, <2>2, <2>3, <2>4, <2>5 DEF Fronted
<1>6. QED BY <1>4, <1>5

LEMMA DictsFront ==
    ASSUME NEW s \in Seq(Msg), Fronted(s)
    PROVE  Fronted(Dicts(s))
<1>1. PICK d : d = Dicts(s)
  OBVIOUS
<1>2. PICK pos \in [1..Len(d) -> 1..Len(s)] : Keeps(d, s, pos)
  BY <1>1, DictsAre
<1>3. /\ d \in Seq(Msg) /\ Len(d) \in Nat /\ DOMAIN s = 1..Len(s) /\ Len(s) \in Nat /\ 1 \in DOMAIN s
      /\ \A k \in 1..Len(d) : pos[k] \in 1..Len(s)
  BY <1>2 DEF Keeps, Fronted
<1>4. 1 \in KeptPlaces(s)
  BY <1>3 DEF KeptPlaces, Fronted, IsErrorStub
<1>5. PICK k \in 1..Len(d) : pos[k] = 1
  BY <1>2, <1>4 DEF Keeps
<1>6. \A i, j \in 1..Len(d) : i < j => pos[i] < pos[j]
  BY <1>2 DEF Keeps, Increases
<1>7. k = 1
  <2> SUFFICES ASSUME k # 1 PROVE FALSE
    OBVIOUS
  <2>1. 1 \in 1..Len(d) /\ 1 < k
    BY <1>3
  <2>2. pos[1] < pos[k] /\ pos[1] \in 1..Len(s)
    BY <1>3, <1>6, <2>1
  <2>3. QED BY <1>3, <1>5, <2>2
<1>8. \A i \in 1..Len(d) : d[i].role = s[pos[i]].role
  BY <1>2 DEF Keeps
<1>9. ASSUME NEW i \in 2..Len(d) PROVE d[i].role # "system"
  <2>1. i \in 1..Len(d) /\ 1 < i /\ 1 \in 1..Len(d)
    BY <1>3
  <2>2. pos[i] \in 2..Len(s)
    BY <1>3, <1>5, <1>6, <1>7, <2>1
  <2>3. QED BY <1>8, <2>1, <2>2 DEF Fronted
<1>10. d # <<>> /\ d[1].role = "system"
  BY <1>3, <1>5, <1>7, <1>8 DEF Fronted
<1>11. QED BY <1>1, <1>9, <1>10 DEF Fronted

LEMMA RequestWellFormed ==
    ASSUME NEW s \in Seq(Msg), Woven(s), NEW budget \in Nat \ {0}, NEW summarised \in BOOLEAN
    PROVE  LET d == Request(s, budget, summarised)
           IN WellFormed(d) /\ (SystemsOf(s) = <<>> => Accepted(ToAnthropic(Split(d))))
<1> DEFINE bounded == Bounded(s, budget, summarised)
           persona == System("persona")
           full == IF SystemsOf(s) = <<>> THEN <<persona>> \o bounded ELSE bounded
           merged == MergeSystem(full)
           d == Dicts(merged)
<1>1. bounded \in Seq(Msg) /\ Draws(bounded, s)
  BY BoundedDrawn DEF Drawn
<1>2. persona \in Msg /\ persona.role = "system" /\ persona.calls = {}
  BY SystemIs
<1> HIDE DEF bounded, persona
<1>3. <<persona>> \in Seq(Msg) /\ AllSystem(<<persona>>)
  BY <1>2 DEF AllSystem
<1>4. <<persona>> \o bounded \in Seq(Msg) /\ Draws(<<persona>> \o bounded, s)
  BY <1>1, <1>3, DrawsBehind
<1>5. full \in Seq(Msg) /\ Draws(full, s)
  BY <1>1, <1>4
<1>6. SystemsOf(s) = <<>> => full # <<>> /\ full[1].role = "system"
  BY <1>1, <1>2
<1> HIDE DEF full
<1>7. Woven(full)
  BY <1>5, WovenDrawn
<1>8. merged \in Seq(Msg) /\ Draws(merged, full)
  BY <1>5, <1>7, MergeDrawn DEF Drawn
<1>9. SystemsOf(s) = <<>> => Fronted(merged)
  BY <1>5, <1>6, <1>7, MergeFronts
<1> HIDE DEF merged
<1>10. Woven(merged)
  BY <1>5, <1>7, <1>8, WovenDrawn
<1>11. WellFormed(d) /\ d \in Seq(Msg) /\ \A i \in DOMAIN d : WellCalled(d[i])
  BY <1>8, <1>10, DictsWellFormed
<1>12. SystemsOf(s) = <<>> => Fronted(d)
  BY <1>8, <1>9, DictsFront
<1> HIDE DEF d
<1>13. ASSUME SystemsOf(s) = <<>> PROVE Accepted(ToAnthropic(Split(d)))
  <2>1. Sendable(Split(d))
    BY <1>11, <1>12, <1>13, BehindSystem DEF Fronted
  <2>2. QED BY <2>1, AnthropicAccepts
<1>14. Request(s, budget, summarised) = d
  BY DEF Request, d, merged, full, bounded, persona
<1>15. QED BY <1>11, <1>13, <1>14
-----------------------------------------------------------------------------
(* The calls of a message are its own, except for a forced one.            *)
OwnCalls(m, i) ==
    /\ m.role = "human" => m = Human
    /\ IsErrorStub(m) => m.calls = {}
    /\ \A c \in m.calls : c.id[1] \in {0, i} /\ (c.id[1] = 0 => c.tool = "write")
    /\ \A c, d \in m.calls : c.id = d.id => c = d
CallsSound(s) == \A i \in DOMAIN s : WellCalled(s[i]) /\ OwnCalls(s[i], i)

(* A result stands after the message that asked for it, with other results *)
(* of that message in between, none of the same call.                      *)
AnswerOf(s, j, o) ==
    /\ s[o].role = "ai" /\ OnlyTools(s, o, j)
    /\ s[j].call \in Ids(s[o].calls) \/ s[j].call[1] = o
ResultsSound(s) ==
    /\ \A j \in DOMAIN s : s[j].role = "tool" => \E o \in 1..(j - 1) : AnswerOf(s, j, o)
    /\ \A j, k \in DOMAIN s : j < k /\ OnlyTools(s, j - 1, k) => s[j].call # s[k].call

TalkSound(s) == CallsSound(s) /\ ResultsSound(s)

(* None of the pending calls has a result yet.                             *)
BatchOpen ==
    /\ InBatch => /\ OnlyTools(msgs, AnswerAt, Len(msgs))
                  /\ \A k \in (AnswerAt + 1)..Len(msgs) : msgs[k].call \notin Ids(Pending.calls)
    /\ node \in {"check_approval", "await_approval"} => AnswerAt = Len(msgs)

(* The step counter is the number of this turn's answers.                  *)
StepsSound ==
    /\ node \notin {"idle", "generate_final"} =>
            Cardinality(AnswersThisTurn) = StepBase /\ StepBase < MaxSteps
    /\ node = "generate_final" => ToolsUntilLimit

(* A turn begins with the user's message, and ends with an answer.         *)
TurnSound ==
    /\ turn > 0 => \E i \in ThisTurn(msgs) : msgs[i].role = "human"
    /\ node # "idle" => turn > 0
    /\ node = "idle" /\ turn > 0 /\ turn \notin excused =>
            msgs # <<>> /\ Plain(Newest(msgs)) /\ Newest(msgs).out # "blank"

(* What ran in a turn is told by its messages, its write with its outcome. *)
ToldOf(s, i, r) == s[i].role = "tool" /\ s[i].call = r.id /\ s[i].tool = r.tool
SameOutcome(out, r) == out = r.out \/ (out = "resolved" /\ r.out = "conflict")
Told ==
    turn \notin excused =>
        /\ \A r \in ran : r.turn = turn => \E i \in ThisTurn(msgs) : ToldOf(msgs, i, r)
        /\ \A i \in TurnWrites(msgs) : \E r \in Writes(turn) : SameOutcome(msgs[i].out, r)

(* A call without a message of its own is a forced write.                 *)
ForcedTold == \A j \in DOMAIN msgs :
    msgs[j].role = "tool" /\ msgs[j].call[1] = 0 => msgs[j].tool = "write"

Repeats(s) == \E i, j \in DOMAIN s : i < j /\ \E id \in Ids(s[i].calls) \cap Ids(s[j].calls) : id[1] = 0

LEMMA OneAsks ==
    ASSUME NEW s \in Seq(Msg), TalkSound(s), ~Repeats(s), NEW j \in DOMAIN s, s[j].role = "tool",
           NEW o \in 1..(j - 1), AnswerOf(s, j, o), NEW i \in DOMAIN s,
           s[j].call \in Ids(s[i].calls)
    PROVE  i = o
<1>1. o \in DOMAIN s /\ DOMAIN s \subseteq Nat \ {0}
  OBVIOUS
<1>2. s[j].call[1] \in {0, i}
  BY DEF TalkSound, CallsSound, OwnCalls, Ids
<1>3. CASE s[j].call[1] = o
  BY <1>1, <1>2, <1>3
<1>4. CASE s[j].call \in Ids(s[o].calls)
  <2>1. s[j].call[1] \in {0, o}
    BY <1>1, <1>4 DEF TalkSound, CallsSound, OwnCalls, Ids
  <2>2. s[j].call[1] = 0 => ~(i < o) /\ ~(o < i)
    BY <1>1, <1>4 DEF Repeats
  <2>3. QED BY <1>1, <1>2, <2>1, <2>2
<1>5. QED BY <1>3, <1>4 DEF AnswerOf

LEMMA WovenTalk ==
    ASSUME NEW s \in Seq(Msg), TalkSound(s), ~Repeats(s)
    PROVE  Woven(s)
<1>1. \A i \in DOMAIN s : /\ WellCalled(s[i]) /\ (IsErrorStub(s[i]) => s[i].calls = {})
                          /\ \A c, d \in s[i].calls : c.id = d.id => c = d
  BY DEF TalkSound, CallsSound, OwnCalls
<1>2. ASSUME NEW i \in DOMAIN s, NEW j \in DOMAIN s, s[j].role = "tool", s[j].call \in Ids(s[i].calls)
      PROVE  i < j /\ OnlyTools(s, i, j)
  <2>1. PICK o \in 1..(j - 1) : AnswerOf(s, j, o)
    BY <1>2 DEF TalkSound, ResultsSound
  <2>2. i = o
    BY <1>2, <2>1, OneAsks
  <2>3. QED BY <2>1, <2>2 DEF AnswerOf
<1>3. ASSUME NEW j \in DOMAIN s, NEW k \in DOMAIN s, s[j].role = "tool", s[k].role = "tool",
             s[j].call = s[k].call, j < k
      PROVE  FALSE
  <2>1. PICK o \in 1..(j - 1) : AnswerOf(s, j, o)
    BY <1>3 DEF TalkSound, ResultsSound
  <2>2. PICK p \in 1..(k - 1) : AnswerOf(s, k, p)
    BY <1>3 DEF TalkSound, ResultsSound
  <2>3. o \in DOMAIN s /\ p \in DOMAIN s /\ DOMAIN s \subseteq Nat \ {0}
    OBVIOUS
  <2>4. o = p
    <3>1. CASE s[k].call \in Ids(s[p].calls)
      BY <1>3, <2>1, <2>3, <3>1, OneAsks
    <3>2. CASE s[j].call \in Ids(s[o].calls)
      BY <1>3, <2>2, <2>3, <3>2, OneAsks
    <3>3. CASE s[k].call[1] = p /\ s[j].call[1] = o
      BY <1>3, <3>3
    <3>4. QED BY <2>1, <2>2, <3>1, <3>2, <3>3 DEF AnswerOf
  <2>5. OnlyTools(s, j - 1, k)
    <3>1. ((j - 1) + 1)..k \subseteq (o + 1)..k
      BY <2>3
    <3>2. QED BY <2>2, <2>4, <3>1 DEF AnswerOf, OnlyTools
  <2>6. QED BY <1>3, <2>5 DEF TalkSound, ResultsSound
<1>4. ASSUME NEW j \in DOMAIN s, NEW k \in DOMAIN s, s[j].role = "tool", s[k].role = "tool",
             s[j].call = s[k].call
      PROVE  j = k
  <2>1. ~(j < k) /\ ~(k < j) /\ j \in Int /\ k \in Int
    BY <1>3, <1>4
  <2>2. QED BY <2>1
<1>5. QED BY <1>1, <1>2, <1>4 DEF Woven
-----------------------------------------------------------------------------
(* What the synthesis of an answer sees of its turn.                       *)
LEMMA InLast ==
    ASSUME NEW s \in Seq(Msg), NEW n \in Nat \ {0}, NEW i \in DOMAIN s,
           s[i].role # "system", Len(s) - i < n
    PROVE  \E k \in 1..Len(LastN(RestOf(s), n)) : LastN(RestOf(s), n)[k] = s[i]
<1> DEFINE keep == {m \in DOMAIN s : s[m].role # "system"}
           rest == RestOf(s)
           last == LastN(rest, n)
           len == Len(s)
           lr == Len(rest)
           ll == Len(last)
<1>1. rest \in Seq(Msg) /\ Selects(rest, s, keep, Len(s))
  BY ChosenSelects DEF RestOf
<1>2. PICK pos \in [1..Len(rest) -> 1..Len(s)] :
        /\ \A m \in 1..Len(rest) : pos[m] \in keep /\ rest[m] = s[pos[m]]
        /\ \A l, m \in 1..Len(rest) : l < m => pos[l] < pos[m]
        /\ \A m \in 1..Len(s) : m \in keep => \E l \in 1..Len(rest) : pos[l] = m
  BY <1>1 DEF Selects
<1> HIDE DEF rest, keep
<1>3. len \in Nat /\ lr \in Nat /\ i \in 1..len
  BY <1>1
<1>4. PICK r \in 1..lr : pos[r] = i
  BY <1>2, <1>3 DEF keep
<1>5. lr - r <= pos[lr] - pos[r] /\ pos[lr] \in 1..len
  <2>1. Increases(pos, lr) /\ pos \in [1..lr -> 1..len]
    BY <1>2 DEF Increases
  <2> HIDE DEF len, lr
  <2>2. lr \in 1..lr
    BY <1>3, <1>4
  <2>3. r <= lr
    BY <1>3, <1>4
  <2>4. QED BY <1>3, <1>4, <2>1, <2>2, <2>3, Spread
<1>6. /\ ll = IF n < lr THEN n ELSE lr
      /\ \A k \in 1..ll : last[k] = rest[(lr - ll) + k]
  BY <1>1, LastIs
<1>7. rest[r] = s[i]
  BY <1>2, <1>4
<1>8. len - i < n
  OBVIOUS
<1> HIDE DEF last, ll, lr, len
<1>9. r - (lr - ll) \in 1..ll /\ (lr - ll) + (r - (lr - ll)) = r
  <2>1. lr - r < n /\ r \in 1..lr /\ lr \in Nat
    BY <1>3, <1>4, <1>5, <1>8
  <2>2. ll = IF n < lr THEN n ELSE lr
    BY <1>6
  <2>3. QED BY <2>1, <2>2
<1>10. last[r - (lr - ll)] = s[i]
  BY <1>6, <1>7, <1>9
<1>11. QED BY <1>9, <1>10 DEF last, rest, ll

(* Behind system messages no more remains than follows them.               *)
LEMMA RestBehind ==
    ASSUME NEW q \in Seq(Msg), AllSystem(q), NEW t \in Seq(Msg)
    PROVE  Len(RestOf(q \o t)) <= Len(t)
<1> DEFINE s == q \o t
           keep == {m \in DOMAIN s : s[m].role # "system"}
           rest == RestOf(s)
           lr == Len(rest)
           lq == Len(q)
           lt == Len(t)
<1>1. /\ s \in Seq(Msg) /\ Len(s) = lq + lt /\ lq \in Nat /\ lt \in Nat
      /\ \A m \in 1..lq : s[m] = q[m]
  OBVIOUS
<1>2. \A m \in 1..lq : q[m].role = "system"
  BY DEF AllSystem
<1>3. rest = Chosen(s, keep)
  BY DEF RestOf
<1>4. \A m \in keep : m \in DOMAIN s /\ s[m].role # "system"
  OBVIOUS
<1> HIDE DEF s, rest, keep
<1>5. rest \in Seq(Msg) /\ Selects(rest, s, keep, Len(s))
  BY <1>1, <1>3, ChosenSelects
<1>6. PICK pos \in [1..Len(rest) -> 1..Len(s)] :
        /\ \A m \in 1..Len(rest) : pos[m] \in keep /\ rest[m] = s[pos[m]]
        /\ \A l, m \in 1..Len(rest) : l < m => pos[l] < pos[m]
  BY <1>5 DEF Selects
<1>7. lr \in Nat /\ Increases(pos, lr) /\ pos \in [1..lr -> 1..(lq + lt)]
  BY <1>1, <1>5, <1>6 DEF Increases
<1>8. \A m \in 1..lr : s[pos[m]].role # "system" /\ pos[m] \in 1..(lq + lt)
  BY <1>4, <1>6, <1>7
<1> HIDE DEF lr, lq, lt
<1>9. CASE lr = 0
  BY <1>1, <1>9 DEF s, rest, lr, lt
<1>10. CASE lr # 0
  <2>1. 1 \in 1..lr /\ lr \in 1..lr /\ 1 <= lr
    BY <1>7, <1>10
  <2>2. lr - 1 <= pos[lr] - pos[1]
    <3>1. lq + lt \in Nat
      BY <1>1
    <3>2. QED BY <1>7, <2>1, <3>1, Spread
  <2>3. pos[1] \in 1..(lq + lt) /\ pos[lr] \in 1..(lq + lt)
    BY <1>8, <2>1
  <2>4. ~(pos[1] <= lq)
    <3> SUFFICES ASSUME pos[1] <= lq PROVE FALSE
      OBVIOUS
    <3>1. pos[1] \in 1..lq
      BY <1>1, <2>3
    <3>2. QED BY <1>1, <1>2, <1>8, <2>1, <3>1
  <2>5. lr <= lt
    BY <1>1, <1>7, <2>2, <2>3, <2>4
  <2>6. QED BY <2>5 DEF s, rest, lr, lt
<1>11. QED BY <1>9, <1>10

LEMMA BoundedKeeps ==
    ASSUME NEW s \in Seq(Msg), \A m \in DOMAIN s : WellCalled(s[m]),
           NEW budget \in Nat \ {0}, NEW summarised \in BOOLEAN,
           NEW i \in DOMAIN s, s[i].role # "system", Len(s) - i < TailBudget(budget)
    PROVE  \E k \in DOMAIN Bounded(s, budget, summarised) : Bounded(s, budget, summarised)[k] = s[i]
<1> DEFINE tb == TailBudget(budget)
           sys == SystemsOf(s)
           q == sys \o <<System("summary")>>
           Holds(t) == \E k \in DOMAIN t : t[k] = s[i]
<1>1. tb \in Nat \ {0} /\ tb <= budget /\ Len(s) - i < tb /\ Len(s) \in Nat /\ i \in Nat
  BY TailBudgetIs
<1>2. sys \in Seq(Msg) /\ AllSystem(sys)
  BY SystemsAre
<1>3. RestOf(s) \in Seq(Msg)
  BY RestDrawn DEF Drawn
<1> HIDE DEF sys
<1>4. q \in Seq(Msg) /\ AllSystem(q)
  BY <1>2, OneMoreSystem
<1> HIDE DEF q, tb
<1>5. ASSUME NEW p \in Seq(Msg), NEW n \in Nat \ {0}, Len(s) - i < n
      PROVE  Holds(p \o LastN(RestOf(s), n))
  <2> DEFINE l == LastN(RestOf(s), n)
  <2>1. PICK k \in 1..Len(l) : l[k] = s[i]
    BY <1>5, InLast
  <2>2. l \in Seq(Msg)
    BY <1>3, LastIs
  <2> HIDE DEF l
  <2>3. Len(p) + k \in DOMAIN (p \o l) /\ (p \o l)[Len(p) + k] = s[i]
    BY <2>1, <2>2
  <2>4. QED BY <2>3 DEF l
<1>6. ASSUME Compact(s, budget, summarised) = s
      PROVE  Holds(Bounded(s, budget, summarised))
  <2>1. Bounded(s, budget, summarised) = Window(s, budget)
    BY <1>6 DEF Bounded
  <2>2. CASE Window(s, budget) = s
    BY <2>1, <2>2
  <2>3. CASE Window(s, budget) = sys \o LastN(RestOf(s), budget)
    <3>1. Len(s) - i < budget
      BY <1>1
    <3>2. QED BY <1>2, <1>5, <2>1, <2>3, <3>1
  <2>4. QED BY <2>2, <2>3 DEF Window, sys
<1>7. ASSUME Compact(s, budget, summarised) = q \o LastN(RestOf(s), tb)
      PROVE  Holds(Bounded(s, budget, summarised))
  <2> DEFINE l == LastN(RestOf(s), tb)
             c == q \o l
  <2>1. l \in Seq(Msg) /\ Len(l) = IF tb < Len(RestOf(s)) THEN tb ELSE Len(RestOf(s))
    BY <1>1, <1>3, LastIs
  <2>2. Len(l) <= tb /\ Len(l) \in Nat
    <3>1. Len(RestOf(s)) \in Nat
      BY <1>3
    <3>2. QED BY <1>1, <2>1, <3>1
  <2> HIDE DEF l
  <2>3. Len(RestOf(c)) <= Len(l)
    BY <1>4, <2>1, RestBehind
  <2>4. c \in Seq(Msg)
    BY <1>4, <2>1
  <2> HIDE DEF c
  <2>5. Len(RestOf(c)) \in Nat
    BY <2>4, RestDrawn DEF Drawn
  <2>6. Len(RestOf(c)) <= budget
    BY <1>1, <2>2, <2>3, <2>5
  <2>7. Bounded(s, budget, summarised) = c
    BY <1>7, <2>6 DEF Bounded, Window, c, l
  <2>8. Holds(c)
    BY <1>1, <1>4, <1>5 DEF c, l
  <2>9. QED BY <2>7, <2>8
<1>8. QED BY <1>6, <1>7 DEF Compact, q, sys, tb

LEMMA TurnFits ==
    ASSUME NEW s \in Seq(Msg), NEW i \in ThisTurn(s)
    PROVE  Len(s) - i < Cardinality(ThisTurn(s)) /\ i \in DOMAIN s
<1> DEFINE T == ThisTurn(s)
           I == i..Len(s)
<1>1. T \subseteq 1..Len(s) /\ Len(s) \in Nat /\ i \in 1..Len(s)
  BY DEF ThisTurn
<1>2. I \subseteq T
  <2> SUFFICES ASSUME NEW k \in I PROVE k \in T
    OBVIOUS
  <2>1. k \in DOMAIN s /\ (k + 1)..Len(s) \subseteq (i + 1)..Len(s)
    BY <1>1
  <2>2. QED BY <2>1 DEF ThisTurn
<1>3. IsFiniteSet(T)
  <2>1. IsFiniteSet(1..Len(s))
    BY <1>1, NumbersFinite
  <2>2. QED BY <1>1, <2>1, FS_Subset
<1>4. Cardinality(I) = Len(s) - i + 1
  <2>1. Cardinality(I) = IF i > Len(s) THEN 0 ELSE Len(s) - i + 1
    BY <1>1, FS_Interval
  <2>2. QED BY <1>1, <2>1
<1> HIDE DEF T, I
<1>5. Cardinality(I) <= Cardinality(T) /\ Cardinality(T) \in Nat
  BY <1>2, <1>3, FS_Subset, FS_CardinalityType
<1>6. QED BY <1>1, <1>4, <1>5 DEF T

(* What is chosen is in the sequence of the choice.                        *)
LEMMA ChosenHolds ==
    ASSUME NEW s \in Seq(Msg), NEW keep, NEW k \in DOMAIN s, k \in keep
    PROVE  s[k] \in ToSet(Chosen(s, keep))
<1>1. PICK c : c = Chosen(s, keep)
  OBVIOUS
<1>2. c \in Seq(Msg) /\ Selects(c, s, keep, Len(s))
  BY <1>1, ChosenSelects
<1>3. PICK pos \in [1..Len(c) -> 1..Len(s)] :
        /\ \A i \in 1..Len(c) : pos[i] \in keep /\ c[i] = s[pos[i]]
        /\ \A m \in 1..Len(s) : m \in keep => \E i \in 1..Len(c) : pos[i] = m
  BY <1>2 DEF Selects
<1>4. PICK i \in 1..Len(c) : pos[i] = k
  BY <1>3
<1>5. c[i] = s[k] /\ i \in DOMAIN c
  BY <1>2, <1>3, <1>4
<1>6. QED BY <1>1, <1>5 DEF ToSet
-----------------------------------------------------------------------------
(* Requests are accepted and replies faithful in the states described.     *)
Coherent == TalkSound(msgs) /\ BatchOpen /\ StepsSound /\ TurnSound /\ Told
TalkInv == AInv /\ Coherent

LEMMA RequestsFit == TalkInv => RequestAccepted
<1> SUFFICES ASSUME TalkInv PROVE RequestAccepted
  OBVIOUS
<1>1. msgs \in Seq(Msg) /\ \A i \in DOMAIN msgs : WellCalled(msgs[i])
  BY DEF TalkInv, Coherent, AInv, AgentTypeOK
<1>2. \A budget \in 1..Len(msgs) : budget \in Nat \ {0}
  BY <1>1
<1>3. ASSUME ~ForcedIdsRepeat, NEW budget \in 1..Len(msgs), NEW summarised \in BOOLEAN
      PROVE  CallWellFormed(budget, summarised)
  <2>1. Woven(msgs)
    BY <1>1, <1>3, WovenTalk DEF TalkInv, Coherent, Repeats, ForcedIdsRepeat
  <2>2. QED BY <1>1, <1>2, <2>1, RequestWellFormed DEF CallWellFormed, Marked
<1>4. ASSUME node = "generate_final", NEW budget \in 1..Len(msgs), NEW summarised \in BOOLEAN
      PROVE  SynthesisSeesTurn(budget, summarised)
  <2> SUFFICES ASSUME TailBudget(budget) >= Cardinality(ThisTurn(msgs))
               PROVE  LET prompt == FinalPrompt(msgs, budget, summarised)
                      IN /\ {m \in {msgs[i] : i \in ThisTurn(msgs)} : m.role = "tool"} \subseteq ToSet(prompt.context)
                         /\ Human \in ToSet(prompt.history)
    BY DEF SynthesisSeesTurn
  <2> DEFINE w == Bounded(msgs, budget, summarised)
             context == {k \in DOMAIN w : w[k].role \in {"system", "tool"}}
             words == {k \in DOMAIN w : /\ ~IsErrorStub(w[k]) /\ w[k].role \in {"human", "ai"}
                                        /\ w[k].role = "ai" => w[k].out # "blank"}
  <2>1. /\ FinalPrompt(msgs, budget, summarised).context = Chosen(w, context)
        /\ FinalPrompt(msgs, budget, summarised).history = Chosen(w, words)
    BY DEF FinalPrompt
  <2>2. TailBudget(budget) \in Nat \ {0} /\ budget \in Nat \ {0}
    BY <1>2, TailBudgetIs
  <2>3. ASSUME NEW i \in ThisTurn(msgs), msgs[i].role # "system"
        PROVE  \E k \in DOMAIN w : w[k] = msgs[i]
    <3>1. Len(msgs) - i < Cardinality(ThisTurn(msgs)) /\ i \in DOMAIN msgs
      BY <1>1, TurnFits
    <3>2. IsFiniteSet(ThisTurn(msgs))
      <4>1. ThisTurn(msgs) \subseteq 1..Len(msgs) /\ IsFiniteSet(1..Len(msgs))
        BY <1>1, NumbersFinite DEF ThisTurn
      <4>2. QED BY <4>1, FS_Subset
    <3>3. Cardinality(ThisTurn(msgs)) \in Nat
      BY <3>2, FS_CardinalityType
    <3>4. Len(msgs) - i < TailBudget(budget)
      BY <1>1, <2>2, <3>1, <3>3
    <3> HIDE DEF w
    <3>5. QED BY <1>1, <2>2, <2>3, <3>1, <3>4, BoundedKeeps DEF w
  <2>4. w \in Seq(Msg)
    <3>1. SystemsOf(msgs) \in Seq(Msg) /\ RestOf(msgs) \in Seq(Msg)
      BY <1>1, SystemsAre, RestDrawn DEF Drawn
    <3> DEFINE c == Compact(msgs, budget, summarised)
    <3>2. System("summary") \in Msg
      BY SystemIs
    <3>3. LastN(RestOf(msgs), TailBudget(budget)) \in Seq(Msg)
      BY <2>2, <3>1, LastIs
    <3>4. c \in Seq(Msg)
      BY <1>1, <3>1, <3>2, <3>3 DEF Compact
    <3> HIDE DEF c
    <3>5. SystemsOf(c) \in Seq(Msg) /\ RestOf(c) \in Seq(Msg)
      BY <3>4, ChosenSelects DEF SystemsOf, RestOf
    <3>6. LastN(RestOf(c), budget) \in Seq(Msg)
      BY <2>2, <3>5, LastIs
    <3>7. Window(c, budget) \in Seq(Msg)
      BY <3>4, <3>5, <3>6 DEF Window
    <3>8. QED BY <3>7 DEF Bounded, c
  <2> HIDE DEF w
  <2>5. ASSUME NEW i \in ThisTurn(msgs), msgs[i].role = "tool"
        PROVE  msgs[i] \in ToSet(Chosen(w, context))
    <3>1. PICK k \in DOMAIN w : w[k] = msgs[i]
      BY <2>3, <2>5
    <3>2. k \in context
      BY <2>5, <3>1
    <3> HIDE DEF context
    <3>3. QED BY <2>4, <3>1, <3>2, ChosenHolds
  <2>6. Human \in ToSet(Chosen(w, words))
    <3>1. PICK i \in ThisTurn(msgs) : msgs[i].role = "human"
      BY <1>4 DEF TalkInv, Coherent, TurnSound, AInv, AgentTypeOK
    <3>2. msgs[i] = Human
      BY <3>1 DEF TalkInv, Coherent, TalkSound, CallsSound, OwnCalls, ThisTurn
    <3>3. PICK k \in DOMAIN w : w[k] = Human
      BY <2>3, <3>1, <3>2
    <3>4. Human.role = "human" /\ ~IsErrorStub(Human)
      BY <3>1, <3>2 DEF IsErrorStub
    <3>5. k \in words
      BY <3>3, <3>4
    <3> HIDE DEF words
    <3>6. QED BY <2>4, <3>3, <3>5, ChosenHolds
  <2> HIDE DEF context, words
  <2>7. QED BY <2>1, <2>5, <2>6
<1>5. node = "generate_final" => ToolsUntilLimit
  BY DEF TalkInv, Coherent, StepsSound
<1>6. QED BY <1>3, <1>4, <1>5 DEF RequestAccepted
-----------------------------------------------------------------------------
LEMMA NewestDisplayed ==
    ASSUME NEW s \in Seq(Msg), s # <<>>, Plain(Newest(s))
    PROVE  Newest(Displayed(s)) = Len(s) /\ Len(s) \in ToSet(Displayed(s))
<1> DEFINE shown(i) == \/ s[i].role = "human"
                       \/ Plain(s[i]) /\ \A k \in (i + 1)..TurnEnd(s, i) : ~Plain(s[k])
           keep == {i \in DOMAIN s : shown(i)}
           p == Places(s, keep)
           len == Len(s)
<1>1. Displayed(s) = p
  BY DEF Displayed
<1>2. len \in Nat /\ len # 0 /\ DOMAIN s = 1..len
  OBVIOUS
<1>3. TurnEnd(s, len) = len
  <2>1. len \in len..len /\ (len + 1)..len = {} /\ ~(len < len) /\ \A j \in len..len : j = len
    BY <1>2
  <2>2. QED BY <2>1 DEF TurnEnd, len
<1>4. len \in keep
  <2>1. (len + 1)..TurnEnd(s, len) = {}
    BY <1>2, <1>3
  <2>2. QED BY <1>2, <2>1 DEF Newest, len
<1> HIDE DEF keep
<1>5. /\ p \in Seq(1..len) /\ Len(p) \in Nat
      /\ \A i \in 1..Len(p) : p[i] \in 1..len
      /\ Increases(p, Len(p))
      /\ \A m \in 1..len : m \in keep => \E i \in 1..Len(p) : p[i] = m
  BY PlacesSelect DEF len
<1> HIDE DEF p, len
<1>6. PICK i \in 1..Len(p) : p[i] = len
  BY <1>2, <1>4, <1>5
<1>7. i = Len(p)
  <2> SUFFICES ASSUME i < Len(p) PROVE FALSE
    BY <1>5, <1>6
  <2>1. Len(p) \in 1..Len(p)
    BY <1>5, <1>6
  <2>2. p[i] < p[Len(p)] /\ p[Len(p)] \in 1..len
    BY <1>5, <2>1 DEF Increases
  <2>3. QED BY <1>2, <1>6, <2>2
<1>8. i \in DOMAIN p
  BY <1>5, <1>6
<1>9. QED BY <1>1, <1>6, <1>7, <1>8 DEF Newest, ToSet, len

(* A turn that ends with the conversation is the present one.              *)
LEMMA TurnEndIs ==
    ASSUME NEW s \in Seq(Msg), NEW t \in DOMAIN s
    PROVE  /\ TurnEnd(s, t) \in t..Len(s)
           /\ TurnEnd(s, t) >= Len(s) <=> t \in ThisTurn(s)
<1> DEFINE Ends(j) == /\ \A k \in (t + 1)..j : s[k].role # "human"
                      /\ j < Len(s) => s[j + 1].role = "human"
           J == {j \in t..Len(s) : j < Len(s) => s[j + 1].role = "human"}
<1>1. Len(s) \in Nat /\ t \in 1..Len(s) /\ DOMAIN s = 1..Len(s)
  OBVIOUS
<1>2. Len(s) \in J
  BY <1>1
<1>3. J \subseteq Nat /\ J # {}
  BY <1>1, <1>2
<1>4. PICK m \in J : \A j \in J : ~(j < m)
  <2> HIDE DEF J
  <2>1. QED BY <1>3, LeastNumber
<1>5. Ends(m)
  <2>1. ASSUME NEW k \in (t + 1)..m PROVE s[k].role # "human"
    <3>1. k - 1 \in t..Len(s) /\ k - 1 < Len(s) /\ k - 1 < m /\ (k - 1) + 1 = k
      BY <1>1, <1>4, <2>1
    <3>2. k - 1 \notin J
      BY <1>4, <3>1
    <3>3. QED BY <3>1, <3>2
  <2>2. QED BY <1>4, <2>1
<1>6. TurnEnd(s, t) = CHOOSE j \in t..Len(s) : Ends(j)
  BY DEF TurnEnd
<1>7. TurnEnd(s, t) \in t..Len(s) /\ Ends(TurnEnd(s, t))
  <2>1. m \in t..Len(s)
    BY <1>4
  <2> HIDE DEF Ends
  <2>2. QED BY <1>5, <1>6, <2>1, Zenon
<1>8. TurnEnd(s, t) >= Len(s) => t \in ThisTurn(s)
  <2> SUFFICES ASSUME TurnEnd(s, t) >= Len(s) PROVE t \in ThisTurn(s)
    OBVIOUS
  <2>1. TurnEnd(s, t) = Len(s)
    BY <1>1, <1>7
  <2>2. QED BY <1>1, <1>7, <2>1 DEF ThisTurn
<1>9. t \in ThisTurn(s) => TurnEnd(s, t) >= Len(s)
  <2> SUFFICES ASSUME t \in ThisTurn(s), TurnEnd(s, t) < Len(s) PROVE FALSE
    BY <1>1, <1>7
  <2>1. TurnEnd(s, t) + 1 \in (t + 1)..Len(s) /\ s[TurnEnd(s, t) + 1].role = "human"
    BY <1>1, <1>7
  <2>2. QED BY <2>1 DEF ThisTurn
<1>10. QED BY <1>7, <1>8, <1>9

(* The panel under the latest answer shows the present turn.               *)
LEMMA PanelIs ==
    ASSUME NEW s \in Seq(Msg), s # <<>>, Plain(Newest(s)), NEW h \in ThisTurn(s), s[h].role = "human",
           NEW hidden
    PROVE  Panel(s, Len(s), hidden) = Extracted(s, ThisTurn(s), hidden)
<1> DEFINE len == Len(s)
           T == ThisTurn(s)
           starts == {t \in DOMAIN s : t = 1 \/ s[t].role = "human"}
           next == {j \in DOMAIN s : j > len /\ j \in ToSet(Displayed(s)) /\ Plain(s[j])}
           carried == {t \in starts : /\ TurnEnd(s, t) >= len
                                      /\ \A j \in next : TurnEnd(s, t) < j
                                      /\ Extracted(s, t..TurnEnd(s, t), hidden) # {}}
<1>1. len \in Nat /\ DOMAIN s = 1..len /\ T \subseteq 1..len /\ h \in 1..len
  BY DEF ThisTurn
<1>2. Panel(s, len, hidden) =
        IF carried = {} THEN {} ELSE Extracted(s, Latest(carried)..TurnEnd(s, Latest(carried)), hidden)
  BY DEF Panel
<1>3. next = {}
  BY <1>1
<1>4. T = h..len
  <2>1. ASSUME NEW t \in T PROVE t \in h..len
    <3>1. ~(t < h)
      <4> SUFFICES ASSUME t < h PROVE FALSE
        OBVIOUS
      <4>1. h \in (t + 1)..len
        BY <1>1
      <4>2. QED BY <4>1 DEF ThisTurn
    <3>2. QED BY <1>1, <3>1
  <2>2. ASSUME NEW t \in h..len PROVE t \in T
    <3>1. t \in DOMAIN s /\ (t + 1)..len \subseteq (h + 1)..len
      BY <1>1
    <3>2. QED BY <3>1 DEF ThisTurn
  <2>3. QED BY <2>1, <2>2
<1>5. TurnEnd(s, h) = len
  BY <1>1, TurnEndIs
<1>6. ASSUME NEW t \in starts, TurnEnd(s, t) >= len PROVE t = h
  <2>1. t \in T /\ t \in DOMAIN s
    BY <1>6, TurnEndIs
  <2>2. t \in h..len
    BY <1>4, <2>1
  <2>3. CASE s[t].role = "human"
    <3>1. ~(h < t)
      <4> SUFFICES ASSUME h < t PROVE FALSE
        OBVIOUS
      <4>1. t \in (h + 1)..len
        BY <1>1, <2>2
      <4>2. QED BY <2>3, <4>1 DEF ThisTurn
    <3>2. QED BY <1>1, <2>2, <3>1
  <2>4. CASE t = 1
    BY <1>1, <2>2, <2>4
  <2>5. QED BY <2>3, <2>4
<1>7. h \in starts
  BY <1>1
<1> HIDE DEF next, T
<1>8. CASE Extracted(s, T, hidden) = {}
  <2>1. carried = {}
    BY <1>4, <1>5, <1>6, <1>8
  <2>2. QED BY <1>2, <1>8, <2>1 DEF T
<1>9. CASE Extracted(s, T, hidden) # {}
  <2>1. carried = {h}
    <3>1. h \in carried
      BY <1>1, <1>3, <1>4, <1>5, <1>7, <1>9
    <3>2. \A t \in carried : t = h
      BY <1>6
    <3>3. QED BY <3>1, <3>2
  <2>2. Latest({h}) = h
    <3>1. {h} \subseteq 1..len
      BY <1>1
    <3>2. QED BY <1>1, <3>1, LatestIs
  <2>3. QED BY <1>2, <1>4, <1>5, <2>1, <2>2 DEF T
<1>10. QED BY <1>8, <1>9

(* Two turns have no result of one call but those of forced writes, which *)
(* no panel shows.                                                        *)
LEMMA PanelsAgree ==
    ASSUME TalkInv, ForcedTold, NEW hidden, "write" \in hidden
    PROVE  Extracted(msgs, ThisTurn(msgs), hidden) =
               Extracted(msgs, ThisTurn(msgs), {}) \cap LivePanel(msgs, hidden)
<1>1. msgs \in Seq(Msg) /\ DOMAIN msgs = 1..Len(msgs) /\ Len(msgs) \in Nat /\ TalkSound(msgs)
  BY DEF TalkInv, Coherent, AInv, AgentTypeOK
<1>2. ThisTurn(msgs) \subseteq DOMAIN msgs
  BY DEF ThisTurn
<1>3. ASSUME NEW i \in ThisTurn(msgs), msgs[i].role = "tool",
             NEW j \in DOMAIN msgs, msgs[j].role = "tool", msgs[j].call = msgs[i].call,
             msgs[j].tool \notin hidden
      PROVE  j \in ThisTurn(msgs)
  <2> SUFFICES ASSUME j \notin ThisTurn(msgs) PROVE FALSE
    OBVIOUS
  <2>1. PICK h \in (j + 1)..Len(msgs) : msgs[h].role = "human"
    BY DEF ThisTurn
  <2>2. h < i
    <3>1. ~(h \in (i + 1)..Len(msgs))
      BY <2>1 DEF ThisTurn
    <3>2. QED BY <1>1, <1>2, <1>3, <2>1, <3>1
  <2>3. PICK o \in 1..(j - 1) : AnswerOf(msgs, j, o)
    BY <1>1, <1>3 DEF TalkSound, ResultsSound
  <2>4. PICK q \in 1..(i - 1) : AnswerOf(msgs, i, q)
    BY <1>1, <1>2, <1>3 DEF TalkSound, ResultsSound
  <2>5. h < q
    <3>1. h \notin (q + 1)..i /\ h # q
      BY <2>1, <2>4 DEF AnswerOf, OnlyTools
    <3>2. QED BY <1>1, <1>2, <2>2, <2>4, <3>1
  <2>6. o < q /\ o > 0 /\ o \in DOMAIN msgs /\ q \in DOMAIN msgs
    BY <1>1, <1>2, <2>1, <2>3, <2>4, <2>5
  <2>7. msgs[j].call[1] \in {0, o} /\ msgs[i].call[1] \in {0, q}
    BY <1>1, <2>3, <2>4, <2>6 DEF AnswerOf, TalkSound, CallsSound, OwnCalls, Ids
  <2>8. msgs[j].call[1] = 0
    BY <1>3, <2>6, <2>7
  <2>9. QED BY <1>3, <2>8 DEF ForcedTold
<1>4. QED BY <1>2, <1>3 DEF Extracted, LivePanel

LEMMA RepliesFit == TalkInv /\ ForcedTold => ReplyFaithful
<1> SUFFICES ASSUME TalkInv, ForcedTold, node = "idle", turn \notin excused, turn > 0
             PROVE  LET shown == Newest(Displayed(msgs))
                    IN /\ Plain(msgs[shown]) /\ msgs[shown].out # "blank" /\ shown \in ThisTurn(msgs)
                       /\ WriteReported(msgs) = "stored" <=> \E r \in Writes(turn) : r.out = "stored"
                       /\ {r.id : r \in {x \in ran : x.turn = turn /\ x.tool \notin NotTraces}}
                            \subseteq Panel(msgs, shown, NotTraces)
                       /\ \A hidden \in {NotTraces, NotSources} :
                            Panel(msgs, shown, hidden) =
                                Extracted(msgs, ThisTurn(msgs), {}) \cap LivePanel(msgs, hidden)
  BY DEF ReplyFaithful
<1> DEFINE len == Len(msgs)
<1>1. msgs \in Seq(Msg) /\ turn \in Nat
  BY DEF TalkInv, Coherent, AInv, AgentTypeOK
<1>2. msgs # <<>> /\ Plain(Newest(msgs)) /\ Newest(msgs).out # "blank"
  BY DEF TalkInv, Coherent, TurnSound
<1>3. PICK h \in ThisTurn(msgs) : msgs[h].role = "human"
  BY DEF TalkInv, Coherent, TurnSound
<1>4. Newest(Displayed(msgs)) = len
  BY <1>1, <1>2, NewestDisplayed
<1>5. Plain(msgs[len]) /\ msgs[len].out # "blank" /\ len \in ThisTurn(msgs)
  <2>1. len \in DOMAIN msgs /\ (len + 1)..len = {}
    BY <1>1, <1>2
  <2>2. QED BY <1>2, <2>1 DEF Newest, ThisTurn
<1>6. \A hidden : Panel(msgs, len, hidden) = Extracted(msgs, ThisTurn(msgs), hidden)
  BY <1>1, <1>2, <1>3, PanelIs
<1>7. \A hidden \in {NotTraces, NotSources} :
          Extracted(msgs, ThisTurn(msgs), hidden) =
              Extracted(msgs, ThisTurn(msgs), {}) \cap LivePanel(msgs, hidden)
  <2>1. "write" \in NotTraces /\ "write" \in NotSources
    BY DEF NotTraces, NotSources, Silent
  <2>2. QED BY <2>1, PanelsAgree
<1>8. /\ \A r \in ran : r.turn = turn => \E i \in ThisTurn(msgs) : ToldOf(msgs, i, r)
      /\ \A i \in TurnWrites(msgs) : \E r \in Writes(turn) : SameOutcome(msgs[i].out, r)
  BY DEF TalkInv, Coherent, Told
<1>9. ASSUME NEW r \in ran, r.turn = turn, r.tool \notin NotTraces
      PROVE  r.id \in Extracted(msgs, ThisTurn(msgs), NotTraces)
  <2>1. PICK i \in ThisTurn(msgs) : ToldOf(msgs, i, r)
    BY <1>8, <1>9
  <2>2. QED BY <1>9, <2>1 DEF ToldOf, Extracted
<1>10. TurnWrites(msgs) # {} => Latest(TurnWrites(msgs)) \in TurnWrites(msgs)
  <2>1. TurnWrites(msgs) \subseteq 1..Len(msgs) /\ Len(msgs) \in Nat
    BY <1>1 DEF TurnWrites, ThisTurn
  <2>2. QED BY <2>1, LatestAmong
<1>11. ASSUME WriteReported(msgs) = "stored" PROVE \E r \in Writes(turn) : r.out = "stored"
  <2>1. TurnWrites(msgs) # {} /\ msgs[Latest(TurnWrites(msgs))].out = "stored"
    BY <1>11 DEF WriteReported
  <2>2. PICK r \in Writes(turn) : SameOutcome("stored", r)
    BY <1>8, <1>10, <2>1
  <2>3. QED BY <2>2 DEF SameOutcome
<1>12. ASSUME NEW r \in Writes(turn), r.out = "stored" PROVE WriteReported(msgs) = "stored"
  <2>1. r \in ran /\ r.turn = turn /\ r.tool = "write"
    BY DEF Writes
  <2>2. PICK i \in ThisTurn(msgs) : ToldOf(msgs, i, r)
    BY <1>8, <2>1
  <2>3. i \in TurnWrites(msgs)
    BY <2>1, <2>2 DEF ToldOf, TurnWrites, IsWrite
  <2>4. PICK w \in Writes(turn) : SameOutcome(msgs[Latest(TurnWrites(msgs))].out, w)
    BY <1>8, <1>10, <2>3
  <2>5. w = r
    <3>1. turn \in 0..turn
      BY <1>1
    <3>2. QED BY <3>1 DEF TalkInv, Coherent, AInv, WritesSound
  <2>6. msgs[Latest(TurnWrites(msgs))].out = "stored"
    BY <1>12, <2>4, <2>5 DEF SameOutcome
  <2>7. QED BY <2>3, <2>6 DEF WriteReported
<1> HIDE DEF len
<1>13. QED BY <1>4, <1>5, <1>6, <1>7, <1>9, <1>11, <1>12
-----------------------------------------------------------------------------
(* How conversations grow.                                                 *)
LEMMA SaysMore ==
    ASSUME NEW s \in Seq(Msg), TalkSound(s), NEW m \in Msg, WellCalled(m), m.role # "tool",
           OwnCalls(m, Len(s) + 1)
    PROVE  TalkSound(Append(s, m))
<1> DEFINE n == Len(s)
<1>1. PICK t : t = Append(s, m)
  OBVIOUS
<1>2. /\ t \in Seq(Msg) /\ DOMAIN t = 1..(n + 1) /\ DOMAIN s = 1..n /\ n \in Nat
      /\ \A i \in 1..n : t[i] = s[i]
      /\ t[n + 1] = m
  BY <1>1
<1> HIDE DEF n
<1>3. \A i \in 1..(n + 1) : i \in 1..n \/ i = n + 1
  BY <1>2
<1>4. CallsSound(t)
  <2> SUFFICES ASSUME NEW i \in 1..(n + 1) PROVE WellCalled(t[i]) /\ OwnCalls(t[i], i)
    BY <1>2 DEF CallsSound
  <2>1. CASE i \in 1..n
    BY <1>2, <2>1 DEF TalkSound, CallsSound
  <2>2. CASE i = n + 1
    BY <1>2, <2>2 DEF n
  <2>3. QED BY <1>3, <2>1, <2>2
<1>5. ASSUME NEW j \in 1..(n + 1), t[j].role = "tool" PROVE \E o \in 1..(j - 1) : AnswerOf(t, j, o)
  <2>1. j \in 1..n
    BY <1>2, <1>3, <1>5
  <2>2. PICK o \in 1..(j - 1) : AnswerOf(s, j, o)
    BY <1>2, <1>5, <2>1 DEF TalkSound, ResultsSound
  <2>3. o \in 1..n /\ \A k \in (o + 1)..j : k \in 1..n
    BY <1>2, <2>1
  <2>4. AnswerOf(t, j, o)
    BY <1>2, <2>1, <2>2, <2>3 DEF AnswerOf, OnlyTools
  <2>5. QED BY <2>4
<1>6. ASSUME NEW j \in 1..(n + 1), NEW k \in 1..(n + 1), j < k, OnlyTools(t, j - 1, k)
      PROVE  t[j].call # t[k].call
  <2>1. k \in ((j - 1) + 1)..k
    BY <1>2, <1>6
  <2>2. k \in 1..n
    BY <1>2, <1>3, <1>6, <2>1 DEF OnlyTools
  <2>3. j \in 1..n /\ \A i \in ((j - 1) + 1)..k : i \in 1..n
    BY <1>2, <1>6, <2>2
  <2>4. OnlyTools(s, j - 1, k)
    BY <1>2, <1>6, <2>3 DEF OnlyTools
  <2>5. QED BY <1>2, <1>6, <2>2, <2>3, <2>4 DEF TalkSound, ResultsSound
<1>7. QED BY <1>1, <1>2, <1>4, <1>5, <1>6 DEF TalkSound, ResultsSound

(* Results of the answer at o, each of a call without one.                 *)
Answering(s, o, tail) ==
    /\ \A i \in DOMAIN tail :
         /\ tail[i] \in Msg /\ tail[i].role = "tool" /\ WellCalled(tail[i])
         /\ tail[i].call \in Ids(s[o].calls) \/ tail[i].call[1] = o
         /\ \A k \in (o + 1)..Len(s) : s[k].call # tail[i].call
    /\ \A i, j \in DOMAIN tail : tail[i].call = tail[j].call => i = j

LEMMA AnswersMore ==
    ASSUME NEW s \in Seq(Msg), TalkSound(s), NEW o \in DOMAIN s, s[o].role = "ai",
           OnlyTools(s, o, Len(s)), NEW tail \in Seq(Msg), Answering(s, o, tail)
    PROVE  TalkSound(s \o tail) /\ OnlyTools(s \o tail, o, Len(s \o tail))
<1> DEFINE n == Len(s)
           l == Len(tail)
<1>1. PICK t : t = s \o tail
  OBVIOUS
<1>2. /\ t \in Seq(Msg) /\ DOMAIN t = 1..(n + l) /\ Len(t) = n + l /\ DOMAIN s = 1..n /\ n \in Nat
      /\ l \in Nat /\ DOMAIN tail = 1..l
      /\ \A i \in 1..n : t[i] = s[i]
      /\ \A i \in 1..l : t[n + i] = tail[i]
  BY <1>1
<1> HIDE DEF n, l
<1>3. \A i \in 1..(n + l) : i \in 1..n \/ (i > n /\ i - n \in 1..l /\ t[i] = tail[i - n])
  <2> SUFFICES ASSUME NEW i \in 1..(n + l), i \notin 1..n
               PROVE  i > n /\ i - n \in 1..l /\ t[i] = tail[i - n]
    OBVIOUS
  <2>1. i > n /\ i - n \in 1..l /\ n + (i - n) = i
    BY <1>2
  <2>2. QED BY <1>2, <2>1
<1>4. /\ \A i \in 1..l : /\ tail[i].role = "tool" /\ WellCalled(tail[i])
                         /\ tail[i].call \in Ids(s[o].calls) \/ tail[i].call[1] = o
                         /\ \A k \in (o + 1)..n : s[k].call # tail[i].call
      /\ \A i, j \in 1..l : tail[i].call = tail[j].call => i = j
  BY <1>2 DEF Answering, n
<1>5. CallsSound(t)
  <2> SUFFICES ASSUME NEW i \in 1..(n + l) PROVE WellCalled(t[i]) /\ OwnCalls(t[i], i)
    BY <1>2 DEF CallsSound
  <2>1. CASE i \in 1..n
    BY <1>2, <2>1 DEF TalkSound, CallsSound
  <2>2. CASE i > n /\ i - n \in 1..l /\ t[i] = tail[i - n]
    BY <1>4, <2>2 DEF WellCalled, OwnCalls, IsErrorStub
  <2>3. QED BY <1>3, <2>1, <2>2
<1>6. o \in 1..n /\ OnlyTools(t, o, n + l)
  <2> SUFFICES ASSUME NEW k \in (o + 1)..(n + l) PROVE t[k].role = "tool"
    BY <1>2 DEF OnlyTools
  <2>1. k \in 1..(n + l) /\ (k \in 1..n => k \in (o + 1)..n)
    BY <1>2
  <2>2. CASE k \in 1..n
    BY <1>2, <2>1, <2>2 DEF OnlyTools, n
  <2>3. CASE k > n /\ k - n \in 1..l /\ t[k] = tail[k - n]
    BY <1>4, <2>3
  <2>4. QED BY <1>3, <2>1, <2>2, <2>3
<1>7. ASSUME NEW j \in 1..(n + l), t[j].role = "tool" PROVE \E p \in 1..(j - 1) : AnswerOf(t, j, p)
  <2>1. CASE j \in 1..n
    <3>1. PICK p \in 1..(j - 1) : AnswerOf(s, j, p)
      BY <1>2, <1>7, <2>1 DEF TalkSound, ResultsSound
    <3>2. p \in 1..n /\ \A k \in (p + 1)..j : k \in 1..n
      BY <1>2, <2>1
    <3>3. AnswerOf(t, j, p)
      BY <1>2, <2>1, <3>1, <3>2 DEF AnswerOf, OnlyTools
    <3>4. QED BY <3>3
  <2>2. CASE j > n /\ j - n \in 1..l /\ t[j] = tail[j - n]
    <3>1. o \in 1..(j - 1) /\ (o + 1)..j \subseteq (o + 1)..(n + l)
      BY <1>2, <1>6, <2>2
    <3>2. t[j].call \in Ids(t[o].calls) \/ t[j].call[1] = o
      BY <1>2, <1>4, <1>6, <2>2
    <3>3. AnswerOf(t, j, o)
      BY <1>2, <1>6, <3>1, <3>2 DEF AnswerOf, OnlyTools
    <3>4. QED BY <3>1, <3>3
  <2>3. QED BY <1>3, <2>1, <2>2
<1>8. ASSUME NEW j \in 1..(n + l), NEW k \in 1..(n + l), j < k, OnlyTools(t, j - 1, k)
      PROVE  t[j].call # t[k].call
  <2>1. CASE k \in 1..n
    <3>1. j \in 1..n /\ \A i \in ((j - 1) + 1)..k : i \in 1..n
      BY <1>2, <1>8, <2>1
    <3>2. OnlyTools(s, j - 1, k)
      BY <1>2, <1>8, <3>1 DEF OnlyTools
    <3>3. j \in DOMAIN s /\ k \in DOMAIN s /\ t[j] = s[j] /\ t[k] = s[k]
      BY <1>2, <2>1, <3>1
    <3>4. s[j].call # s[k].call
      BY <1>8, <3>2, <3>3 DEF TalkSound, ResultsSound
    <3>5. QED BY <3>3, <3>4
  <2>2. CASE k > n /\ k - n \in 1..l /\ t[k] = tail[k - n]
    <3>1. ~(j <= o)
      <4> SUFFICES ASSUME j <= o PROVE FALSE
        OBVIOUS
      <4>1. o \in ((j - 1) + 1)..k
        BY <1>2, <1>6, <2>2
      <4>2. t[o].role = "tool" /\ t[o] = s[o]
        BY <1>2, <1>6, <1>8, <4>1 DEF OnlyTools
      <4>3. QED BY <4>2
    <3>2. CASE j \in 1..n
      <4>1. j \in (o + 1)..n
        BY <1>2, <1>6, <3>1, <3>2
      <4>2. QED BY <1>2, <1>4, <2>2, <3>2, <4>1
    <3>3. CASE j > n /\ j - n \in 1..l /\ t[j] = tail[j - n]
      <4>1. j - n # k - n
        BY <1>2, <1>8
      <4>2. QED BY <1>4, <2>2, <3>3, <4>1
    <3>4. QED BY <1>3, <3>2, <3>3
  <2>3. QED BY <1>3, <2>1, <2>2
<1>9. QED BY <1>1, <1>2, <1>5, <1>6, <1>7, <1>8 DEF TalkSound, ResultsSound

(* Messages may change their words, and the last one lose calls.           *)
LEMMA Retold ==
    ASSUME NEW s \in Seq(Msg), TalkSound(s), NEW t \in Seq(Msg), Len(t) = Len(s),
           \A i \in DOMAIN s : /\ t[i].role = s[i].role
                               /\ s[i].role = "tool" => t[i].call = s[i].call
                               /\ WellCalled(t[i]) /\ OwnCalls(t[i], i)
                               /\ i < Len(s) => t[i].calls = s[i].calls
    PROVE  TalkSound(t)
<1>1. DOMAIN s = DOMAIN t /\ DOMAIN s = 1..Len(s) /\ Len(s) \in Nat
  OBVIOUS
<1>2. CallsSound(t)
  BY <1>1 DEF CallsSound
<1>3. ASSUME NEW j \in DOMAIN t, t[j].role = "tool" PROVE \E o \in 1..(j - 1) : AnswerOf(t, j, o)
  <2>1. PICK o \in 1..(j - 1) : AnswerOf(s, j, o)
    BY <1>1, <1>3 DEF TalkSound, ResultsSound
  <2>2. o \in DOMAIN s /\ o < Len(s) /\ \A k \in (o + 1)..j : k \in DOMAIN s
    BY <1>1
  <2>3. t[o].role = "ai" /\ OnlyTools(t, o, j)
    BY <1>1, <2>1, <2>2 DEF AnswerOf, OnlyTools
  <2>4. t[j].call = s[j].call /\ t[o].calls = s[o].calls
    BY <1>1, <1>3, <2>2
  <2>5. QED BY <2>1, <2>3, <2>4 DEF AnswerOf
<1>4. ASSUME NEW j \in DOMAIN t, NEW k \in DOMAIN t, j < k, OnlyTools(t, j - 1, k)
      PROVE  t[j].call # t[k].call
  <2>1. \A i \in ((j - 1) + 1)..k : i \in DOMAIN s
    BY <1>1
  <2>2. OnlyTools(s, j - 1, k)
    BY <1>1, <1>4, <2>1 DEF OnlyTools
  <2>3. s[j].call # s[k].call
    BY <1>1, <1>4, <2>2 DEF TalkSound, ResultsSound
  <2>4. j \in ((j - 1) + 1)..k /\ k \in ((j - 1) + 1)..k
    BY <1>1, <1>4
  <2>5. s[j].role = "tool" /\ s[k].role = "tool"
    BY <2>2, <2>4 DEF OnlyTools
  <2>6. QED BY <1>1, <2>3, <2>5
<1>5. QED BY <1>2, <1>3, <1>4 DEF TalkSound, ResultsSound

(* Each call has one result in a list of them.                             *)
LEMMA ResultsOnce ==
    ASSUME NEW S \in SUBSET Call, IsFiniteSet(S), \A c, d \in S : c.id = d.id => c = d,
           NEW out \in Outs
    PROVE  /\ \A i \in DOMAIN Results(S, out) :
                \E d \in S : Results(S, out)[i].call = d.id /\ Results(S, out)[i].tool = d.tool
           /\ \A i, j \in DOMAIN Results(S, out) :
                Results(S, out)[i].call = Results(S, out)[j].call => i = j
<1> DEFINE n == Cardinality(S)
           c == SetToSeq(S)
           r == Results(S, out)
<1>1. n \in Nat /\ c \in [1..n -> S] /\ \A i, j \in 1..n : c[i] = c[j] => i = j
  BY Listed
<1> HIDE DEF n, c
<1>2. r = [i \in 1..n |-> ToolResult(c[i], out)]
  BY <1>1 DEF Results, c
<1> HIDE DEF r
<1>3. DOMAIN r = 1..n /\ \A i \in 1..n : c[i] \in S /\ r[i].call = c[i].id /\ r[i].tool = c[i].tool
  BY <1>1, <1>2 DEF ToolResult, Message
<1>4. \A i, j \in 1..n : r[i].call = r[j].call => i = j
  BY <1>1, <1>3
<1>5. QED BY <1>3, <1>4 DEF r

LEMMA OutputsOnce ==
    ASSUME NEW S \in SUBSET Call, IsFiniteSet(S), \A c, d \in S : c.id = d.id => c = d,
           NEW write \in Outs
    PROVE  \A i, j \in DOMAIN Outputs(S, write) :
                Outputs(S, write)[i].call = Outputs(S, write)[j].call => i = j
<1> DEFINE n == Cardinality(S)
           c == SetToSeq(S)
           r == Outputs(S, write)
<1>1. n \in Nat /\ c \in [1..n -> S] /\ \A i, j \in 1..n : c[i] = c[j] => i = j
  BY Listed
<1> HIDE DEF n, c
<1>2. r = [i \in 1..n |-> ToolResult(c[i], Outcome(c[i], write))]
  BY <1>1 DEF Outputs, c
<1> HIDE DEF r
<1>3. DOMAIN r = 1..n /\ \A i \in 1..n : c[i] \in S /\ r[i].call = c[i].id
  BY <1>1, <1>2 DEF ToolResult, Message
<1>4. \A i, j \in 1..n : r[i].call = r[j].call => i = j
  BY <1>1, <1>3
<1>5. QED BY <1>3, <1>4 DEF r

(* The answers of a turn.                                                  *)
Replies(s) == {i \in ThisTurn(s) : s[i].role = "ai" /\ ~IsErrorStub(s[i])}

LEMMA RepliesGrow ==
    ASSUME NEW s \in Seq(Msg), NEW t \in Seq(Msg), Grows(s, t),
           \A i \in 1..Len(s) : IsErrorStub(t[i]) <=> IsErrorStub(s[i])
    PROVE  /\ Replies(s) \subseteq 1..Len(s) /\ IsFiniteSet(Replies(s)) /\ Cardinality(Replies(s)) \in Nat
           /\ (\A i \in (Len(s) + 1)..Len(t) : t[i].role # "ai" \/ IsErrorStub(t[i])) =>
                    Replies(t) = Replies(s)
           /\ Len(t) = Len(s) + 1 /\ t[Len(t)].role = "ai" /\ ~IsErrorStub(t[Len(t)]) =>
                    Cardinality(Replies(t)) = Cardinality(Replies(s)) + 1
<1>1. /\ Len(s) \in Nat /\ Len(t) \in Nat /\ DOMAIN s = 1..Len(s) /\ DOMAIN t = 1..Len(t)
      /\ ThisTurn(s) \subseteq 1..Len(s)
      /\ ThisTurn(t) = ThisTurn(s) \cup ((Len(s) + 1)..Len(t))
  BY TurnGrows DEF ThisTurn
<1>2. Replies(s) \subseteq 1..Len(s)
  BY <1>1 DEF Replies
<1>3. IsFiniteSet(1..Len(s))
  BY <1>1, NumbersFinite
<1>4. IsFiniteSet(Replies(s)) /\ Cardinality(Replies(s)) \in Nat
  BY <1>2, <1>3, FS_Subset, FS_CardinalityType
<1>5. ASSUME \A i \in (Len(s) + 1)..Len(t) : t[i].role # "ai" \/ IsErrorStub(t[i])
      PROVE  Replies(t) = Replies(s)
  BY <1>1, <1>5 DEF Replies, Grows
<1>6. ASSUME Len(t) = Len(s) + 1, t[Len(t)].role = "ai", ~IsErrorStub(t[Len(t)])
      PROVE  Cardinality(Replies(t)) = Cardinality(Replies(s)) + 1
  <2>1. (Len(s) + 1)..Len(t) = {Len(t)} /\ Len(t) \notin 1..Len(s)
    BY <1>1, <1>6
  <2>2. Replies(t) = Replies(s) \cup {Len(t)}
    BY <1>1, <1>6, <2>1 DEF Replies, Grows
  <2>3. Len(t) \notin Replies(s)
    BY <1>2, <2>1
  <2>4. QED BY <1>4, <2>2, <2>3, FS_AddElement
<1>7. QED BY <1>2, <1>4, <1>5, <1>6

LEMMA RepliesAre == AnswersThisTurn = Replies(msgs)
BY DEF AnswersThisTurn, Replies

(* While a batch of calls is open no user message is the newest.           *)
LEMMA BatchIs ==
    ASSUME TalkInv, InBatch
    PROVE  /\ AnswerAt \in DOMAIN msgs /\ msgs[AnswerAt] = Pending /\ Pending.role = "ai"
           /\ OnlyTools(msgs, AnswerAt, Len(msgs))
           /\ \A k \in (AnswerAt + 1)..Len(msgs) : msgs[k].call \notin Ids(Pending.calls)
           /\ Pending.calls \subseteq Call /\ IsFiniteSet(Pending.calls)
           /\ OwnCalls(Pending, AnswerAt)
           /\ ~NewUserTurn(msgs) /\ Newest(msgs).role # "human"
<1>1. /\ AnswerAt \in DOMAIN msgs /\ msgs[AnswerAt] = Pending /\ Pending.role = "ai"
      /\ Pending.calls \subseteq Call /\ IsFiniteSet(Pending.calls)
  BY PendingIs DEF TalkInv
<1>2. /\ OnlyTools(msgs, AnswerAt, Len(msgs)) /\ TalkSound(msgs) /\ msgs \in Seq(Msg)
      /\ \A k \in (AnswerAt + 1)..Len(msgs) : msgs[k].call \notin Ids(Pending.calls)
  BY DEF TalkInv, Coherent, BatchOpen, AInv, AgentTypeOK
<1>3. OwnCalls(Pending, AnswerAt)
  BY <1>1, <1>2 DEF TalkSound, CallsSound
<1>4. Len(msgs) = AnswerAt \/ Len(msgs) \in (AnswerAt + 1)..Len(msgs)
  BY <1>1, <1>2
<1>5. Newest(msgs).role # "human"
  BY <1>1, <1>2, <1>4 DEF Newest, OnlyTools
<1>6. QED BY <1>1, <1>2, <1>3, <1>5 DEF NewUserTurn
-----------------------------------------------------------------------------
(* What a step leaves as it was.                                           *)
LEMMA StepsKept ==
    ASSUME StepsSound, node \notin {"idle", "generate_final"}, node' \notin {"idle", "generate_final"},
           Replies(msgs') = Replies(msgs), steps' = steps, NewUserTurn(msgs') = NewUserTurn(msgs)
    PROVE  StepsSound'
<1>1. Cardinality(Replies(msgs)) = StepBase /\ StepBase < MaxSteps
  BY RepliesAre DEF StepsSound
<1>2. StepBase' = StepBase
  BY DEF StepBase
<1>3. AnswersThisTurn' = Replies(msgs')
  BY DEF AnswersThisTurn, Replies
<1>4. QED BY <1>1, <1>2, <1>3 DEF StepsSound

LEMMA HumanKept ==
    ASSUME AInv, TurnSound, msgs' \in Seq(Msg), Grows(msgs, msgs'), turn' = turn, turn > 0
    PROVE  \E i \in ThisTurn(msgs') : msgs'[i].role = "human"
<1>1. msgs \in Seq(Msg)
  BY DEF AInv, AgentTypeOK
<1>2. PICK i \in ThisTurn(msgs) : msgs[i].role = "human"
  BY DEF TurnSound
<1>3. i \in ThisTurn(msgs') /\ msgs'[i].role = "human"
  <2>1. i \in 1..Len(msgs)
    BY <1>1 DEF ThisTurn
  <2>2. QED BY <1>1, <1>2, <2>1, TurnGrows DEF Grows
<1>4. QED BY <1>3

LEMMA TurnKept ==
    ASSUME AInv, TurnSound, msgs' \in Seq(Msg), Grows(msgs, msgs'), turn' = turn, node # "idle", node' # "idle"
    PROVE  TurnSound'
BY HumanKept DEF TurnSound

LEMMA ToldKept ==
    ASSUME AInv, Told, msgs' \in Seq(Msg), Grows(msgs, msgs'), turn' = turn, ran' = ran,
           excused \subseteq excused',
           \A i \in 1..Len(msgs) : msgs[i].role = "tool" => msgs'[i] = msgs[i],
           turn \notin excused' => \A i \in (Len(msgs) + 1)..Len(msgs') : ~IsWrite(msgs'[i])
    PROVE  Told'
<1> SUFFICES ASSUME turn \notin excused'
             PROVE  /\ \A r \in ran : r.turn = turn => \E i \in ThisTurn(msgs') : ToldOf(msgs', i, r)
                    /\ \A i \in TurnWrites(msgs') : \E r \in Writes(turn) : SameOutcome(msgs'[i].out, r)
  <2>1. \A t : Writes(t)' = Writes(t)
    BY SameRuns
  <2>2. Writes(turn)' = Writes(turn)
    BY DEF Writes
  <2>3. QED BY <2>2 DEF Told
<1>1. msgs \in Seq(Msg) /\ ThisTurn(msgs) \subseteq 1..Len(msgs)
  BY DEF AInv, AgentTypeOK, ThisTurn
<1>2. ThisTurn(msgs') = ThisTurn(msgs) \cup ((Len(msgs) + 1)..Len(msgs'))
  BY <1>1, TurnGrows
<1>3. /\ \A r \in ran : r.turn = turn => \E i \in ThisTurn(msgs) : ToldOf(msgs, i, r)
      /\ \A i \in TurnWrites(msgs) : \E r \in Writes(turn) : SameOutcome(msgs[i].out, r)
  BY DEF Told
<1>4. ASSUME NEW r \in ran, r.turn = turn PROVE \E i \in ThisTurn(msgs') : ToldOf(msgs', i, r)
  <2>1. PICK i \in ThisTurn(msgs) : ToldOf(msgs, i, r)
    BY <1>3, <1>4
  <2>2. i \in ThisTurn(msgs') /\ msgs'[i] = msgs[i]
    BY <1>1, <1>2, <2>1 DEF ToldOf
  <2>3. QED BY <2>1, <2>2 DEF ToldOf
<1>5. ASSUME NEW i \in TurnWrites(msgs') PROVE \E r \in Writes(turn) : SameOutcome(msgs'[i].out, r)
  <2>1. i \in ThisTurn(msgs') /\ IsWrite(msgs'[i])
    BY DEF TurnWrites
  <2>2. i \in ThisTurn(msgs) /\ i \in 1..Len(msgs)
    BY <1>1, <1>2, <2>1
  <2>3. msgs'[i] = msgs[i]
    BY <2>1, <2>2 DEF IsWrite, Grows
  <2>4. QED BY <1>3, <2>1, <2>2, <2>3 DEF TurnWrites
<1>6. QED BY <1>4, <1>5

LEMMA QuietTalk ==
    ASSUME TalkInv, UNCHANGED <<msgs, steps, turn, excused, ran>>,
           node \in {"idle", "generate_final"} => node' = node,
           node' \in {"idle", "generate_final"} => node' = node,
           InBatch' => InBatch,
           node' \in {"check_approval", "await_approval"} => node \in {"check_approval", "await_approval"}
    PROVE  Coherent'
<1>1. TalkSound(msgs') /\ Told'
  BY DEF TalkInv, Coherent, Told, Writes
<1>2. AnswerAt' = AnswerAt /\ Pending' = Pending
  BY SameTalk
<1>3. BatchOpen'
  BY <1>2 DEF TalkInv, Coherent, BatchOpen
<1>4. AnswersThisTurn' = AnswersThisTurn /\ StepBase' = StepBase /\ (ToolsUntilLimit <=> ToolsUntilLimit')
  BY DEF AnswersThisTurn, StepBase, ToolsUntilLimit
<1>5. StepsSound'
  BY <1>4 DEF TalkInv, Coherent, StepsSound
<1>6. TurnSound'
  BY DEF TalkInv, Coherent, TurnSound
<1>7. QED BY <1>1, <1>3, <1>5, <1>6 DEF Coherent
-----------------------------------------------------------------------------
(* One lemma per action. *)
LEMMA NewMessageTalk ==
    ASSUME TalkInv, NEW f \in BOOLEAN, NewMessage(f)
    PROVE  Coherent'
<1>1. /\ msgs \in Seq(Msg) /\ TalkSound(msgs) /\ turn \in Nat /\ Dated
      /\ msgs' = Append(msgs, Human) /\ node' = "call_llm" /\ turn' = turn + 1 /\ ran' = ran
  BY DEF TalkInv, Coherent, AInv, AgentTypeOK, NewMessage
<1>2. /\ Human \in Msg /\ WellCalled(Human) /\ Human.role = "human" /\ Human.calls = {}
      /\ ThisTurn(msgs') = {Len(msgs) + 1} /\ NewUserTurn(msgs')
  <2>1. Human.role = "human" /\ Human.calls = {}
    BY DEF Human, Message, NoCalls
  <2>2. QED BY <1>1, <2>1, TurnBegins
<1>3. msgs'[Len(msgs) + 1] = Human
  BY <1>1, <1>2
<1>4. TalkSound(msgs')
  <2>1. OwnCalls(Human, Len(msgs) + 1)
    BY <1>2 DEF OwnCalls
  <2>2. QED BY <1>1, <1>2, <2>1, SaysMore
<1>5. BatchOpen'
  BY <1>1 DEF BatchOpen, InBatch
<1>6. StepsSound'
  <2>1. Replies(msgs') = {}
    BY <1>2, <1>3 DEF Replies
  <2>2. AnswersThisTurn' = Replies(msgs')
    BY DEF AnswersThisTurn, Replies
  <2>3. Cardinality(AnswersThisTurn') = 0
    BY <2>1, <2>2, FS_EmptySet
  <2>4. StepBase' = 0 /\ 0 < MaxSteps
    BY <1>2, AgentAssumption DEF StepBase
  <2>5. QED BY <1>1, <2>3, <2>4 DEF StepsSound
<1>7. TurnSound'
  BY <1>1, <1>2, <1>3 DEF TurnSound
<1>8. Told'
  <2>1. \A r \in ran' : r.turn # turn'
    BY <1>1 DEF Dated
  <2>2. TurnWrites(msgs') = {}
    BY <1>2, <1>3 DEF TurnWrites, IsWrite
  <2>3. QED BY <2>1, <2>2 DEF Told
<1>9. QED BY <1>4, <1>5, <1>6, <1>7, <1>8 DEF Coherent

(* The calls of an answer carry its place or the mark of a forced write.   *)
LEMMA AnswerOwns ==
    ASSUME AInv, NEW answer \in Answers, NEW calls, NEW out \in {"text", "blank"},
           LET asked == ModelCalls(answer.tools)
           IN calls \in {asked, asked \cup {ForcedCall(asked)}}
    PROVE  OwnCalls(Assistant(calls, out), Len(msgs) + 1)
<1> DEFINE asked == ModelCalls(answer.tools)
           m == Assistant(calls, out)
           n == Len(msgs) + 1
<1>1. n \in Nat \ {0}
  BY DEF AInv, AgentTypeOK
<1>2. m.role = "ai" /\ m.calls = calls /\ m.out = out
  BY DEF Assistant, Message
<1>3. \A c \in asked : \E i \in DOMAIN answer.tools : c = [id |-> <<n, i>>, tool |-> answer.tools[i]]
  BY DEF ModelCalls
<1>4. ForcedCall(asked).id[1] = 0 /\ ForcedCall(asked).tool = "write"
  BY DEF ForcedCall
<1> HIDE DEF asked, n
<1>5. \A c \in asked : c.id[1] = n
  BY <1>3
<1>6. \A c, d \in asked : c.id = d.id => c = d
  <2> SUFFICES ASSUME NEW c \in asked, NEW d \in asked, c.id = d.id PROVE c = d
    OBVIOUS
  <2>1. PICK i : c = [id |-> <<n, i>>, tool |-> answer.tools[i]]
    BY <1>3
  <2>2. PICK j : d = [id |-> <<n, j>>, tool |-> answer.tools[j]]
    BY <1>3
  <2>3. <<n, i>> = <<n, j>>
    BY <2>1, <2>2
  <2>4. i = j
    BY <2>3
  <2>5. QED BY <2>1, <2>2, <2>4
<1>7. calls = asked \/ calls = asked \cup {ForcedCall(asked)}
  BY DEF asked
<1>8. \A c \in calls : c.id[1] \in {0, n} /\ (c.id[1] = 0 => c.tool = "write")
  BY <1>1, <1>4, <1>5, <1>7
<1>9. \A c, d \in calls : c.id = d.id => c = d
  BY <1>1, <1>4, <1>5, <1>6, <1>7
<1> HIDE DEF m
<1>10. ~IsErrorStub(m)
  BY <1>2 DEF IsErrorStub
<1>11. QED BY <1>2, <1>8, <1>9, <1>10 DEF OwnCalls, m, n

LEMMA CallLLMTalk ==
    ASSUME TalkInv, NEW answer \in Answers, CallLLM(answer)
    PROVE  Coherent'
<1> DEFINE asked == ModelCalls(answer.tools)
           calls == IF force /\ ~WriteUsed(msgs) THEN asked \cup {ForcedCall(asked)} ELSE asked
           m == Assistant(calls, answer.out)
<1>1. /\ msgs \in Seq(Msg) /\ Len(msgs) \in Nat /\ TalkSound(msgs) /\ turn \in Nat /\ steps \in Nat
      /\ StepsSound /\ TurnSound /\ Told /\ AInv /\ AgentTypeOK
  BY DEF TalkInv, Coherent, AInv, AgentTypeOK
<1>2. /\ node = "call_llm" /\ msgs' = Append(msgs, m)
      /\ node' = Route(StepBase + 1, calls) /\ steps' = StepBase + 1
      /\ UNCHANGED <<turn, excused, ran>>
  BY DEF CallLLM
<1>3. answer.out \in {"text", "blank"}
  BY AgentAssumption
<1>4. calls \in SUBSET Call /\ IsFiniteSet(calls) /\ calls \in {asked, asked \cup {ForcedCall(asked)}}
  <2>1. /\ asked \in SUBSET Call /\ IsFiniteSet(asked) /\ ForcedCall(asked) \in Call
    BY <1>1, CallsAre
  <2> HIDE DEF asked
  <2>2. asked \cup {ForcedCall(asked)} \in SUBSET Call /\ IsFiniteSet(asked \cup {ForcedCall(asked)})
    BY <2>1, FS_AddElement
  <2>3. QED BY <2>1, <2>2
<1>5. OwnCalls(m, Len(msgs) + 1)
  <2> HIDE DEF calls, m
  <2>1. OwnCalls(Assistant(calls, answer.out), Len(msgs) + 1)
    BY <1>1, <1>3, <1>4, AnswerOwns
  <2>2. QED BY <2>1 DEF m
<1> HIDE DEF asked, calls
<1>6. m \in Msg /\ m.role = "ai" /\ m.calls = calls /\ WellCalled(m) /\ ~IsWrite(m) /\ ~IsErrorStub(m)
  <2>1. answer.out \in Outs
    BY <1>3 DEF Outs
  <2>2. m \in Msg /\ m.role = "ai" /\ m.calls = calls /\ WellCalled(m)
    BY <1>4, <2>1, AssistantIs
  <2>3. m.out = answer.out
    BY DEF Assistant, Message
  <2>4. QED BY <1>3, <2>2, <2>3 DEF IsWrite, IsErrorStub
<1> HIDE DEF m
<1>7. TalkSound(msgs')
  BY <1>1, <1>2, <1>5, <1>6, SaysMore
<1>8. /\ msgs' \in Seq(Msg) /\ Len(msgs') = Len(msgs) + 1
      /\ \A i \in 1..Len(msgs) : msgs'[i] = msgs[i]
      /\ msgs'[Len(msgs) + 1] = m /\ Newest(msgs') = m
      /\ \A i \in (Len(msgs) + 1)..Len(msgs') : msgs'[i] = m
  <2>1. /\ msgs' \in Seq(Msg) /\ Len(msgs') = Len(msgs) + 1
        /\ \A i \in 1..Len(msgs) : msgs'[i] = msgs[i]
        /\ msgs'[Len(msgs) + 1] = m
    BY <1>1, <1>2, <1>6
  <2>2. \A i \in (Len(msgs) + 1)..Len(msgs') : i = Len(msgs) + 1
    BY <1>1, <2>1
  <2>3. QED BY <2>1, <2>2 DEF Newest
<1>9. Grows(msgs, msgs')
  BY <1>1, <1>6, <1>8 DEF Grows
<1>10. AnswerAt' = Len(msgs) + 1 /\ Pending' = m
  BY <1>1, <1>2, <1>6, AnswerIsNew
<1>11. node' \in {"check_approval", "generate_final"}
  BY <1>2 DEF Route
<1>12. BatchOpen'
  <2>1. (Len(msgs) + 2)..Len(msgs') = {} /\ (Len(msgs) + 1) + 1 = Len(msgs) + 2
    BY <1>1, <1>8
  <2>2. AnswerAt' = Len(msgs') /\ (AnswerAt' + 1)..Len(msgs') = {}
    BY <1>8, <1>10, <2>1
  <2>3. QED BY <2>2 DEF BatchOpen, OnlyTools
<1>13. Cardinality(AnswersThisTurn') = StepBase + 1 /\ StepBase < MaxSteps /\ StepBase \in Nat
  <2>1. Cardinality(Replies(msgs)) = StepBase /\ StepBase < MaxSteps
    BY <1>1, <1>2, RepliesAre DEF StepsSound
  <2>2. \A i \in 1..Len(msgs) : IsErrorStub(msgs'[i]) <=> IsErrorStub(msgs[i])
    BY <1>8
  <2>3. msgs'[Len(msgs')].role = "ai" /\ ~IsErrorStub(msgs'[Len(msgs')])
    BY <1>6, <1>8
  <2>4. Cardinality(Replies(msgs')) = Cardinality(Replies(msgs)) + 1
    BY <1>1, <1>8, <1>9, <2>2, <2>3, RepliesGrow
  <2>5. AnswersThisTurn' = Replies(msgs')
    BY DEF AnswersThisTurn, Replies
  <2>6. StepBase \in Nat
    BY <1>1 DEF StepBase
  <2>7. QED BY <2>1, <2>4, <2>5, <2>6
<1>14. StepsSound'
  <2>1. ~NewUserTurn(msgs')
    BY <1>6, <1>8 DEF NewUserTurn
  <2>2. StepBase' = StepBase + 1
    BY <1>2, <2>1 DEF StepBase
  <2>3. CASE node' = "check_approval"
    <3>1. ~(StepBase + 1 >= MaxSteps)
      BY <1>2, <2>3 DEF Route
    <3>2. StepBase + 1 < MaxSteps
      BY <1>13, <3>1, AgentAssumption
    <3>3. QED BY <1>13, <2>2, <2>3, <3>2 DEF StepsSound
  <2>4. CASE node' = "generate_final"
    <3>1. StepBase + 1 >= MaxSteps \/ calls = NoCalls
      BY <1>2, <2>4 DEF Route
    <3>2. calls # NoCalls => StepBase + 1 = MaxSteps
      BY <1>13, <3>1, AgentAssumption
    <3>3. ToolsUntilLimit'
      BY <1>6, <1>8, <1>13, <3>2 DEF ToolsUntilLimit
    <3>4. QED BY <2>4, <3>3 DEF StepsSound
  <2>5. QED BY <1>11, <2>3, <2>4
<1>15. TurnSound'
  BY <1>1, <1>2, <1>8, <1>9, <1>11, TurnKept
<1>16. Told'
  <2>1. \A i \in (Len(msgs) + 1)..Len(msgs') : ~IsWrite(msgs'[i])
    BY <1>6, <1>8
  <2>2. QED BY <1>1, <1>2, <1>8, <1>9, <2>1, ToldKept
<1>17. QED BY <1>7, <1>12, <1>14, <1>15, <1>16 DEF Coherent

(* A message without calls, of the model or of the system.                 *)
LEMMA SaysOne ==
    ASSUME TalkInv, NEW m \in Msg, m.role \in {"ai", "system"}, m.calls = {},
           msgs' = Append(msgs, m), turn' = turn
    PROVE  /\ msgs' \in Seq(Msg) /\ msgs' # <<>> /\ Grows(msgs, msgs') /\ Newest(msgs') = m
           /\ TalkSound(msgs')
           /\ turn > 0 => \E i \in ThisTurn(msgs') : msgs'[i].role = "human"
           /\ ran' = ran /\ excused \subseteq excused' => Told'
<1>1. msgs \in Seq(Msg) /\ Len(msgs) \in Nat /\ TalkSound(msgs) /\ TurnSound /\ Told /\ AInv
  BY DEF TalkInv, Coherent, AInv, AgentTypeOK
<1>2. WellCalled(m) /\ OwnCalls(m, Len(msgs) + 1)
  BY FS_EmptySet DEF WellCalled, OwnCalls
<1>3. TalkSound(msgs')
  BY <1>1, <1>2, SaysMore
<1>4. /\ msgs' \in Seq(Msg) /\ Len(msgs') = Len(msgs) + 1
      /\ \A i \in 1..Len(msgs) : msgs'[i] = msgs[i]
      /\ msgs'[Len(msgs) + 1] = m
  BY <1>1
<1>5. \A i \in (Len(msgs) + 1)..Len(msgs') : msgs'[i] = m
  <2>1. \A i \in (Len(msgs) + 1)..Len(msgs') : i = Len(msgs) + 1
    BY <1>1, <1>4
  <2>2. QED BY <1>4, <2>1
<1>6. Grows(msgs, msgs') /\ Newest(msgs') = m /\ msgs' # <<>>
  BY <1>1, <1>4, <1>5 DEF Grows, Newest
<1>7. turn > 0 => \E i \in ThisTurn(msgs') : msgs'[i].role = "human"
  BY <1>1, <1>4, <1>6, HumanKept
<1>8. ASSUME ran' = ran, excused \subseteq excused' PROVE Told'
  <2>1. \A i \in (Len(msgs) + 1)..Len(msgs') : ~IsWrite(msgs'[i])
    BY <1>5 DEF IsWrite
  <2>2. QED BY <1>1, <1>4, <1>6, <1>8, <2>1, ToldKept
<1>9. QED BY <1>3, <1>4, <1>6, <1>7, <1>8

LEMMA StubIs ==
    /\ Assistant(NoCalls, "stub") \in Msg /\ Assistant(NoCalls, "stub").role = "ai"
    /\ Assistant(NoCalls, "stub").calls = {} /\ Assistant(NoCalls, "stub").out = "stub"
<1>1. {} \in SUBSET Call /\ IsFiniteSet({}) /\ "stub" \in Outs
  BY FS_EmptySet DEF Outs
<1>2. Assistant({}, "stub") \in Msg /\ Assistant({}, "stub").role = "ai" /\ Assistant({}, "stub").calls = {}
  BY <1>1, AssistantIs
<1>3. Assistant({}, "stub").out = "stub"
  BY DEF Assistant, Message
<1>4. QED BY <1>2, <1>3 DEF NoCalls

LEMMA CallLLMFailsTalk ==
    ASSUME TalkInv, CallLLMFails
    PROVE  Coherent'
<1> DEFINE m == Assistant(NoCalls, "stub")
<1>1. /\ node = "call_llm" /\ node' = "generate_final" /\ msgs' = Append(msgs, m)
      /\ turn' = turn /\ ran' = ran /\ excused \subseteq excused'
  BY DEF CallLLMFails
<1>2. m \in Msg /\ m.role = "ai" /\ m.calls = {}
  BY StubIs
<1> HIDE DEF m
<1>3. /\ Newest(msgs') = m /\ TalkSound(msgs') /\ Told'
      /\ turn > 0 => \E i \in ThisTurn(msgs') : msgs'[i].role = "human"
  BY <1>1, <1>2, SaysOne
<1>4. BatchOpen'
  BY <1>1 DEF BatchOpen, InBatch
<1>5. StepsSound'
  BY <1>1, <1>2, <1>3 DEF StepsSound, ToolsUntilLimit, NoCalls
<1>6. TurnSound'
  BY <1>1, <1>3 DEF TalkInv, Coherent, TurnSound
<1>7. QED BY <1>3, <1>4, <1>5, <1>6 DEF Coherent

LEMMA GenerateFinalTalk ==
    ASSUME TalkInv, GenerateFinal
    PROVE  Coherent'
<1> DEFINE m == Assistant(NoCalls, "stub")
<1>1. /\ node = "generate_final" /\ node' = "idle"
      /\ msgs' = IF Reusable THEN msgs ELSE Append(msgs, m)
      /\ turn' = turn /\ ran' = ran /\ excused' = excused
  BY DEF GenerateFinal
<1>2. m \in Msg /\ m.role = "ai" /\ m.calls = {} /\ m.out = "stub"
  BY StubIs
<1> HIDE DEF m
<1>3. BatchOpen' /\ StepsSound'
  BY <1>1 DEF BatchOpen, InBatch, StepsSound
<1>4. /\ turn > 0 /\ TalkSound(msgs) /\ Told
      /\ \E i \in ThisTurn(msgs) : msgs[i].role = "human"
  BY <1>1 DEF TalkInv, Coherent, TurnSound, AInv, AgentTypeOK
<1>5. CASE Reusable
  <2>1. msgs' = msgs
    BY <1>1, <1>5
  <2>2. TalkSound(msgs') /\ Told'
    BY <1>1, <1>4, <2>1 DEF Told, Writes
  <2>3. msgs # <<>>
    BY <1>4 DEF ThisTurn
  <2>4. Plain(Newest(msgs)) /\ Newest(msgs).out # "blank"
    BY <1>5 DEF Reusable, Plain
  <2>5. TurnSound'
    BY <1>1, <1>4, <2>1, <2>3, <2>4 DEF TurnSound
  <2>6. QED BY <1>3, <2>2, <2>5 DEF Coherent
<1>6. CASE ~Reusable
  <2>1. msgs' = Append(msgs, m)
    BY <1>1, <1>6
  <2>2. /\ Newest(msgs') = m /\ TalkSound(msgs') /\ Told' /\ msgs' # <<>>
        /\ turn > 0 => \E i \in ThisTurn(msgs') : msgs'[i].role = "human"
    BY <1>1, <1>2, <2>1, SaysOne
  <2>3. Plain(m) /\ m.out # "blank"
    BY <1>2 DEF Plain, NoCalls
  <2>4. TurnSound'
    BY <1>1, <2>2, <2>3 DEF TurnSound
  <2>5. QED BY <1>3, <2>2, <2>4 DEF Coherent
<1>7. QED BY <1>5, <1>6

LEMMA RunCancelledTalk ==
    ASSUME TalkInv, NEW done, RunCancelled(done)
    PROVE  Coherent'
<1> DEFINE m == System("marker")
<1>1. /\ node' = "idle" /\ msgs' = Append(msgs, m) /\ turn' = turn /\ excused' = excused \cup {turn}
  BY DEF RunCancelled
<1>2. m \in Msg /\ m.role = "system" /\ m.calls = {}
  BY SystemIs
<1> HIDE DEF m
<1>3. /\ TalkSound(msgs')
      /\ turn > 0 => \E i \in ThisTurn(msgs') : msgs'[i].role = "human"
  BY <1>1, <1>2, SaysOne
<1>4. BatchOpen' /\ StepsSound' /\ Told'
  BY <1>1 DEF BatchOpen, InBatch, StepsSound, Told
<1>5. TurnSound'
  BY <1>1, <1>3 DEF TurnSound
<1>6. QED BY <1>3, <1>4, <1>5 DEF Coherent

LEMMA CrashTalk ==
    ASSUME TalkInv, NEW done \in SUBSET InFlight, Crash(done)
    PROVE  Coherent'
<1>1. /\ UNCHANGED <<msgs, steps, turn>> /\ ran' = ran \cup done
      /\ node' = IF node \in Nodes THEN "idle" ELSE node
      /\ excused' = IF node \in Nodes THEN excused \cup {turn} ELSE excused
  BY DEF Crash, state
<1>2. CASE node \in Nodes
  <2>1. TalkSound(msgs') /\ BatchOpen' /\ StepsSound' /\ Told'
    BY <1>1, <1>2 DEF TalkInv, Coherent, BatchOpen, InBatch, StepsSound, Told
  <2>2. TurnSound'
    BY <1>1, <1>2 DEF TalkInv, Coherent, TurnSound
  <2>3. QED BY <2>1, <2>2 DEF Coherent
<1>3. CASE node \notin Nodes
  <2>1. done = {}
    BY <1>3 DEF InFlight, Nodes
  <2>2. UNCHANGED <<msgs, steps, turn, excused, ran, node>>
    BY <1>1, <1>3, <2>1
  <2>3. QED BY <2>2, QuietTalk DEF InBatch
<1>4. QED BY <1>2, <1>3

(* What t is to s, when it is s and some results of the answer at o.       *)
TakesResults(s, o, tail, t) ==
    /\ t \in Seq(Msg) /\ Grows(s, t) /\ TalkSound(t) /\ OnlyTools(t, o, Len(t))
    /\ Len(t) = Len(s) + Len(tail)
    /\ \A i \in 1..Len(s) : t[i] = s[i]
    /\ \A i \in DOMAIN tail : t[Len(s) + i] = tail[i]
    /\ \A i \in (Len(s) + 1)..Len(t) : \E j \in DOMAIN tail : t[i] = tail[j]
    /\ Replies(t) = Replies(s) /\ ~NewUserTurn(t)

LEMMA BatchGrows ==
    ASSUME NEW s \in Seq(Msg), TalkSound(s), NEW o \in DOMAIN s, s[o].role = "ai",
           OnlyTools(s, o, Len(s)), NEW tail \in Seq(Msg), Answering(s, o, tail)
    PROVE  TakesResults(s, o, tail, s \o tail)
<1> PICK t : t = s \o tail
  OBVIOUS
<1>1. \A i \in DOMAIN tail : tail[i].role = "tool"
  BY DEF Answering
<1>2. /\ t \in Seq(Msg) /\ Grows(s, t) /\ Len(t) = Len(s) + Len(tail)
      /\ \A i \in 1..Len(s) : t[i] = s[i]
      /\ \A i \in DOMAIN tail : t[Len(s) + i] = tail[i]
      /\ \A i \in (Len(s) + 1)..Len(t) : \E j \in DOMAIN tail : t[i] = tail[j]
  <2>1. \A i \in DOMAIN tail : tail[i].role # "human"
    BY <1>1
  <2>2. /\ s \o tail \in Seq(Msg) /\ Grows(s, s \o tail)
        /\ Len(s \o tail) = Len(s) + Len(tail)
        /\ \A i \in 1..Len(s) : (s \o tail)[i] = s[i]
        /\ \A i \in DOMAIN tail : (s \o tail)[Len(s) + i] = tail[i]
        /\ \A i \in (Len(s) + 1)..Len(s \o tail) : \E j \in DOMAIN tail : (s \o tail)[i] = tail[j]
    BY <2>1, Appended
  <2>3. t = s \o tail
    OBVIOUS
  <2>4. QED BY Zenon, <2>2, <2>3
<1>3. TalkSound(t) /\ OnlyTools(t, o, Len(t))
  BY AnswersMore
<1>4. \A i \in (Len(s) + 1)..Len(t) : t[i].role = "tool"
  BY <1>1, <1>2
<1>5. Replies(t) = Replies(s)
  <2>1. \A i \in 1..Len(s) : IsErrorStub(t[i]) <=> IsErrorStub(s[i])
    BY <1>2
  <2>2. \A i \in (Len(s) + 1)..Len(t) : t[i].role # "ai" \/ IsErrorStub(t[i])
    BY <1>4
  <2>3. QED BY <1>2, <2>1, <2>2, RepliesGrow
<1>6. ~NewUserTurn(t)
  <2>1. Len(t) \in Nat /\ o \in 1..Len(t) /\ t[o].role = "ai"
    BY <1>2
  <2>2. Len(t) = o \/ Len(t) \in (o + 1)..Len(t)
    BY <2>1
  <2>3. t[Len(t)].role # "human"
    BY <1>3, <2>1, <2>2 DEF OnlyTools
  <2>4. QED BY <2>3 DEF NewUserTurn, Newest
<1>7. TakesResults(s, o, tail, t)
  BY <1>2, <1>3, <1>5, <1>6 DEF TakesResults
<1>8. QED BY <1>7

LEMMA ToolsTalk ==
    ASSUME TalkInv, NEW write \in {"stored", "conflict", "error"}, Tools(write)
    PROVE  Coherent'
<1> DEFINE calls == Pending.calls
           tail == Outputs(calls, write)
           done == Executed(calls, write)
           o == AnswerAt
<1>1. /\ msgs \in Seq(Msg) /\ Len(msgs) \in Nat /\ TalkSound(msgs) /\ AInv
      /\ StepsSound /\ TurnSound /\ Told
  BY DEF TalkInv, Coherent, AInv, AgentTypeOK
<1>2. /\ node = "tools" /\ node' = "check_conflict" /\ msgs' = msgs \o tail
      /\ ran' = ran \cup done /\ UNCHANGED <<steps, turn, excused>> /\ InBatch
  BY DEF Tools, InBatch
<1>3. /\ o \in DOMAIN msgs /\ msgs[o] = Pending /\ Pending.role = "ai"
      /\ OnlyTools(msgs, o, Len(msgs))
      /\ \A k \in (o + 1)..Len(msgs) : msgs[k].call \notin Ids(calls)
      /\ calls \in SUBSET Call /\ IsFiniteSet(calls) /\ OwnCalls(Pending, o)
      /\ ~NewUserTurn(msgs)
  BY <1>2, BatchIs
<1>4. write \in Outs /\ \A c, d \in calls : c.id = d.id => c = d
  BY <1>3 DEF Outs, OwnCalls
<1> HIDE DEF calls, o
<1>5. /\ tail \in Seq(Msg)
      /\ \A i \in DOMAIN tail :
            /\ tail[i].role = "tool" /\ WellCalled(tail[i])
            /\ \E d \in calls : tail[i] = ToolResult(d, Outcome(d, write))
      /\ \A d \in calls : \E i \in DOMAIN tail : tail[i] = ToolResult(d, Outcome(d, write))
      /\ \A i, j \in DOMAIN tail : tail[i].call = tail[j].call => i = j
  BY <1>3, <1>4, OutputsAre, OutputsOnce
<1>6. \A d : /\ ToolResult(d, Outcome(d, write)).call = d.id /\ ToolResult(d, Outcome(d, write)).tool = d.tool
             /\ ToolResult(d, Outcome(d, write)).role = "tool"
             /\ ToolResult(d, Outcome(d, write)).out = Outcome(d, write)
  BY DEF ToolResult, Message
<1> HIDE DEF tail
<1>7. Answering(msgs, o, tail)
  <2> SUFFICES ASSUME NEW i \in DOMAIN tail
               PROVE  /\ tail[i] \in Msg /\ tail[i].call \in Ids(msgs[o].calls)
                      /\ \A k \in (o + 1)..Len(msgs) : msgs[k].call # tail[i].call
    BY <1>5 DEF Answering
  <2>1. PICK d \in calls : tail[i] = ToolResult(d, Outcome(d, write))
    BY <1>5
  <2>2. tail[i].call \in Ids(calls)
    BY <1>6, <2>1 DEF Ids
  <2>3. tail[i] \in Msg
    BY <1>5
  <2>4. QED BY <1>3, <2>2, <2>3 DEF calls
<1>8. /\ msgs' \in Seq(Msg) /\ Grows(msgs, msgs') /\ TalkSound(msgs')
      /\ Len(msgs') = Len(msgs) + Len(tail)
      /\ \A i \in 1..Len(msgs) : msgs'[i] = msgs[i]
      /\ \A i \in DOMAIN tail : msgs'[Len(msgs) + i] = tail[i]
      /\ \A i \in (Len(msgs) + 1)..Len(msgs') : \E j \in DOMAIN tail : msgs'[i] = tail[j]
      /\ Replies(msgs') = Replies(msgs) /\ ~NewUserTurn(msgs')
  <2>1. /\ tail \in Seq(Msg) /\ msgs[o].role = "ai"
        /\ msgs \in Seq(Msg) /\ TalkSound(msgs) /\ msgs' = msgs \o tail
    BY <1>1, <1>2, <1>3, <1>5
  <2>2. o \in DOMAIN msgs /\ OnlyTools(msgs, o, Len(msgs))
    BY <1>3
  <2>3. TakesResults(msgs, o, tail, msgs \o tail)
    BY <1>7, <2>1, <2>2, BatchGrows
  <2>4. TakesResults(msgs, o, tail, msgs')
    BY Zenon, <2>1, <2>3
  <2>5. QED BY Zenon, <2>4 DEF TakesResults
<1>9. BatchOpen'
  BY <1>2 DEF BatchOpen, InBatch
<1>10. StepsSound'
  <2>1. node \notin {"idle", "generate_final"} /\ node' \notin {"idle", "generate_final"}
    BY <1>2
  <2>2. NewUserTurn(msgs') = NewUserTurn(msgs)
    BY <1>3, <1>8 DEF NewUserTurn
  <2>3. QED BY <1>1, <1>2, <1>8, <2>1, <2>2, StepsKept
<1>11. TurnSound'
  BY <1>1, <1>2, <1>8, TurnKept
<1>12. /\ ThisTurn(msgs') = ThisTurn(msgs) \cup ((Len(msgs) + 1)..Len(msgs'))
       /\ ThisTurn(msgs) \subseteq 1..Len(msgs)
       /\ DOMAIN tail = 1..Len(tail) /\ Len(tail) \in Nat
  <2>1. ThisTurn(msgs) \subseteq 1..Len(msgs)
    BY <1>1 DEF ThisTurn
  <2>2. QED BY <1>1, <1>5, <1>8, <2>1, TurnGrows
<1>13. \A d \in calls : \E r \in done :
            r.turn = turn /\ r.id = d.id /\ r.tool = d.tool /\ r.out = Outcome(d, write)
  <2> SUFFICES ASSUME NEW d \in calls
               PROVE  \E r \in done : r.turn = turn /\ r.id = d.id /\ r.tool = d.tool
                                      /\ r.out = Outcome(d, write)
    OBVIOUS
  <2> DEFINE r == [turn |-> turn, at |-> Len(msgs), id |-> d.id, tool |-> d.tool,
                   out |-> Outcome(d, write), cleared |-> d.id \in cleared]
  <2>1. r \in done
    BY Zenon DEF Executed
  <2>2. r.turn = turn /\ r.id = d.id /\ r.tool = d.tool /\ r.out = Outcome(d, write)
    OBVIOUS
  <2> HIDE DEF done, r
  <2>3. QED BY <2>1, <2>2
<1>14. \A r \in done : \E d \in calls : r.id = d.id /\ r.tool = d.tool
  BY DEF Executed
<1> HIDE DEF done
<1>15. ASSUME turn \notin excused, NEW r \in ran', r.turn = turn
       PROVE  \E i \in ThisTurn(msgs') : ToldOf(msgs', i, r)
  <2>1. CASE r \in ran
    <3>1. PICK i \in ThisTurn(msgs) : ToldOf(msgs, i, r)
      BY <1>1, <1>15, <2>1 DEF Told
    <3>2. i \in ThisTurn(msgs') /\ msgs'[i] = msgs[i]
      BY <1>8, <1>12
    <3>3. QED BY <3>1, <3>2 DEF ToldOf
  <2>2. CASE r \in done
    <3>1. PICK d \in calls : r.id = d.id /\ r.tool = d.tool
      BY <1>14, <2>2
    <3>2. PICK i \in DOMAIN tail : tail[i] = ToolResult(d, Outcome(d, write))
      BY <1>5
    <3>3. Len(msgs) + i \in ThisTurn(msgs') /\ msgs'[Len(msgs) + i] = tail[i]
      BY <1>1, <1>8, <1>12
    <3>4. ToldOf(msgs', Len(msgs) + i, r)
      BY <1>6, <3>1, <3>2, <3>3 DEF ToldOf
    <3>5. QED BY <3>3, <3>4
  <2>3. QED BY <1>2, <2>1, <2>2
<1>16. ASSUME turn \notin excused, NEW i \in TurnWrites(msgs')
       PROVE  \E r \in Writes(turn)' : SameOutcome(msgs'[i].out, r)
  <2>1. i \in ThisTurn(msgs') /\ IsWrite(msgs'[i])
    BY DEF TurnWrites
  <2>2. CASE i \in ThisTurn(msgs)
    <3>1. msgs'[i] = msgs[i]
      BY <1>8, <1>12, <2>2
    <3>2. i \in TurnWrites(msgs)
      BY <2>1, <2>2, <3>1 DEF TurnWrites
    <3>3. PICK r \in Writes(turn) : SameOutcome(msgs[i].out, r)
      BY <1>1, <1>16, <3>2 DEF Told
    <3>4. r \in Writes(turn)'
      BY <1>2 DEF Writes
    <3>5. QED BY <3>1, <3>3, <3>4
  <2>3. CASE i \in (Len(msgs) + 1)..Len(msgs')
    <3>1. PICK j \in DOMAIN tail : msgs'[i] = tail[j]
      BY <1>8, <2>3
    <3>2. PICK d \in calls : tail[j] = ToolResult(d, Outcome(d, write))
      BY <1>5
    <3>3. d.tool = "write" /\ msgs'[i].out = Outcome(d, write)
      BY <1>6, <2>1, <3>1, <3>2 DEF IsWrite
    <3>4. PICK r \in done : r.turn = turn /\ r.tool = d.tool /\ r.out = Outcome(d, write)
      BY <1>13
    <3>5. r \in Writes(turn)'
      BY <1>2, <3>3, <3>4 DEF Writes, Outcome
    <3>6. QED BY <3>3, <3>4, <3>5 DEF SameOutcome
  <2>4. QED BY <1>12, <2>1, <2>2, <2>3
<1>17. Told'
  BY <1>2, <1>15, <1>16 DEF Told
<1>18. QED BY <1>8, <1>9, <1>10, <1>11, <1>17 DEF Coherent

LEMMA NoneApprovedTalk ==
    ASSUME TalkInv, node = "await_approval", node' = "call_llm",
           msgs' = msgs \o Results(Sensitive, "rejected") \o Results(Safe, "cancelled"),
           excused' = IF AsksWrite(Pending) THEN excused \cup {turn} ELSE excused,
           UNCHANGED <<steps, turn, ran>>
    PROVE  Coherent'
<1> DEFINE first == Results(Sensitive, "rejected")
           second == Results(Safe, "cancelled")
           mid == msgs \o first
           o == AnswerAt
           calls == Pending.calls
<1>1. /\ msgs \in Seq(Msg) /\ Len(msgs) \in Nat /\ TalkSound(msgs) /\ AInv /\ InBatch
      /\ StepsSound /\ TurnSound /\ Told /\ o = Len(msgs)
  BY DEF TalkInv, Coherent, AInv, AgentTypeOK, InBatch, BatchOpen
<1>2. /\ o \in DOMAIN msgs /\ msgs[o] = Pending /\ Pending.role = "ai"
      /\ OnlyTools(msgs, o, Len(msgs))
      /\ calls \in SUBSET Call /\ IsFiniteSet(calls) /\ OwnCalls(Pending, o)
      /\ ~NewUserTurn(msgs)
  BY <1>1, BatchIs
<1>3. \A c, d \in calls : c.id = d.id => c = d
  BY <1>2 DEF OwnCalls
<1>4. Sensitive \subseteq calls /\ Safe = calls \ Sensitive
  BY DEF Sensitive, Safe
<1> HIDE DEF calls, o
<1>5. /\ Sensitive \in SUBSET Call /\ IsFiniteSet(Sensitive)
      /\ Safe \in SUBSET Call /\ IsFiniteSet(Safe)
      /\ \A c, d \in Sensitive : c.id = d.id => c = d
      /\ \A c, d \in Safe : c.id = d.id => c = d
      /\ "rejected" \in Outs /\ "cancelled" \in Outs
  BY <1>2, <1>3, <1>4, FS_Subset DEF Outs
<1>6. /\ first \in Seq(Msg) /\ \A i \in DOMAIN first : first[i].role = "tool" /\ WellCalled(first[i])
      /\ \A i \in DOMAIN first : \E d \in Sensitive : first[i].call = d.id /\ first[i].tool = d.tool
      /\ \A i, j \in DOMAIN first : first[i].call = first[j].call => i = j
  BY <1>5, ResultsAre, ResultsOnce
<1>7. /\ second \in Seq(Msg) /\ \A i \in DOMAIN second : second[i].role = "tool" /\ WellCalled(second[i])
      /\ \A i \in DOMAIN second : \E d \in Safe : second[i].call = d.id /\ second[i].tool = d.tool
      /\ \A i, j \in DOMAIN second : second[i].call = second[j].call => i = j
  BY <1>5, ResultsAre, ResultsOnce
<1>8. msgs' = mid \o second
  OBVIOUS
<1> HIDE DEF first, second
<1>9. (o + 1)..Len(msgs) = {} /\ msgs[o].calls = calls
  BY <1>1, <1>2 DEF calls
<1>10. Answering(msgs, o, first)
  <2>1. \A i \in DOMAIN first : first[i] \in Msg
    BY <1>6
  <2>2. \A i \in DOMAIN first : first[i].call \in Ids(calls)
    BY <1>4, <1>6 DEF Ids
  <2>3. QED BY <1>6, <1>9, <2>1, <2>2 DEF Answering
<1>11. /\ mid \in Seq(Msg) /\ Grows(msgs, mid) /\ TalkSound(mid) /\ OnlyTools(mid, o, Len(mid))
       /\ Len(mid) = Len(msgs) + Len(first)
       /\ \A i \in 1..Len(msgs) : mid[i] = msgs[i]
       /\ \A i \in (Len(msgs) + 1)..Len(mid) : \E j \in DOMAIN first : mid[i] = first[j]
       /\ Replies(mid) = Replies(msgs)
  <2>1. /\ first \in Seq(Msg) /\ msgs[o].role = "ai"
        /\ msgs \in Seq(Msg) /\ TalkSound(msgs) /\ mid = msgs \o first
    BY <1>1, <1>2, <1>6
  <2>2. o \in DOMAIN msgs /\ OnlyTools(msgs, o, Len(msgs))
    BY <1>2
  <2> HIDE DEF mid
  <2>3. TakesResults(msgs, o, first, msgs \o first)
    BY <1>10, <2>1, <2>2, BatchGrows
  <2>4. QED BY <2>1, <2>3 DEF TakesResults
<1> HIDE DEF mid
<1>12. o \in DOMAIN mid /\ mid[o] = Pending
  <2>1. o \in 1..Len(msgs) /\ Len(msgs) <= Len(mid) /\ Len(mid) \in Nat
    BY <1>1, <1>2, <1>11 DEF Grows
  <2>2. QED BY <1>2, <1>11, <2>1
<1>13. Answering(mid, o, second)
  <2>1. \A i \in DOMAIN second : second[i] \in Msg
    BY <1>7
  <2>2. \A i \in DOMAIN second : second[i].call \in Ids(mid[o].calls)
    BY <1>4, <1>7, <1>12 DEF Ids, calls
  <2>3. ASSUME NEW i \in DOMAIN second, NEW k \in (o + 1)..Len(mid) PROVE mid[k].call # second[i].call
    <3>1. PICK j \in DOMAIN first : mid[k] = first[j]
      BY <1>1, <1>11
    <3>2. PICK c \in Sensitive : first[j].call = c.id
      BY <1>6
    <3>3. PICK d \in Safe : second[i].call = d.id
      BY <1>7
    <3>4. c.id # d.id
      BY <1>3, <1>4
    <3>5. QED BY <3>1, <3>2, <3>3, <3>4
  <2>4. QED BY <1>7, <2>1, <2>2, <2>3 DEF Answering
<1>14. /\ msgs' \in Seq(Msg) /\ Grows(mid, msgs') /\ TalkSound(msgs')
       /\ \A i \in 1..Len(mid) : msgs'[i] = mid[i]
       /\ \A i \in (Len(mid) + 1)..Len(msgs') : \E j \in DOMAIN second : msgs'[i] = second[j]
       /\ Replies(msgs') = Replies(mid) /\ ~NewUserTurn(msgs')
  <2>1. /\ second \in Seq(Msg) /\ mid[o].role = "ai"
        /\ mid \in Seq(Msg) /\ TalkSound(mid) /\ msgs' = mid \o second
    BY <1>2, <1>7, <1>8, <1>11, <1>12
  <2>2. o \in DOMAIN mid /\ OnlyTools(mid, o, Len(mid))
    BY <1>11, <1>12
  <2>3. TakesResults(mid, o, second, mid \o second)
    BY <1>13, <2>1, <2>2, BatchGrows
  <2>4. TakesResults(mid, o, second, msgs')
    BY Zenon, <2>1, <2>3
  <2>5. QED BY Zenon, <2>4 DEF TakesResults
<1>15. /\ Grows(msgs, msgs') /\ \A i \in 1..Len(msgs) : msgs'[i] = msgs[i]
       /\ \A i \in (Len(msgs) + 1)..Len(msgs') :
            \/ \E j \in DOMAIN first : msgs'[i] = first[j]
            \/ \E j \in DOMAIN second : msgs'[i] = second[j]
  <2>1. Len(msgs) <= Len(mid) /\ Len(mid) \in Nat /\ Len(mid) <= Len(msgs') /\ Len(msgs') \in Nat
    BY <1>11, <1>14 DEF Grows
  <2>2. \A i \in 1..Len(msgs) : i \in 1..Len(mid)
    BY <1>1, <2>1
  <2>3. \A i \in (Len(msgs) + 1)..Len(msgs') :
            (i \in 1..Len(mid) /\ i \in (Len(msgs) + 1)..Len(mid)) \/ i \in (Len(mid) + 1)..Len(msgs')
    BY <1>1, <2>1
  <2>4. \A i \in 1..Len(msgs) : msgs'[i] = msgs[i]
    BY <1>11, <1>14, <2>2
  <2>5. ASSUME NEW i \in (Len(msgs) + 1)..Len(msgs')
        PROVE  \/ \E j \in DOMAIN first : msgs'[i] = first[j]
               \/ \E j \in DOMAIN second : msgs'[i] = second[j]
    <3>1. CASE i \in 1..Len(mid) /\ i \in (Len(msgs) + 1)..Len(mid)
      BY <1>11, <1>14, <3>1
    <3>2. CASE i \in (Len(mid) + 1)..Len(msgs')
      BY <1>14, <3>2
    <3>3. QED BY <2>3, <3>1, <3>2
  <2>6. \A i \in (Len(msgs) + 1)..Len(msgs') : msgs'[i].role = "tool"
    <3>1. (\A i \in DOMAIN first : first[i].role = "tool") /\ \A i \in DOMAIN second : second[i].role = "tool"
      BY <1>6, <1>7
    <3>2. QED BY <2>5, <3>1
  <2>7. Len(msgs) <= Len(msgs')
    BY <1>1, <2>1
  <2>8. QED BY <2>4, <2>5, <2>6, <2>7 DEF Grows
<1>16. BatchOpen'
  BY DEF BatchOpen, InBatch
<1>17. StepsSound'
  <2>1. node \notin {"idle", "generate_final"} /\ node' \notin {"idle", "generate_final"}
    OBVIOUS
  <2>2. NewUserTurn(msgs') = NewUserTurn(msgs)
    BY <1>2, <1>14 DEF NewUserTurn
  <2>3. QED BY <1>1, <1>11, <1>14, <2>1, <2>2, StepsKept
<1>18. TurnSound'
  BY <1>1, <1>14, <1>15, TurnKept
<1>19. Told'
  <2>1. ASSUME turn \notin excused', NEW i \in (Len(msgs) + 1)..Len(msgs') PROVE ~IsWrite(msgs'[i])
    <3>1. \A c \in calls : c.tool # "write"
      BY <2>1 DEF AsksWrite, calls
    <3>2. \A j \in DOMAIN first : first[j].tool # "write"
      BY <1>4, <1>6, <3>1
    <3>3. \A j \in DOMAIN second : second[j].tool # "write"
      BY <1>4, <1>7, <3>1
    <3>4. msgs'[i].tool # "write"
      BY <1>15, <3>2, <3>3
    <3>5. QED BY <3>4 DEF IsWrite
  <2>2. excused \subseteq excused'
    OBVIOUS
  <2>3. QED BY <1>1, <1>14, <1>15, <2>1, <2>2, ToldKept
<1>20. QED BY <1>14, <1>16, <1>17, <1>18, <1>19 DEF Coherent

(* The answer without its rejected calls, and their results.               *)
LEMMA PartBatchTalk ==
    ASSUME TalkInv, node = "await_approval", node' = "tools",
           NEW ok \in SUBSET Ids(Sensitive), ok # {}, msgs' = PartlyApproved(ok),
           UNCHANGED <<excused, steps, turn, ran>>
    PROVE  Coherent'
<1> DEFINE exec == Assistant(Only(Pending.calls, ok) \cup Safe, "text")
           mid == [msgs EXCEPT ![AnswerAt] = exec]
           tail == Results(Rejected(ok), "rejected")
           calls == Pending.calls
           o == AnswerAt
<1>1. /\ msgs \in Seq(Msg) /\ Len(msgs) \in Nat /\ DOMAIN msgs = 1..Len(msgs)
      /\ TalkSound(msgs) /\ AInv /\ InBatch /\ InBatch'
      /\ StepsSound /\ TurnSound /\ Told /\ o = Len(msgs)
  BY DEF TalkInv, Coherent, AInv, AgentTypeOK, InBatch, BatchOpen
<1>2. /\ o \in DOMAIN msgs /\ msgs[o] = Pending /\ Pending.role = "ai"
      /\ calls \in SUBSET Call /\ IsFiniteSet(calls) /\ OwnCalls(Pending, o)
      /\ ~NewUserTurn(msgs)
  BY <1>1, BatchIs
<1>3. /\ \A c, d \in calls : c.id = d.id => c = d
      /\ \A c \in calls : c.id[1] \in {0, o} /\ (c.id[1] = 0 => c.tool = "write")
      /\ IsErrorStub(Pending) => calls = {}
  BY <1>2 DEF OwnCalls
<1>4. Sensitive \subseteq calls /\ Safe = calls \ Sensitive /\ Sensitive # {} /\ Rejected(ok) \subseteq Sensitive
  BY DEF Sensitive, Safe, Ids, Rejected
<1>5. msgs' = mid \o tail
  BY DEF PartlyApproved
<1>6. exec = Assistant(Only(calls, ok) \cup Safe, "text")
  OBVIOUS
<1> HIDE DEF calls, o
<1>7. /\ exec \in Msg /\ exec.role = "ai" /\ WellCalled(exec) /\ exec.calls \subseteq calls
      /\ exec.calls = Only(calls, ok) \cup Safe /\ exec.out = "text"
  <2> DEFINE kept == Only(calls, ok) \cup Safe
  <2>1. kept \subseteq calls
    BY <1>4 DEF Only
  <2> HIDE DEF kept
  <2>2. kept \in SUBSET Call /\ IsFiniteSet(kept) /\ "text" \in Outs
    BY <1>2, <2>1, FS_Subset DEF Outs
  <2>3. exec = Assistant(kept, "text")
    BY <1>6 DEF kept
  <2> HIDE DEF exec
  <2>4. /\ exec \in Msg /\ exec.role = "ai" /\ exec.calls = kept /\ WellCalled(exec)
    BY <2>2, <2>3, AssistantIs
  <2>5. exec.out = "text"
    BY <2>3 DEF Assistant, Message
  <2>6. QED BY <2>1, <2>4, <2>5 DEF kept
<1>8. mid = [msgs EXCEPT ![o] = exec]
  BY DEF o
<1> HIDE DEF exec, mid
<1>9. /\ mid \in Seq(Msg) /\ Len(mid) = Len(msgs) /\ DOMAIN mid = DOMAIN msgs /\ mid[o] = exec
      /\ \A i \in DOMAIN msgs : i # o => mid[i] = msgs[i]
  BY <1>1, <1>2, <1>7, <1>8
<1>10. OwnCalls(exec, o) /\ ~IsErrorStub(exec) /\ ~IsErrorStub(msgs[o])
  BY <1>2, <1>3, <1>4, <1>7 DEF OwnCalls, IsErrorStub
<1>11. \A i \in DOMAIN msgs : /\ mid[i].role = msgs[i].role
                              /\ WellCalled(mid[i]) /\ OwnCalls(mid[i], i)
                              /\ i < Len(msgs) => mid[i].calls = msgs[i].calls
                              /\ IsErrorStub(mid[i]) <=> IsErrorStub(msgs[i])
                              /\ msgs[i].role = "tool" => mid[i] = msgs[i]
  <2>1. ASSUME NEW i \in DOMAIN msgs, i # o
        PROVE  mid[i] = msgs[i] /\ WellCalled(mid[i]) /\ OwnCalls(mid[i], i)
    BY <1>1, <1>9, <2>1 DEF TalkSound, CallsSound
  <2>2. QED BY <1>1, <1>2, <1>7, <1>9, <1>10, <2>1
<1>12. TalkSound(mid)
  BY <1>1, <1>9, <1>11, Retold
<1>13. Grows(msgs, mid) /\ Replies(mid) = Replies(msgs)
  <2>1. Grows(msgs, mid)
    BY <1>1, <1>9, <1>11 DEF Grows
  <2>2. (Len(msgs) + 1)..Len(mid) = {}
    BY <1>1, <1>9
  <2>3. QED BY <1>1, <1>9, <1>11, <2>1, <2>2, RepliesGrow
<1>14. /\ tail \in Seq(Msg)
       /\ \A i \in DOMAIN tail : /\ tail[i].role = "tool" /\ WellCalled(tail[i])
                                 /\ \E d \in Rejected(ok) : tail[i].call = d.id /\ tail[i].tool = d.tool
       /\ \A i, j \in DOMAIN tail : tail[i].call = tail[j].call => i = j
  <2>1. Rejected(ok) \subseteq calls
    BY <1>4
  <2>2. /\ Rejected(ok) \in SUBSET Call /\ IsFiniteSet(Rejected(ok)) /\ "rejected" \in Outs
        /\ \A c, d \in Rejected(ok) : c.id = d.id => c = d
    BY <1>2, <1>3, <2>1, FS_Subset DEF Outs
  <2>3. QED BY <2>2, ResultsAre, ResultsOnce
<1> HIDE DEF tail
<1>15. \A d \in Rejected(ok) : /\ d.tool # "write" /\ d.id[1] = o /\ d.id \notin Ids(exec.calls)
  <2> SUFFICES ASSUME NEW d \in Rejected(ok)
               PROVE  d.tool # "write" /\ d.id[1] = o /\ d.id \notin Ids(exec.calls)
    OBVIOUS
  <2>1. d \in Sensitive /\ d \in calls /\ d.id \notin ok
    BY <1>4 DEF Rejected
  <2>2. d.tool # "write"
    BY <2>1, AgentAssumption DEF Sensitive
  <2>3. d.id[1] = o
    BY <1>3, <2>1, <2>2
  <2>4. \A c \in exec.calls : c \in calls /\ c # d
    BY <1>4, <1>7, <2>1 DEF Only
  <2>5. d.id \notin Ids(exec.calls)
    BY <1>3, <2>1, <2>4 DEF Ids
  <2>6. QED BY <2>2, <2>3, <2>5
<1>16. o = Len(mid) /\ (o + 1)..Len(mid) = {} /\ mid[o].role = "ai" /\ o \in DOMAIN mid
  BY <1>1, <1>2, <1>7, <1>9
<1>17. Answering(mid, o, tail)
  BY <1>14, <1>15, <1>16 DEF Answering
<1>18. TakesResults(mid, o, tail, mid \o tail)
  <2>1. OnlyTools(mid, o, Len(mid))
    BY <1>16 DEF OnlyTools
  <2>2. QED BY <1>9, <1>12, <1>14, <1>16, <1>17, <2>1, BatchGrows
<1>19. TakesResults(mid, o, tail, msgs')
  BY Zenon, <1>5, <1>18
<1>20. /\ msgs' \in Seq(Msg) /\ Grows(mid, msgs') /\ TalkSound(msgs') /\ OnlyTools(msgs', o, Len(msgs'))
       /\ \A i \in 1..Len(mid) : msgs'[i] = mid[i]
       /\ \A i \in (Len(mid) + 1)..Len(msgs') : \E j \in DOMAIN tail : msgs'[i] = tail[j]
       /\ Replies(msgs') = Replies(mid) /\ ~NewUserTurn(msgs')
  BY Zenon, <1>19 DEF TakesResults
<1>21. Grows(msgs, msgs') /\ Len(msgs') \in Nat /\ Len(msgs) <= Len(msgs')
  BY <1>1, <1>9, <1>11, <1>20 DEF Grows
<1>22. AnswerAt' = o /\ Pending' = exec
  <2>1. \A i \in (Len(msgs) + 1)..Len(msgs') : msgs'[i].role # "ai"
    BY <1>9, <1>14, <1>20
  <2>2. AnswerAt' = o
    BY <1>1, <1>20, <1>21, <2>1, AnswerKept DEF AInv, o
  <2>3. msgs'[o] = exec
    BY <1>9, <1>16, <1>20
  <2>4. QED BY <2>2, <2>3 DEF Pending
<1>23. BatchOpen'
  <2>1. ASSUME NEW k \in (o + 1)..Len(msgs') PROVE msgs'[k].call \notin Ids(exec.calls)
    <3>1. PICK j \in DOMAIN tail : msgs'[k] = tail[j]
      BY <1>16, <1>20
    <3>2. PICK d \in Rejected(ok) : tail[j].call = d.id
      BY <1>14
    <3>3. QED BY <1>15, <3>1, <3>2
  <2>2. QED BY <1>20, <1>22, <2>1 DEF BatchOpen
<1>24. StepsSound'
  <2>1. node \notin {"idle", "generate_final"} /\ node' \notin {"idle", "generate_final"}
    OBVIOUS
  <2>2. NewUserTurn(msgs') = NewUserTurn(msgs)
    BY <1>2, <1>20 DEF NewUserTurn
  <2>3. QED BY <1>1, <1>13, <1>20, <2>1, <2>2, StepsKept
<1>25. TurnSound'
  BY <1>1, <1>20, <1>21, TurnKept
<1>26. Told'
  <2>1. ASSUME NEW i \in (Len(msgs) + 1)..Len(msgs') PROVE ~IsWrite(msgs'[i])
    <3>1. PICK j \in DOMAIN tail : msgs'[i] = tail[j]
      BY <1>9, <1>20
    <3>2. PICK d \in Rejected(ok) : tail[j].tool = d.tool
      BY <1>14
    <3>3. QED BY <1>15, <3>1, <3>2 DEF IsWrite
  <2>2. \A i \in 1..Len(msgs) : msgs[i].role = "tool" => msgs'[i] = msgs[i]
    BY <1>1, <1>9, <1>11, <1>20
  <2>3. QED BY <1>1, <1>20, <1>21, <2>1, <2>2, ToldKept
<1>27. QED BY <1>20, <1>23, <1>24, <1>25, <1>26 DEF Coherent

LEMMA ResumeApprovalTalk ==
    ASSUME TalkInv, NEW v \in Verdicts, ResumeApproval(v)
    PROVE  Coherent'
<1>1. node = "await_approval" /\ UNCHANGED <<steps, turn, ran>>
  BY DEF ResumeApproval
<1>2. v.ok \subseteq v.named /\ v.named \subseteq Ids(Sensitive)
  BY <1>1 DEF Verdicts
<1>3. CASE node' = "tools" /\ UNCHANGED <<msgs, excused>>
  BY <1>1, <1>3, QuietTalk DEF InBatch
<1>4. CASE v.ok # {} /\ msgs' = PartlyApproved(v.ok) /\ node' = "tools" /\ UNCHANGED excused
  <2>1. v.ok \in SUBSET Ids(Sensitive)
    BY <1>2
  <2>2. QED BY <1>1, <1>4, <2>1, PartBatchTalk
<1>5. CASE /\ msgs' = msgs \o Results(Sensitive, "rejected") \o Results(Safe, "cancelled")
           /\ node' = "call_llm"
           /\ excused' = IF AsksWrite(Pending) THEN excused \cup {turn} ELSE excused
  BY <1>1, <1>5, NoneApprovedTalk
<1>6. QED BY <1>3, <1>4, <1>5 DEF ResumeApproval

(* The note about the conflict takes the outcome; the run that settled it  *)
(* is told by the same result.                                             *)
LEMMA ConflictResolvedTalk ==
    ASSUME TalkInv, NEW resolution \in {"settled", "lost"}, ConflictResolved(resolution)
    PROVE  Coherent'
<1> DEFINE at == LastWrite
           run == [turn |-> turn, at |-> Len(msgs), id |-> msgs[at].call,
                   tool |-> "write", out |-> resolution, cleared |-> FALSE]
           note == [msgs[at] EXCEPT !.out = "resolved"]
<1>1. /\ msgs \in Seq(Msg) /\ Len(msgs) \in Nat /\ DOMAIN msgs = 1..Len(msgs)
      /\ TalkSound(msgs) /\ AInv /\ StepsSound /\ TurnSound /\ Told
  BY DEF TalkInv, Coherent, AInv, AgentTypeOK
<1>2. /\ node = "resolving" /\ node' = "call_llm"
      /\ msgs' = [msgs EXCEPT ![at].out = "resolved"]
      /\ ran' = ran \cup {run} /\ UNCHANGED <<steps, turn, excused>>
  BY DEF ConflictResolved
<1>3. /\ at \in ThisTurn(msgs) /\ at \in DOMAIN msgs /\ IsWrite(msgs[at])
      /\ at \in TurnWrites(msgs) /\ msgs[at].out = "conflict"
  BY <1>1, <1>2 DEF AInv, ConflictSound, TurnWrites, ThisTurn
<1>4. msgs[at] \in Msg
  BY <1>1, <1>3
<1>5. /\ note \in Msg /\ note.role = "tool" /\ note.tool = "write" /\ note.call = msgs[at].call
      /\ note.calls = msgs[at].calls /\ note.out = "resolved"
  BY <1>3, <1>4 DEF Msg, Outs, IsWrite
<1>6. msgs' = [msgs EXCEPT ![at] = note]
  BY <1>2
<1>7. run.turn = turn /\ run.tool = "write" /\ run.id = msgs[at].call /\ run.out \in {"settled", "lost"}
  OBVIOUS
<1> HIDE DEF note, at, run
<1>8. /\ msgs' \in Seq(Msg) /\ Len(msgs') = Len(msgs) /\ DOMAIN msgs' = DOMAIN msgs
      /\ msgs'[at] = note /\ \A i \in DOMAIN msgs : i # at => msgs'[i] = msgs[i]
  BY <1>1, <1>3, <1>5, <1>6
<1>9. \A i \in DOMAIN msgs : /\ msgs'[i].role = msgs[i].role /\ msgs'[i].call = msgs[i].call
                             /\ msgs'[i].tool = msgs[i].tool /\ msgs'[i].calls = msgs[i].calls
                             /\ WellCalled(msgs'[i]) /\ OwnCalls(msgs'[i], i)
                             /\ IsErrorStub(msgs'[i]) <=> IsErrorStub(msgs[i])
  <2>1. ASSUME NEW i \in DOMAIN msgs, i # at
        PROVE  msgs'[i] = msgs[i] /\ WellCalled(msgs'[i]) /\ OwnCalls(msgs'[i], i)
    BY <1>1, <1>8, <2>1 DEF TalkSound, CallsSound
  <2>2. WellCalled(msgs[at]) /\ msgs[at].role = "tool" /\ msgs[at].tool = "write"
    BY <1>1, <1>3 DEF TalkSound, CallsSound, IsWrite
  <2>3. note.calls = {} /\ IsFiniteSet(note.calls)
    BY <1>5, <2>2 DEF WellCalled
  <2>4. WellCalled(note) /\ OwnCalls(note, at) /\ ~IsErrorStub(note) /\ ~IsErrorStub(msgs[at])
    BY <1>5, <2>2, <2>3 DEF WellCalled, OwnCalls, IsErrorStub
  <2>5. QED BY <1>5, <1>8, <2>1, <2>2, <2>4
<1>10. TalkSound(msgs')
  BY <1>1, <1>8, <1>9, Retold
<1>11. Grows(msgs, msgs') /\ (Len(msgs) + 1)..Len(msgs') = {}
  BY <1>1, <1>8, <1>9 DEF Grows
<1>12. Replies(msgs') = Replies(msgs)
  BY <1>1, <1>8, <1>9, <1>11, RepliesGrow
<1>13. ThisTurn(msgs') = ThisTurn(msgs)
  BY <1>1, <1>8, <1>11, TurnGrows
<1>14. NewUserTurn(msgs') = NewUserTurn(msgs)
  <2>1. at \in 1..Len(msgs) /\ Len(msgs) \in DOMAIN msgs
    BY <1>1, <1>3
  <2>2. Newest(msgs').role = Newest(msgs).role /\ msgs # <<>> /\ msgs' # <<>>
    BY <1>8, <1>9, <2>1 DEF Newest
  <2>3. QED BY <2>2 DEF NewUserTurn
<1>15. BatchOpen'
  BY <1>2 DEF BatchOpen, InBatch
<1>16. StepsSound'
  <2>1. node \notin {"idle", "generate_final"} /\ node' \notin {"idle", "generate_final"}
    BY <1>2
  <2>2. QED BY <1>1, <1>2, <1>12, <1>14, <2>1, StepsKept
<1>17. TurnSound'
  BY <1>1, <1>2, <1>8, <1>11, TurnKept
<1>18. ASSUME turn \notin excused, NEW r \in ran', r.turn = turn
       PROVE  \E i \in ThisTurn(msgs') : ToldOf(msgs', i, r)
  <2>1. CASE r \in ran
    <3>1. PICK i \in ThisTurn(msgs) : ToldOf(msgs, i, r)
      BY <1>1, <1>18, <2>1 DEF Told
    <3>2. i \in DOMAIN msgs
      BY <3>1 DEF ThisTurn
    <3>3. ToldOf(msgs', i, r)
      BY <1>9, <3>1, <3>2 DEF ToldOf
    <3>4. QED BY <1>13, <3>1, <3>3
  <2>2. CASE r = run
    <3>1. ToldOf(msgs', at, r)
      BY <1>5, <1>7, <1>8, <2>2 DEF ToldOf
    <3>2. QED BY <1>3, <1>13, <3>1
  <2>3. QED BY <1>2, <2>1, <2>2
<1>19. ASSUME turn \notin excused, NEW i \in TurnWrites(msgs')
       PROVE  \E r \in Writes(turn)' : SameOutcome(msgs'[i].out, r)
  <2>1. i \in ThisTurn(msgs) /\ i \in DOMAIN msgs /\ IsWrite(msgs'[i])
    BY <1>13 DEF TurnWrites, ThisTurn
  <2>2. i \in TurnWrites(msgs)
    BY <1>9, <2>1 DEF TurnWrites, IsWrite
  <2>3. PICK r \in Writes(turn) : SameOutcome(msgs[i].out, r)
    BY <1>1, <1>19, <2>2 DEF Told
  <2>4. r \in Writes(turn)'
    BY <1>2 DEF Writes
  <2>5. SameOutcome(msgs'[i].out, r)
    BY <1>3, <1>5, <1>8, <2>1, <2>3 DEF SameOutcome
  <2>6. QED BY <2>4, <2>5
<1>20. Told'
  BY <1>2, <1>18, <1>19 DEF Told
<1>21. QED BY <1>10, <1>15, <1>16, <1>17, <1>20 DEF Coherent

LEMMA TalkStep == TalkInv /\ [Next]_vars => TalkInv'
<1> SUFFICES ASSUME TalkInv, [Next]_vars PROVE TalkInv'
  OBVIOUS
<1>1. AInv'
  BY StepSound DEF TalkInv
<1>2. Coherent'
  <2>1. CASE \E f \in BOOLEAN : NewMessage(f)
    BY <2>1, NewMessageTalk
  <2>2. CASE \E answer \in Answers : CallLLM(answer)
    BY <2>2, CallLLMTalk
  <2>3. CASE CallLLMFails
    BY <2>3, CallLLMFailsTalk
  <2>4. CASE CheckApproval \/ CheckConflict \/ ResumeConflict
    BY <2>4, QuietTalk DEF CheckApproval, CheckConflict, ResumeConflict, state, InBatch
  <2>5. CASE \E write \in {"stored", "conflict", "error"} : Tools(write)
    BY <2>5, ToolsTalk
  <2>6. CASE \E resolution \in {"settled", "lost"} : ConflictResolved(resolution)
    BY <2>6, ConflictResolvedTalk
  <2>7. CASE GenerateFinal
    BY <2>7, GenerateFinalTalk
  <2>8. CASE \E v \in Verdicts : ResumeApproval(v)
    BY <2>8, ResumeApprovalTalk
  <2>9. CASE CaptureStep \/ IntervalOver \/ UNCHANGED vars
    <3>1. UNCHANGED <<msgs, steps, node, turn, excused, ran>>
      BY <2>9 DEF CaptureStep, StartCapture, EndCapture, IntervalOver, state, vars
    <3>2. QED BY <3>1, QuietTalk DEF InBatch
  <2>10. CASE \E done \in SUBSET InFlight : RunCancelled(done)
    BY <2>10, RunCancelledTalk
  <2>11. CASE \E done \in SUBSET InFlight : Crash(done)
    BY <2>11, CrashTalk
  <2>12. QED BY <2>1, <2>2, <2>3, <2>4, <2>5, <2>6, <2>7, <2>8, <2>9, <2>10, <2>11 DEF Next, NodeStep
<1>3. QED BY <1>1, <1>2 DEF TalkInv

LEMMA TalkInvariant == Spec => []TalkInv
<1>1. Init => TalkInv
  <2> SUFFICES ASSUME Init PROVE TalkInv
    OBVIOUS
  <2>1. /\ msgs = <<>> /\ node = "idle" /\ turn = 0 /\ ran = {}
    BY DEF Init
  <2>2. DOMAIN msgs = {} /\ ThisTurn(msgs) = {}
    BY <2>1 DEF ThisTurn
  <2>3. TalkSound(msgs)
    BY <2>2 DEF TalkSound, CallsSound, ResultsSound
  <2>4. BatchOpen /\ StepsSound /\ TurnSound /\ Told
    BY <2>1, <2>2 DEF BatchOpen, InBatch, StepsSound, TurnSound, Told, TurnWrites
  <2>5. QED BY <2>3, <2>4, InitSound DEF TalkInv, Coherent
<1>2. TalkInv /\ [Next]_vars => TalkInv'
  BY TalkStep
<1>3. QED BY <1>1, <1>2, PTL DEF Spec

-----------------------------------------------------------------------------
(* Results are appended for calls of the pending answer, and keep their    *)
(* call and tool.                                                          *)
LEMMA ForcedKept ==
    ASSUME TalkInv, ForcedTold,
           \A j \in DOMAIN msgs' : msgs'[j].role = "tool" =>
                \/ /\ j \in DOMAIN msgs /\ msgs[j].role = "tool"
                   /\ msgs'[j].call = msgs[j].call /\ msgs'[j].tool = msgs[j].tool
                \/ InBatch /\ \E d \in Pending.calls :
                        msgs'[j].call = d.id /\ msgs'[j].tool = d.tool
    PROVE  ForcedTold'
<1>1. InBatch => \A d \in Pending.calls : d.id[1] = 0 => d.tool = "write"
  <2>1. InBatch => OwnCalls(Pending, AnswerAt) /\ AnswerAt \in DOMAIN msgs
    BY BatchIs
  <2>2. QED BY <2>1 DEF OwnCalls
<1>2. QED BY <1>1 DEF ForcedTold

LEMMA ForcedAppend ==
    ASSUME TalkInv, ForcedTold, NEW m, m.role # "tool", msgs' = Append(msgs, m)
    PROVE  ForcedTold'
<1>1. msgs \in Seq(Msg) /\ Len(msgs) \in Nat /\ DOMAIN msgs = 1..Len(msgs)
  BY DEF TalkInv, Coherent, AInv, AgentTypeOK
<1>2. /\ DOMAIN msgs' = 1..(Len(msgs) + 1) /\ msgs'[Len(msgs) + 1] = m
      /\ \A j \in DOMAIN msgs : msgs'[j] = msgs[j]
  BY <1>1
<1>3. \A j \in DOMAIN msgs' : j \in DOMAIN msgs \/ j = Len(msgs) + 1
  BY <1>1, <1>2
<1>4. QED BY <1>2, <1>3, ForcedKept

LEMMA Joined ==
    ASSUME NEW s \in Seq(Msg), NEW tail \in Seq(Msg)
    PROVE  /\ DOMAIN (s \o tail) = 1..(Len(s) + Len(tail)) /\ Len(tail) \in Nat
           /\ DOMAIN tail = 1..Len(tail)
           /\ \A j \in 1..Len(s) : (s \o tail)[j] = s[j]
           /\ \A i \in 1..Len(tail) : (s \o tail)[Len(s) + i] = tail[i]
OBVIOUS

(* A batch's results behind the conversation, its answer rewritten or not. *)
LEMMA ForcedBatch ==
    ASSUME TalkInv, ForcedTold, InBatch, NEW s \in Seq(Msg), Len(s) = Len(msgs),
           \A j \in DOMAIN msgs : s[j] = msgs[j] \/ s[j].role # "tool",
           NEW tail \in Seq(Msg), msgs' = s \o tail,
           \A i \in DOMAIN tail : \E d \in Pending.calls : tail[i].call = d.id /\ tail[i].tool = d.tool
    PROVE  ForcedTold'
<1>1. msgs \in Seq(Msg) /\ Len(msgs) \in Nat /\ DOMAIN msgs = 1..Len(msgs)
  BY DEF TalkInv, Coherent, AInv, AgentTypeOK
<1>2. /\ DOMAIN msgs' = 1..(Len(msgs) + Len(tail)) /\ Len(tail) \in Nat
      /\ DOMAIN tail = 1..Len(tail)
      /\ \A j \in DOMAIN msgs : msgs'[j] = s[j]
      /\ \A i \in DOMAIN tail : msgs'[Len(msgs) + i] = tail[i]
  <2> DEFINE t == s \o tail
  <2>1. /\ DOMAIN t = 1..(Len(s) + Len(tail)) /\ Len(tail) \in Nat /\ DOMAIN tail = 1..Len(tail)
        /\ \A j \in 1..Len(s) : t[j] = s[j]
        /\ \A i \in 1..Len(tail) : t[Len(s) + i] = tail[i]
    BY Joined
  <2>2. msgs' = t
    OBVIOUS
  <2> HIDE DEF t
  <2>3. QED BY <1>1, <2>1, <2>2
<1>3. ASSUME NEW j \in DOMAIN msgs', j \notin DOMAIN msgs
      PROVE  \E i \in DOMAIN tail : msgs'[j] = tail[i]
  <2>1. j - Len(msgs) \in DOMAIN tail /\ Len(msgs) + (j - Len(msgs)) = j
    BY <1>1, <1>2, <1>3
  <2>2. QED BY <1>2, <2>1
<1>4. QED BY <1>2, <1>3, ForcedKept

LEMMA ForcedResume ==
    ASSUME TalkInv, ForcedTold, NEW v, ResumeApproval(v)
    PROVE  ForcedTold'
<1>1. InBatch /\ msgs \in Seq(Msg)
  BY DEF ResumeApproval, InBatch, TalkInv, Coherent, AInv, AgentTypeOK
<1>2. /\ AnswerAt \in DOMAIN msgs /\ OwnCalls(Pending, AnswerAt)
      /\ Pending.calls \subseteq Call /\ IsFiniteSet(Pending.calls)
  BY <1>1, BatchIs
<1>3. ASSUME NEW S \in SUBSET Pending.calls, NEW out \in Outs
      PROVE  /\ Results(S, out) \in Seq(Msg)
             /\ \A i \in DOMAIN Results(S, out) :
                  \E d \in Pending.calls : /\ Results(S, out)[i].call = d.id
                                          /\ Results(S, out)[i].tool = d.tool
  <2>1. S \in SUBSET Call /\ IsFiniteSet(S) /\ \A c, d \in S : c.id = d.id => c = d
    BY <1>2, FS_Subset DEF OwnCalls
  <2>2. QED BY <2>1, ResultsAre, ResultsOnce
<1>4. /\ Sensitive \subseteq Pending.calls /\ Safe \subseteq Pending.calls
      /\ \A ok : Rejected(ok) \subseteq Pending.calls
      /\ "rejected" \in Outs /\ "cancelled" \in Outs
  BY DEF Sensitive, Safe, Rejected, Outs
<1>5. CASE msgs' = msgs
  BY <1>5, ForcedKept
<1>6. CASE msgs' = PartlyApproved(v.ok)
  <2> DEFINE calls == Only(Pending.calls, v.ok) \cup Safe
             exec == Assistant(calls, "text")
             mid == [msgs EXCEPT ![AnswerAt] = exec]
             tail == Results(Rejected(v.ok), "rejected")
  <2>1. calls \in SUBSET Call /\ IsFiniteSet(calls) /\ "text" \in Outs
    <3>1. calls \subseteq Pending.calls
      BY DEF Only, Safe
    <3>2. QED BY <1>2, <3>1, FS_Subset DEF Outs
  <2>2. exec \in Msg /\ exec.role = "ai"
    BY <2>1, AssistantIs
  <2>3. msgs' = mid \o tail
    BY <1>6 DEF PartlyApproved
  <2> HIDE DEF exec
  <2>4. /\ mid \in Seq(Msg) /\ Len(mid) = Len(msgs)
        /\ \A j \in DOMAIN msgs : mid[j] = msgs[j] \/ mid[j].role # "tool"
    BY <1>1, <1>2, <2>2
  <2>5. /\ tail \in Seq(Msg)
        /\ \A i \in DOMAIN tail : \E d \in Pending.calls : tail[i].call = d.id /\ tail[i].tool = d.tool
    BY <1>3, <1>4
  <2> HIDE DEF mid, tail
  <2>6. QED BY <1>1, <2>3, <2>4, <2>5, ForcedBatch
<1>7. CASE msgs' = msgs \o Results(Sensitive, "rejected") \o Results(Safe, "cancelled")
  <2> DEFINE a == Results(Sensitive, "rejected")
             b == Results(Safe, "cancelled")
             tail == a \o b
  <2>1. /\ a \in Seq(Msg) /\ b \in Seq(Msg)
        /\ \A i \in DOMAIN a : \E d \in Pending.calls : a[i].call = d.id /\ a[i].tool = d.tool
        /\ \A i \in DOMAIN b : \E d \in Pending.calls : b[i].call = d.id /\ b[i].tool = d.tool
    BY <1>3, <1>4
  <2>2. msgs' = (msgs \o a) \o b
    BY <1>7
  <2> HIDE DEF a, b
  <2>3. tail \in Seq(Msg) /\ msgs' = msgs \o tail
    BY <1>1, <2>1, <2>2
  <2>4. \A i \in DOMAIN tail : (\E k \in DOMAIN a : tail[i] = a[k]) \/ (\E k \in DOMAIN b : tail[i] = b[k])
    <3> SUFFICES ASSUME NEW i \in DOMAIN tail, i \notin DOMAIN a
                 PROVE  \E k \in DOMAIN b : tail[i] = b[k]
      BY <2>1
    <3>1. i - Len(a) \in DOMAIN b /\ tail[i] = b[i - Len(a)]
      BY <2>1
    <3>2. QED BY <3>1
  <2> HIDE DEF tail
  <2>5. \A i \in DOMAIN tail : \E d \in Pending.calls : tail[i].call = d.id /\ tail[i].tool = d.tool
    BY <2>1, <2>4
  <2>6. QED BY <1>1, <2>3, <2>5, ForcedBatch
<1>8. QED BY <1>5, <1>6, <1>7 DEF ResumeApproval

LEMMA ForcedTools ==
    ASSUME TalkInv, ForcedTold, NEW write \in {"stored", "conflict", "error"}, Tools(write)
    PROVE  ForcedTold'
<1> DEFINE tail == Outputs(Pending.calls, write)
<1>1. InBatch /\ msgs \in Seq(Msg) /\ msgs' = msgs \o tail /\ write \in Outs
  BY DEF Tools, InBatch, TalkInv, Coherent, AInv, AgentTypeOK, Outs
<1>2. Pending.calls \in SUBSET Call /\ IsFiniteSet(Pending.calls)
  BY <1>1, BatchIs
<1>3. /\ tail \in Seq(Msg)
      /\ \A i \in DOMAIN tail : \E d \in Pending.calls : tail[i] = ToolResult(d, Outcome(d, write))
  BY <1>1, <1>2, OutputsAre
<1> HIDE DEF tail
<1>4. \A i \in DOMAIN tail : \E d \in Pending.calls : tail[i].call = d.id /\ tail[i].tool = d.tool
  BY <1>3 DEF ToolResult, Message
<1>5. QED BY <1>1, <1>3, <1>4, ForcedBatch

LEMMA ForcedStep == TalkInv /\ ForcedTold /\ [Next]_vars => ForcedTold'
<1> SUFFICES ASSUME TalkInv, ForcedTold, [Next]_vars PROVE ForcedTold'
  OBVIOUS
<1>1. CASE \E m : m.role # "tool" /\ msgs' = Append(msgs, m)
  BY <1>1, ForcedAppend
<1>2. CASE msgs' = msgs
  BY <1>2, ForcedKept
<1>3. /\ Human.role # "tool" /\ System("marker").role # "tool"
      /\ \A calls, out : Assistant(calls, out).role # "tool"
  BY DEF Human, System, Assistant, Message
<1>4. CASE \E f \in BOOLEAN : NewMessage(f)
  BY <1>1, <1>3, <1>4 DEF NewMessage
<1>5. CASE \E answer \in Answers : CallLLM(answer)
  BY <1>1, <1>3, <1>5 DEF CallLLM
<1>6. CASE CallLLMFails \/ GenerateFinal
  BY <1>1, <1>2, <1>3, <1>6 DEF CallLLMFails, GenerateFinal
<1>7. CASE \E write \in {"stored", "conflict", "error"} : Tools(write)
  BY <1>7, ForcedTools
<1>8. CASE \E resolution \in {"settled", "lost"} : ConflictResolved(resolution)
  <2>1. msgs \in Seq(Msg) /\ msgs' = [msgs EXCEPT ![LastWrite].out = "resolved"]
    BY <1>8 DEF ConflictResolved, TalkInv, Coherent, AInv, AgentTypeOK
  <2>2. \A j \in DOMAIN msgs : msgs[j] \in Msg
    BY <2>1
  <2>3. /\ DOMAIN msgs' = DOMAIN msgs
        /\ \A j \in DOMAIN msgs : /\ msgs'[j].role = msgs[j].role /\ msgs'[j].call = msgs[j].call
                                  /\ msgs'[j].tool = msgs[j].tool
    BY <2>1, <2>2 DEF Msg
  <2>4. QED BY <2>3, ForcedKept
<1>9. CASE \E v \in Verdicts : ResumeApproval(v)
  BY <1>9, ForcedResume
<1>10. CASE CheckApproval \/ CheckConflict \/ ResumeConflict \/ CaptureStep \/ IntervalOver
            \/ UNCHANGED vars \/ \E done \in SUBSET InFlight : Crash(done)
  <2>1. msgs' = msgs
    BY <1>10 DEF CheckApproval, CheckConflict, ResumeConflict, CaptureStep, StartCapture, EndCapture,
                 IntervalOver, Crash, state, vars
  <2>2. QED BY <1>2, <2>1
<1>11. CASE \E done \in SUBSET InFlight : RunCancelled(done)
  BY <1>1, <1>3, <1>11 DEF RunCancelled
<1>12. QED BY <1>4, <1>5, <1>6, <1>7, <1>8, <1>9, <1>10, <1>11 DEF Next, NodeStep

LEMMA ForcedInvariant == Spec => []ForcedTold
<1>1. Init => ForcedTold
  BY DEF Init, ForcedTold
<1>2. TalkInv /\ ForcedTold /\ [Next]_vars => ForcedTold'
  BY ForcedStep
<1>3. QED BY <1>1, <1>2, TalkInvariant, PTL DEF Spec

-----------------------------------------------------------------------------
(* Through any history of rejected and half-approved answers, failed and   *)
(* cancelled runs, lost interrupts and crashes, and for any budget, what   *)
(* call_llm sends answers every call it carries, for Anthropic too unless  *)
(* the thread carries a marker, as long as no two forced writes share an   *)
(* id; and generate_final sees its turn (_bounded_messages,                *)
(* _messages_to_dicts, _to_anthropic_messages).                            *)
THEOREM RequestsAlwaysAccepted == Spec => []RequestAccepted
<1>1. TalkInv => RequestAccepted
  BY RequestsFit
<1>2. QED BY <1>1, TalkInvariant, PTL

(* A turn that nothing cut short ends with an answer that is shown, says   *)
(* it stored the message exactly when a write did, and has under it, in    *)
(* the transcript, what the turn's tools did and nothing of another turn;  *)
(* the live reply and the stream's meta event, which tell of the whole     *)
(* thread, tell the same of this turn (agent_chat, agent_chat_stream,      *)
(* get_thread_messages).                                                   *)
THEOREM RepliesAlwaysFaithful == Spec => []ReplyFaithful
<1>1. TalkInv /\ ForcedTold => ReplyFaithful
  BY RepliesFit
<1>2. QED BY <1>1, TalkInvariant, ForcedInvariant, PTL
=============================================================================
