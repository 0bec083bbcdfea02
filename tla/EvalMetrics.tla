----------------------------- MODULE EvalMetrics -----------------------------
(***************************************************************************)
(* The scores of one labelled item (evals/llm_metrics.py,                  *)
(* evals/write_eval_metrics.py), in units of which a perfect score has     *)
(* Scale; a fraction is rounded down to a unit. Text is the set of what    *)
(* can be found in it: a substring test is membership.                     *)
(***************************************************************************)
EXTENDS Integers, Sequences, FiniteSets, FiniteSetsExt, SequencesExt, Collections

CONSTANTS
    Scale,      \* units in a perfect score
    Near        \* the pairs of names of which one contains the other

ASSUME EvalMetricsAssumption == Scale \in Nat \ {0}

Share(part, whole) == IF whole = 0 THEN 0 ELSE (Scale * part) \div whole
Mark(condition) == IF condition THEN Scale ELSE 0

ToolSelectionMetrics(called, item) ==
    LET unexpected == called \ (item.expected \cup item.allowed)
    IN [tool_accuracy |->
            IF item.expected = {} THEN Mark(called = {})
            ELSE Mark(item.expected \subseteq called /\ unexpected = {} /\ item.forbidden \cap called = {}),
        expected_recall |->
            IF item.expected = {} THEN Scale
            ELSE Share(Cardinality(item.expected \cap called), Cardinality(item.expected))]

NamesMatch(a, b) == a = b \/ {a, b} \in Near
EntityMatch(p, e) == NamesMatch(p.name, e.name)
RelationMatch(p, e) == p.type = e.type /\ NamesMatch(p.from, e.from) /\ NamesMatch(p.to, e.to)

Pairs(predicted, expected, Match(_, _)) ==
    {pair \in Range(predicted) \X Range(expected) : Match(pair[1], pair[2])}

(* Each prediction takes the first golden one left that it matches. *)
MatchPairs(predicted, expected, matching) ==
    LET taken[n \in 0..Len(predicted)] ==
            IF n = 0 THEN {}
            ELSE LET fits == {i \in DOMAIN expected \ taken[n - 1] : <<predicted[n], expected[i]>> \in matching}
                 IN taken[n - 1] \cup {i \in fits : \A j \in fits : i =< j}
        tp == Cardinality(taken[Len(predicted)])
    IN [tp |-> tp, fp |-> Len(predicted) - tp, fn |-> Len(expected) - tp]

F1(tp, fp, fn) == Share(2 * tp, 2 * tp + fp + fn)

EntityMetrics(predicted, expected) ==
    LET found == MatchPairs(predicted, expected, Pairs(predicted, expected, EntityMatch))
    IN [entity_f1 |-> IF expected = <<>> THEN 0 ELSE F1(found.tp, found.fp, found.fn)]

RelationMetrics(predicted, expected) ==
    LET found == MatchPairs(predicted, expected, Pairs(predicted, expected, RelationMatch))
    IN [relation_f1 |-> IF expected = <<>> THEN 0 ELSE F1(found.tp, found.fp, found.fn)]

(* The substring scores of an answer, and of a merged or extracted summary. *)
Coverage(text, facts) == IF facts = {} THEN Scale ELSE Share(Cardinality(facts \cap text), Cardinality(facts))
AnswerDeterministicMetrics(text, item) ==
    [fact_coverage |-> Coverage(text, item.facts), groundedness |-> Mark(item.prohibited \cap text = {})]
AnswerJudgeMetrics(verdict, item) ==
    [fact_coverage |-> Coverage(verdict.covered, item.facts), groundedness |-> Mark(verdict.grounded)]
CitationPresence(text, item) == Mark(item.sources = {} \/ item.sources \cap text # {})

(* Cells of a yes-no suite, and the score of a bucket of them; an item that *)
(* failed is in no cell.                                                   *)
Cell(predicted, expected) ==
    CASE predicted /\ expected -> "tp" [] predicted /\ ~expected -> "fp"
      [] ~predicted /\ expected -> "fn" [] OTHER -> "tn"
BinaryF1(cells) ==
    LET Count(c) == Cardinality({i \in DOMAIN cells : cells[i] = c})
    IN F1(Count("tp"), Count("fp"), Count("fn"))
=============================================================================
