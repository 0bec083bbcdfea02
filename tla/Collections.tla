----------------------------- MODULE Collections -----------------------------
(***************************************************************************)
(* Selections from a sequence and sums over a finite set, as recursive     *)
(* functions: SelectSeq and the folds of the community modules take        *)
(* operators, of which the provers have no theory.                         *)
(***************************************************************************)
EXTENDS Integers, Sequences, FiniteSets

IsList(s) == Len(s) \in Nat /\ DOMAIN s = 1..Len(s)

(* The elements of a sequence at some of its positions.                    *)
Chosen(s, keep) ==
    LET upTo[n \in 0..Len(s)] ==
            IF n = 0 THEN <<>> ELSE IF n \in keep THEN Append(upTo[n - 1], s[n]) ELSE upTo[n - 1]
    IN upTo[Len(s)]

(* Some positions of a sequence, in their order.                           *)
Places(s, keep) == Chosen([i \in DOMAIN s |-> i], keep)

(* The sum of a function over some of its arguments.                       *)
Total(f, S) ==
    LET sum[T \in SUBSET S] ==
            IF T = {} THEN 0 ELSE LET x == CHOOSE y \in T : TRUE IN f[x] + sum[T \ {x}]
    IN sum[S]
=============================================================================
