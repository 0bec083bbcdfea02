---------------------------- MODULE MCPatrolRuns -----------------------------
(* Three runs, which any mix of schedule, catch-up and hand may claim, two  *)
(* shutdowns or crashes and three slots, the first but one of which comes   *)
(* again after the end of summer time: its instants are -2, 0 and 1, at a   *)
(* period of two ticks.                                                     *)
EXTENDS PatrolRuns

MCOffset == [t \in Moments |-> IF t < 2 THEN 0 ELSE -1]
=============================================================================
