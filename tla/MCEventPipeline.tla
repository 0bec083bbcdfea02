--------------------------- MODULE MCEventPipeline ---------------------------
(* Two deliveries of one entity or of none and a scenario started by hand  *)
(* compete for one slot of each kind; a verdict may be worth a card, a     *)
(* draft, or both.  Deliveries are interchangeable.                        *)
EXTENDS EventPipeline, TLC

MCVerdicts == {[known |-> FALSE, severity |-> 2], [known |-> TRUE, severity |-> 1],
               [known |-> TRUE, severity |-> 2]}
Symmetry == Permutations(Deliveries)
=============================================================================
