---------------------------- MODULE MCResilience -----------------------------
(* Three concurrent calls and a threshold of two failures: one call can     *)
(* trip a breaker by failing twice while the others, admitted earlier, are  *)
(* still in flight; they report to it open, trip it again, or find it       *)
(* recovered.                                                               *)
EXTENDS Resilience
=============================================================================
