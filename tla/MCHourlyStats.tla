--------------------------- MODULE MCHourlyStats ---------------------------
(* HourlyStats for TLC: messages and processes are interchangeable. *)
EXTENDS HourlyStats, TLC

Symmetry == Permutations(Messages) \cup Permutations(Instances)
=============================================================================
