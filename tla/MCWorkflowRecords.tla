-------------------------- MODULE MCWorkflowRecords --------------------------
(* WorkflowRecords for model checking: runs are alike, and so are the calls *)
(* that resume them.                                                       *)
EXTENDS WorkflowRecords, TLC

Symmetry == Permutations(Runs) \cup Permutations(Resumers)
=============================================================================
