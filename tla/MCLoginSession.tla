--------------------------- MODULE MCLoginSession ---------------------------
(* The handlers of two navigations are interchangeable.                    *)
EXTENDS LoginSession, TLC

Symmetry == Permutations(Navigations)
=============================================================================
