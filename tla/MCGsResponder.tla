--------------------------- MODULE MCGsResponder ---------------------------
(* Model values and bounds for GsResponder. *)
EXTENDS GsResponder

CONSTANTS c1, t1, t2

MCChans == {c1}
MCCallers == {t1, t2}

CallerSymmetry == Permutations(MCCallers)

=============================================================================
