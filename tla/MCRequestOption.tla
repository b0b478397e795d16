-------------------------- MODULE MCRequestOption --------------------------
(***************************************************************************)
(* Instances of RequestOption for TLC: two callers, who share an option or *)
(* of whom some pass none.                                                 *)
(***************************************************************************)
EXTENDS RequestOption, TLC

CONSTANTS p1, p2, shared

Symmetry == Permutations(Callers)
=============================================================================
