------------------------- MODULE MCDependencyOrder -------------------------
(***************************************************************************)
(* Every dependency graph of four resources.                               *)
(***************************************************************************)
EXTENDS DependencyOrder, TLC

CONSTANTS a, b, c, d
Symmetry == Permutations({a, b, c, d})
=============================================================================
