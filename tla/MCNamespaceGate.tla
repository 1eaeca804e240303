-------------------------- MODULE MCNamespaceGate --------------------------
(***************************************************************************)
(* An instance of NamespaceGate for TLC: a deployment and two deletions of *)
(* one Namespace, with claims and one other kind.                          *)
(***************************************************************************)
EXTENDS NamespaceGate, TLC

CONSTANTS d1, d2
Symmetry == Permutations({d1, d2})
=============================================================================
