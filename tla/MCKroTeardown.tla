--------------------------- MODULE MCKroTeardown ---------------------------
(***************************************************************************)
(* Instances of KroTeardown for TLC: both instances live in a Namespace of *)
(* x, and share another one that both own.                                 *)
(***************************************************************************)
EXTENDS KroTeardown, TLC

CONSTANTS p, q
Symmetry == Permutations({p, q})

PairHoists == "x" :> {"a", "s"} @@ "y" :> {"s"}
PairHome == "x" :> "a" @@ "y" :> "a"
PairDescent == "x" :> "controller" @@ "y" :> "job"
PlainDescent == "x" :> "nothing" @@ "y" :> "nothing"
=============================================================================
