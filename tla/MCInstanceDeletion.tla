------------------------ MODULE MCInstanceDeletion ------------------------
(***************************************************************************)
(* Instances of InstanceDeletion for TLC: one instance of a Namespace and  *)
(* what lives in it, and two instances that share an operator.             *)
(***************************************************************************)
EXTENDS InstanceDeletion, TLC

\* a Namespace, a database in it and an application that uses the database
StackObjects == {"ns", "db", "app"}
StackPartOf == "x" :> StackObjects
StackDeps == "ns" :> {} @@ "db" :> {"ns"} @@ "app" :> {"ns", "db"}

\* a Namespace and an application in it
SmallObjects == {"ns", "app"}
SmallPartOf == "x" :> SmallObjects
SmallDeps == "ns" :> {} @@ "app" :> {"ns"}

\* an operator that two instances apply, and the application of one of them
SharedObjects == {"op", "ax"}
SharedPartOf == "x" :> {"op", "ax"} @@ "y" :> {"op"}
SharedDeps == "op" :> {} @@ "ax" :> {"op"}

CONSTANTS p, q
Symmetry == Permutations({p, q})
=============================================================================
