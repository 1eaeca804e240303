------------------------- MODULE DeploymentPromise -------------------------
(***************************************************************************)
(* What a deployment promises, whatever its levels, timers and retries:    *)
(* a resource is decided (applied, or given up) after its dependencies     *)
(* are, a rollback starts when no decision is under way and removes        *)
(* dependents before their dependencies, and nothing changes any more once *)
(* the call has returned.  DirectDeployment implements it.                 *)
(***************************************************************************)
CONSTANTS
    Resources,   \* the resources of the graph
    Deps         \* Deps[r]: what r depends on

VARIABLES
    mode,        \* "deploying", "undoing" or "returned"
    stage,       \* stage[r]: what has become of r
    removable    \* the resources a rollback may delete; never changes

vars == <<mode, stage, removable>>

Stages == {"pending", "applied", "givenUp", "removed"}

TypeOK ==
    /\ mode \in {"deploying", "undoing", "returned"}
    /\ stage \in [Resources -> Stages]
    /\ removable \subseteq Resources

Decided(r) == stage[r] # "pending"

Init ==
    /\ mode = "deploying"
    /\ stage = [r \in Resources |-> "pending"]
    /\ removable \in SUBSET Resources

\* The cluster accepted r
Apply(r) ==
    /\ mode = "deploying"
    /\ stage[r] = "pending"
    /\ \A d \in Deps[r] : Decided(d)
    /\ stage' = [stage EXCEPT ![r] = "applied"]
    /\ UNCHANGED <<mode, removable>>

\* The resources of S failed or do not belong to this deployment
GiveUp(S) ==
    /\ mode = "deploying"
    /\ \A r \in S : stage[r] = "pending" /\ \A d \in Deps[r] : Decided(d)
    /\ stage' = [r \in Resources |-> IF r \in S THEN "givenUp" ELSE stage[r]]
    /\ UNCHANGED <<mode, removable>>

StartUndo ==
    /\ mode = "deploying"
    /\ mode' = "undoing"
    /\ UNCHANGED <<stage, removable>>

\* r is removed when nothing removable that depends on it is left
Remove(r) ==
    /\ mode = "undoing"
    /\ r \in removable
    /\ stage[r] = "applied"
    /\ \A t \in removable : r \in Deps[t] => stage[t] # "applied"
    /\ stage' = [stage EXCEPT ![r] = "removed"]
    /\ UNCHANGED <<mode, removable>>

Return ==
    /\ mode # "returned"
    /\ mode' = "returned"
    /\ UNCHANGED <<stage, removable>>

Next ==
    \/ \E r \in Resources : Apply(r) \/ Remove(r)
    \/ \E S \in SUBSET Resources : GiveUp(S)
    \/ StartUndo
    \/ Return

Spec == Init /\ [][Next]_vars

\* The removal of a resource never leaves behind an applied removable
\* resource that depends on it.
NoDanglingDependent ==
    \A r, t \in Resources :
        stage[r] = "removed" /\ r \in Deps[t] /\ t \in removable
        => stage[t] # "applied"
=============================================================================
