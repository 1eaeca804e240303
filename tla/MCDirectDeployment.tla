------------------------ MODULE MCDirectDeployment -------------------------
(***************************************************************************)
(* Instance of DirectDeployment: a Namespace, a shared operator, and an    *)
(* application that depends on both, after one closure.                    *)
(***************************************************************************)
EXTENDS DirectDeployment

CONSTANTS ns, op, app, crds

MCResources == {ns, op, app}
MCClosures  == {crds}
MCDeps  == [r \in MCResources |-> IF r = app THEN {ns, op} ELSE {}]
MCLevel == [t \in MCResources \cup MCClosures |->
              CASE t = crds -> 0 [] t = app -> 2 [] OTHER -> 1]

Opt(rollback, wait, dry, target) ==
    [rollbackOnFailure |-> rollback, waitForReady |-> wait,
     dryRun |-> dry, targetScopes |-> target]

\* A smaller instance: the application and its Namespace
PairResources == {ns, app}
PairDeps  == [r \in PairResources |-> IF r = app THEN {ns} ELSE {}]
PairLevel == [t \in PairResources \cup MCClosures |->
                CASE t = crds -> 0 [] t = app -> 2 [] OTHER -> 1]

\* The application and, beside it, an operator that nothing depends on
BesideDeps  == [r \in MCResources |-> IF r = ns THEN {} ELSE {ns}]
BesideLevel == [t \in MCResources \cup MCClosures |->
                  CASE t = crds -> 0 [] t = ns -> 1 [] OTHER -> 2]

\* every combination that makes a difference; only op has a scope
AllOptions == {o \in OptionRecords : o.targetScopes # "none"}

\* those that matter to a rollback; without readiness waits it meets a subset
\* of the outcomes
RollbackOptions == {Opt(TRUE, TRUE, FALSE, t) : t \in {"undefined", "scoped"}}
=============================================================================
