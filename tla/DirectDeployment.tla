-------------------------- MODULE DirectDeployment --------------------------
(***************************************************************************)
(* One call of DirectDeploymentEngine.deployWithClosures.                  *)
(*                                                                         *)
(* The engine walks the deployment plan level by level.  Level 0 holds the *)
(* closures, levels 1 .. LastLevel the resources.  The tasks of a level    *)
(* run concurrently and the engine waits for all of them                   *)
(* (Promise.allSettled), then folds their results one by one, and either   *)
(* starts the next level or, with rollbackOnFailure, deletes what it       *)
(* recorded and returns.  Around it run the watchdog timer, the caller     *)
(* that may abort, and the other writers of the cluster.                   *)
(*                                                                         *)
(* Abstractions: a level is processed in any order (the code uses the      *)
(* order of the plan's list); the number of errors is a set of the ids     *)
(* that failed; time is the nondeterminism of the timeouts.                *)
(***************************************************************************)
EXTENDS Naturals, Sequences, FiniteSets, SequencesExt

CONSTANTS
    Resources,    \* ids of the nodes of the dependency graph
    Closures,     \* names of the deployment closures
    Deps,         \* Deps[r]: what resource r depends on
    Level,        \* Level[t]: level of task t in the enhanced plan
    LastLevel,    \* the last level of the plan
    Unlisted,     \* nodes of the graph that graph.resources does not list
    Scoped,       \* resources whose effective scope set is not empty
    Namespaces,   \* resources of kind Namespace
    MaxAttempts,  \* retryPolicy.maxRetries + 1
    Options       \* the option records a deployment may be called with

Tasks == Resources \cup Closures

OptionRecords ==
    [rollbackOnFailure : BOOLEAN,
     waitForReady      : BOOLEAN,
     dryRun            : BOOLEAN,
     targetScopes      : {"undefined", "none", "scoped"}]

ASSUME ResourcesAssumption ==
    /\ IsFiniteSet(Resources) /\ IsFiniteSet(Closures)
    /\ Resources \cap Closures = {}
    /\ Unlisted \subseteq Resources
    /\ Scoped \subseteq Resources
    /\ Namespaces \subseteq Resources

\* What analyzeDeploymentOrder and integrateClosuresIntoPlan establish.
ASSUME PlanAssumption ==
    /\ LastLevel \in Nat
    /\ Deps \in [Resources -> SUBSET Resources]
    /\ Level \in [Tasks -> 0 .. LastLevel]
    /\ \A c \in Closures : Level[c] = 0
    /\ \A r \in Resources : Level[r] >= 1
    /\ \A r \in Resources : \A d \in Deps[r] : Level[d] < Level[r]

ASSUME BoundsAssumption ==
    /\ MaxAttempts \in Nat \ {0}
    /\ Options \subseteq OptionRecords

VARIABLES
    opt,          \* the options of this deployment; never changes
    phase,        \* where deployWithClosures is
    level,        \* index of the level being deployed
    pc,           \* pc[t]: where the promise of task t is
    out,          \* out[t]: what the promise of task t resolved to
    attempts,     \* attempts[r]: failed attempts to apply r
    collected,    \* tasks of which the result was folded
    deployed,     \* deployedResources, in the order of insertion
    errors,       \* ids in the errors array
    levelFailed,  \* levelHasFailures
    cursor,       \* position of the rollback in deployed, walked backwards
    deleting,     \* deployed[cursor] is being polled for its 404
    attempted,    \* history: the resources whose deletion was requested
    delErrors,    \* ids in the (discarded) errors array of the rollback
    signal,       \* the deployment's own abort signal is aborted
    extAborted,   \* options.abortSignal is aborted
    timer,        \* the watchdog timer
    result,       \* what the call returns
    record,       \* status stored in deploymentState, or "none"
    obj,          \* obj[r]: the object with r's name in the cluster
    written,      \* history: resources that this deployment wrote
    acked,        \* history: resources of which the apply returned an object,
                  \* in a dry run or of another writer too
    leased        \* Namespaces that still have the UID of their liveManifest

taskVars    == <<pc, out, attempts>>
collectVars == <<collected, deployed, errors, levelFailed>>
deleteVars  == <<cursor, deleting, attempted, delErrors>>
abortVars   == <<signal, extAborted, timer>>
vars == <<opt, phase, level, taskVars, collectVars, deleteVars, abortVars,
          result, record, obj, written, acked, leased>>

-----------------------------------------------------------------------------
(***************************************************************************)
(* Outcomes of a task.  "failed" is the record that the catch clause of    *)
(* deployLevel makes up (applied unset), "unready" the one that            *)
(* deploySingleResource attaches to a readiness error (applied true).      *)
(***************************************************************************)
\* Faulty variants (operators named Bad...) are what a plausible mistake
\* would make of the definition that follows them; no behaviour uses them.
BadAppliedFlag == {"deployed", "ready"}

BadSuccess    == {"deployed", "ready", "unready", "closureOk"}
Success       == {"deployed", "ready", "closureOk"}
AppliedFlag   == {"deployed", "ready", "unready"}
HasRecord     == AppliedFlag \cup {"failed"}
HasError      == {"missing", "failed", "unready", "closureFailed"}

AtLevel(l) == {t \in Tasks : Level[t] = l}

\* scopesMatchDeployTarget, with undefined meaning every resource
Selected(r) ==
    CASE opt.targetScopes = "undefined" -> TRUE
      [] opt.targetScopes = "none"      -> r \notin Scoped
      [] opt.targetScopes = "scoped"    -> r \in Scoped

\* the filter of rollbackDeployedResources: shared resources are kept unless
\* the deployment targeted their scope
RollbackSelects(r) == r \in Scoped => opt.targetScopes = "scoped"

\* deleteResourceList passes over what was never applied
BadDeletable(r) == RollbackSelects(r)
Deletable(r) == RollbackSelects(r) /\ out[r] \in AppliedFlag

-----------------------------------------------------------------------------
Init ==
    /\ opt \in Options
    /\ phase = "planning"
    /\ level = 0
    /\ pc = [t \in Tasks |-> "idle"]
    /\ out = [t \in Tasks |-> "none"]
    /\ attempts = [r \in Resources |-> 0]
    /\ collected = {}
    /\ deployed = <<>>
    /\ errors = {}
    /\ levelFailed = FALSE
    /\ cursor = 0
    /\ deleting = FALSE
    /\ attempted = {}
    /\ delErrors = {}
    /\ extAborted \in BOOLEAN
    /\ signal = extAborted
    /\ timer = "armed"
    /\ result = "none"
    /\ record = "none"
    /\ obj \in [Resources -> {"absent", "foreign"}]
    /\ written = {}
    /\ acked = {}
    /\ leased = {}

-----------------------------------------------------------------------------
(***************************************************************************)
(* deployWithClosures: planning and the loop over the levels.              *)
(***************************************************************************)

\* validateAndPlanDeployment succeeds
Plan ==
    /\ phase = "planning"
    /\ phase' = "starting"
    /\ UNCHANGED <<opt, level, taskVars, collectVars, deleteVars, abortVars,
                   result, record, obj, written, acked, leased>>

\* An external reference cannot be read, or the signal is already aborted:
\* the catch clause answers "failed" with a single "deployment" error.
PlanFails ==
    /\ phase = "planning"
    /\ phase' = "cleanup"
    /\ errors' = {"deployment"}
    /\ result' = "failed"
    /\ UNCHANGED <<opt, level, taskVars, collected, deployed, levelFailed,
                   deleteVars, abortVars, record, obj, written, acked, leased>>

\* The synchronous prefix of the tasks of a level: every promise is created,
\* and those that need no call of the cluster are already resolved.
StartLevel ==
    /\ phase = "starting"
    /\ level <= LastLevel
    /\ LET resolvedTo(t) ==
             CASE t \in Unlisted -> "missing"
               [] t \in Resources \ Unlisted /\ ~Selected(t) -> "skipped"
               [] OTHER -> "none"
       IN  /\ out' = [t \in Tasks |->
                        IF Level[t] = level THEN resolvedTo(t) ELSE out[t]]
           /\ pc'  = [t \in Tasks |->
                        IF Level[t] # level THEN pc[t]
                        ELSE IF resolvedTo(t) # "none" THEN "settled"
                        ELSE IF t \in Closures THEN "closure" ELSE "crd"]
    /\ levelFailed' = FALSE
    /\ phase' = "running"
    /\ UNCHANGED <<opt, level, attempts, collected, deployed, errors,
                   deleteVars, abortVars, result, record, obj, written, acked, leased>>

\* buildDeploymentResult
FinishLevels ==
    /\ phase = "starting"
    /\ level > LastLevel
    /\ result' = CASE errors = {} -> "success"
                   [] errors # {} /\ (\E i \in 1 .. Len(deployed) :
                                        out[deployed[i]] \in Success) -> "partial"
                   [] OTHER -> "failed"
    /\ phase' = "cleanup"
    /\ UNCHANGED <<opt, level, taskVars, collectVars, deleteVars, abortVars,
                   record, obj, written, acked, leased>>

\* Promise.allSettled: every task of the level has an outcome (the faulty
\* variant is Promise.all, which returns with the first failure)
BadLevelSettled ==
    \/ \A t \in AtLevel(level) : pc[t] = "settled"
    \/ \E t \in AtLevel(level) : out[t] \in HasError
\* (another one does not count the waits for readiness)
UnawaitedLevelSettled == \A t \in AtLevel(level) : pc[t] \in {"wait", "settled"}
LevelSettled == \A t \in AtLevel(level) : pc[t] = "settled"

AllSettled ==
    /\ phase = "running"
    /\ LevelSettled
    /\ phase' = "collecting"
    /\ UNCHANGED <<opt, level, taskVars, collectVars, deleteVars, abortVars,
                   result, record, obj, written, acked, leased>>

\* The live read of a resource that succeeded: what stands under the name now
\* is its liveManifest, after a dry run and in place of a replaced object too
ReadBack(t) ==
    /\ t \in Namespaces /\ out[t] \in Success /\ obj[t] # "absent"
    /\ leased' = leased \cup {t}

\* One turn of the loop over levelResults.  A resource that was skipped has
\* success but no deployedResource, so it takes the failure branch too; a
\* read that fails is only logged.  No task rejects: each catches its errors.
Collect(t) ==
    /\ phase = "collecting"
    /\ t \in AtLevel(level) \ collected
    /\ collected' = collected \cup {t}
    /\ deployed' = IF out[t] \in HasRecord THEN Append(deployed, t) ELSE deployed
    /\ errors' = IF out[t] \in HasError THEN errors \cup {t} ELSE errors
    /\ levelFailed' = IF out[t] \in Success THEN levelFailed ELSE TRUE
    /\ ReadBack(t) \/ leased' = leased
    /\ UNCHANGED <<opt, phase, level, taskVars, deleteVars, abortVars,
                   result, record, obj, written, acked>>

\* The end of deployLevel without rollback
NextLevel ==
    /\ phase = "collecting"
    /\ AtLevel(level) \subseteq collected
    /\ ~(levelFailed /\ opt.rollbackOnFailure)
    /\ level' = level + 1
    /\ phase' = "starting"
    /\ UNCHANGED <<opt, taskVars, collectVars, deleteVars, abortVars,
                   result, record, obj, written, acked, leased>>

\* The end of deployLevel with rollback
StartRollback ==
    /\ phase = "collecting"
    /\ AtLevel(level) \subseteq collected
    /\ levelFailed /\ opt.rollbackOnFailure
    /\ phase' = "rollback"
    /\ cursor' = Len(deployed)
    /\ UNCHANGED <<opt, level, taskVars, collectVars, deleting, attempted,
                   delErrors, abortVars, result, record, obj, written, acked, leased>>

\* cleanupDeployment, then the record; a rolled back deployment stores none
Cleanup ==
    /\ phase = "cleanup"
    /\ timer' = "cleared"
    /\ record' = CASE result \in {"success", "partial"} -> "completed"
                   [] result = "failed" -> "failed"
                   [] result = "rolledBack" -> "none"
    /\ phase' = "done"
    /\ UNCHANGED <<opt, level, taskVars, collectVars, deleteVars, signal,
                   extAborted, result, obj, written, acked, leased>>

-----------------------------------------------------------------------------
(***************************************************************************)
(* A task of the current level: the promise built by deployLevel, with     *)
(* deploySingleResource inlined.                                           *)
(***************************************************************************)
Settle(t, outcome) ==
    /\ pc' = [pc EXCEPT ![t] = "settled"]
    /\ out' = [out EXCEPT ![t] = outcome]

taskFrame == <<opt, phase, level, collectVars, deleteVars, abortVars,
               result, record>>

RunClosure(c) ==
    /\ pc[c] = "closure"
    /\ \E o \in {"closureOk", "closureFailed"} : Settle(c, o)
    /\ UNCHANGED <<taskFrame, attempts, obj, written, acked, leased>>

\* waitForCRDIfCustomResource returns and deploySingleResource passes its
\* abort check, both synchronously after the last read of the CRD
CRDReady(r) ==
    /\ pc[r] = "crd"
    /\ ~signal
    /\ pc' = [pc EXCEPT ![r] = "resolve"]
    /\ UNCHANGED <<taskFrame, out, attempts, obj, written, acked, leased>>

\* The signal is aborted
CRDAborted(r) ==
    /\ pc[r] = "crd"
    /\ signal
    /\ Settle(r, "failed")
    /\ UNCHANGED <<taskFrame, attempts, obj, written, acked, leased>>

\* The CRD is not established in time, or the resource has no evaluator
CRDFails(r) ==
    /\ pc[r] = "crd"
    /\ Settle(r, "failed")
    /\ UNCHANGED <<taskFrame, attempts, obj, written, acked, leased>>

\* Reference resolution never fails: after its own timeout, or an error, the
\* original resource is used.
Resolve(r) ==
    /\ pc[r] = "resolve"
    /\ pc' = [pc EXCEPT ![r] = "apply"]
    /\ UNCHANGED <<taskFrame, out, attempts, obj, written, acked, leased>>

\* After the apply: wait for readiness, or answer at once
AfterApply(r) ==
    /\ acked' = acked \cup {r}
    /\ leased' = IF r \in Namespaces /\ ~opt.dryRun THEN leased \cup {r} ELSE leased
    /\ IF opt.waitForReady
       THEN pc' = [pc EXCEPT ![r] = "wait"] /\ out' = out
       ELSE Settle(r, "deployed")

\* The object after a write was accepted; one being deleted stays so
Write(r) ==
    /\ obj' = [obj EXCEPT ![r] = IF @ = "terminating" THEN @ ELSE "ours"]
    /\ written' = written \cup {r}

\* Only options.abortSignal stops an apply, not the deployment's own signal
ApplyAborted(r) ==
    /\ pc[r] = "apply"
    /\ ~opt.dryRun
    /\ extAborted
    /\ Settle(r, "failed")
    /\ UNCHANGED <<taskFrame, attempts, obj, written, acked, leased>>

ApplyDryRun(r) ==
    /\ pc[r] = "apply"
    /\ opt.dryRun
    /\ AfterApply(r)
    /\ UNCHANGED <<taskFrame, attempts, obj, written>>

\* An attempt is under way: from here on an abort does not stop it
ApplySend(r) ==
    /\ pc[r] = "apply"
    /\ ~opt.dryRun /\ ~extAborted
    /\ pc' = [pc EXCEPT ![r] = "sent"]
    /\ UNCHANGED <<taskFrame, out, attempts, obj, written, acked, leased>>

ApplySucceeds(r) ==
    /\ pc[r] = "sent"
    /\ Write(r)
    /\ AfterApply(r)
    /\ UNCHANGED <<taskFrame, attempts>>

\* Somebody else's object is taken as it is: "warn" after a 409, or a policy
\* that preserves what exists
ApplyAdopts(r) ==
    /\ pc[r] = "sent"
    /\ obj[r] = "foreign"
    /\ AfterApply(r)
    /\ UNCHANGED <<taskFrame, attempts, obj, written>>

\* the loop counter of applyArtifactResource
BadRetriesLeft(r) == attempts[r] < MaxAttempts
RetriesLeft(r) == attempts[r] + 1 < MaxAttempts

\* An attempt fails, though its write may have reached the cluster (a lost
\* answer); it is retried after a delay while attempts are left.  An error
\* that is not worth a retry, or an abort meanwhile, ends the task at once.
ApplyFails(r) ==
    /\ pc[r] = "sent"
    /\ Write(r) \/ UNCHANGED <<obj, written>>
    /\ \/ /\ ~extAborted
          /\ RetriesLeft(r)
          /\ attempts' = [attempts EXCEPT ![r] = @ + 1]
          /\ pc' = [pc EXCEPT ![r] = "apply"]
          /\ UNCHANGED out
       \/ /\ Settle(r, "failed")
          /\ UNCHANGED attempts
    /\ UNCHANGED <<taskFrame, acked, leased>>

\* A poll of waitForResourceReady finds the live object ready
BecomesReady(r) ==
    /\ pc[r] = "wait"
    /\ ~signal
    /\ obj[r] # "absent"
    /\ Settle(r, "ready")
    /\ UNCHANGED <<taskFrame, attempts, obj, written, acked, leased>>

WaitAborted(r) ==
    /\ pc[r] = "wait"
    /\ signal
    /\ Settle(r, "unready")
    /\ UNCHANGED <<taskFrame, attempts, obj, written, acked, leased>>

\* The evaluator reports a terminal state, or the wait's own timeout passes
WaitFails(r) ==
    /\ pc[r] = "wait"
    /\ Settle(r, "unready")
    /\ UNCHANGED <<taskFrame, attempts, obj, written, acked, leased>>

Task(t) ==
    \/ t \in Closures /\ RunClosure(t)
    \/ t \in Resources /\
         \/ CRDReady(t) \/ CRDAborted(t) \/ CRDFails(t)
         \/ Resolve(t)
         \/ ApplyAborted(t) \/ ApplyDryRun(t) \/ ApplySend(t) \/ ApplySucceeds(t)
         \/ ApplyAdopts(t) \/ ApplyFails(t)
         \/ BecomesReady(t) \/ WaitAborted(t) \/ WaitFails(t)

-----------------------------------------------------------------------------
(***************************************************************************)
(* rollbackDeployedResources: deployedResources is walked backwards, each  *)
(* object is deleted and polled until it is gone.  Its errors are dropped. *)
(***************************************************************************)
BadCurrent == deployed[Len(deployed) + 1 - cursor]
Current == deployed[cursor]

rollbackFrame == <<opt, phase, level, taskVars, collectVars, abortVars,
                   result, record, written, acked, leased>>

\* The delete request of a Namespace carries the UID of liveManifest: the one
\* that the apply returned (in a dry run it names no object at all), or that
\* of whatever had the name when the result was folded.
LeaseHolds(r) == r \in Namespaces => r \in leased

\* Filtered out by scope, or never applied
SkipDelete ==
    /\ phase = "rollback" /\ cursor > 0 /\ ~deleting
    /\ ~Deletable(Current)
    /\ cursor' = cursor - 1
    /\ UNCHANGED <<rollbackFrame, deleting, attempted, delErrors, obj>>

CanDelete == phase = "rollback" /\ cursor > 0 /\ ~deleting /\ Deletable(Current)

\* throwIfAborted(options.abortSignal) comes before anything else
DeleteAborted ==
    /\ CanDelete
    /\ extAborted
    /\ delErrors' = delErrors \cup {Current}
    /\ cursor' = cursor - 1
    /\ UNCHANGED <<rollbackFrame, deleting, attempted, obj>>

\* 404: already gone
DeleteNotFound ==
    /\ CanDelete
    /\ ~extAborted
    /\ obj[Current] = "absent"
    /\ attempted' = attempted \cup {Current}
    /\ cursor' = cursor - 1
    /\ UNCHANGED <<rollbackFrame, deleting, delErrors, obj>>

\* A Namespace is not polled: its deletion completes by itself
DeleteAccepted ==
    /\ CanDelete
    /\ ~extAborted
    /\ obj[Current] # "absent"
    /\ LeaseHolds(Current)
    /\ obj' = [obj EXCEPT ![Current] = "terminating"]
    /\ attempted' = attempted \cup {Current}
    /\ IF Current \in Namespaces
       THEN cursor' = cursor - 1 /\ deleting' = FALSE
       ELSE cursor' = cursor /\ deleting' = TRUE
    /\ UNCHANGED <<rollbackFrame, delErrors>>

\* The API refuses: a lost lease, or any other error
DeleteRefused ==
    /\ CanDelete
    /\ ~extAborted
    /\ attempted' = attempted \cup {Current}
    /\ delErrors' = delErrors \cup {Current}
    /\ cursor' = cursor - 1
    /\ UNCHANGED <<rollbackFrame, deleting, obj>>

PollGone ==
    /\ phase = "rollback" /\ deleting
    /\ obj[Current] = "absent"
    /\ deleting' = FALSE
    /\ cursor' = cursor - 1
    /\ UNCHANGED <<rollbackFrame, attempted, delErrors, obj>>

\* The timeout passes, a read fails, or the caller aborts
PollFails ==
    /\ phase = "rollback" /\ deleting
    /\ deleting' = FALSE
    /\ delErrors' = delErrors \cup {Current}
    /\ cursor' = cursor - 1
    /\ UNCHANGED <<rollbackFrame, attempted, obj>>

\* deployLevel answers "failed" with the errors of the deployment
RollbackDone ==
    /\ phase = "rollback"
    /\ cursor = 0
    /\ result' = "rolledBack"
    /\ phase' = "cleanup"
    /\ UNCHANGED <<opt, level, taskVars, collectVars, deleteVars, abortVars,
                   record, obj, written, acked, leased>>

-----------------------------------------------------------------------------
(***************************************************************************)
(* The watchdog, the caller, and the other writers of the cluster.         *)
(***************************************************************************)
environmentFrame == <<opt, phase, level, taskVars, collectVars, deleteVars,
                      result, record, written, acked>>

BadDeploymentTimeout ==
    /\ timer = "armed"
    /\ timer' = "fired"
    /\ UNCHANGED <<environmentFrame, signal, extAborted, obj, leased>>

DeploymentTimeout ==
    /\ timer = "armed"
    /\ timer' = "fired"
    /\ signal' = TRUE
    /\ UNCHANGED <<environmentFrame, extAborted, obj, leased>>

\* The caller's signal is forwarded until cleanupDeployment detaches it
ExternalAbort ==
    /\ ~extAborted
    /\ extAborted' = TRUE
    /\ signal' = IF phase = "done" THEN signal ELSE TRUE
    /\ UNCHANGED <<environmentFrame, timer, obj, leased>>

\* dispose() or another caller of the engine
AbortAllOperations ==
    /\ phase # "done"
    /\ signal' = TRUE
    /\ UNCHANGED <<environmentFrame, extAborted, timer, obj, leased>>

\* Another writer creates or deletes an object; a deletion completes
OtherWriter(r) ==
    /\ \/ obj[r] = "absent" /\ obj' = [obj EXCEPT ![r] = "foreign"]
       \/ obj[r] # "absent" /\ obj' = [obj EXCEPT ![r] = "absent"]
    /\ leased' = leased \ {r}
    /\ UNCHANGED <<environmentFrame, abortVars>>

-----------------------------------------------------------------------------
Control == Plan \/ PlanFails \/ StartLevel \/ AllSettled \/ NextLevel
           \/ StartRollback \/ FinishLevels \/ Cleanup

Rollback == SkipDelete \/ DeleteAborted \/ DeleteNotFound \/ DeleteAccepted
            \/ DeleteRefused \/ PollGone \/ PollFails \/ RollbackDone

Environment ==
    \/ DeploymentTimeout \/ ExternalAbort \/ AbortAllOperations
    \/ \E r \in Resources : OtherWriter(r)

Next ==
    \/ Control
    \/ \E t \in Tasks : Task(t) \/ Collect(t)
    \/ Rollback
    \/ Environment

Spec == Init /\ [][Next]_vars

(***************************************************************************)
(* Fairness: the event loop runs every step of the engine, and every       *)
(* request of the apply and of the rollback is answered.  The timer fires. *)
(* Nothing is assumed of what the cluster makes of the objects: a          *)
(* CRD may never be established and an object never become ready, and      *)
(* neither wait is assumed to reach its own timeout.                       *)
(***************************************************************************)
TaskProgress(t) ==
    \/ t \in Closures /\ RunClosure(t)
    \/ t \in Resources /\ (\/ CRDAborted(t) \/ Resolve(t)
                           \/ ApplyAborted(t) \/ ApplyDryRun(t) \/ ApplySend(t)
                           \/ ApplySucceeds(t) \/ ApplyAdopts(t) \/ ApplyFails(t)
                           \/ WaitAborted(t))

Fairness ==
    /\ WF_vars(Control)
    /\ WF_vars(Rollback)
    /\ WF_vars(DeploymentTimeout)
    /\ \A t \in Tasks : WF_vars(Collect(t)) /\ WF_vars(TaskProgress(t))

FairSpec == Spec /\ Fairness

-----------------------------------------------------------------------------
(***************************************************************************)
(* Properties                                                              *)
(***************************************************************************)
TaskPCs == {"idle", "crd", "resolve", "apply", "sent", "wait", "settled"}
Outcomes == {"none", "skipped", "missing", "failed", "unready", "deployed", "ready"}
ClosureOutcomes == {"none", "closureOk", "closureFailed"}
Phases  == {"planning", "starting", "running", "collecting", "rollback",
            "cleanup", "done"}

ControlTypes ==
    /\ opt \in Options
    /\ phase \in Phases
    /\ level \in 0 .. LastLevel + 1
    /\ result \in {"none", "success", "partial", "failed", "rolledBack"}
    /\ record \in {"none", "completed", "failed"}

TaskTypes ==
    /\ pc \in [Tasks -> TaskPCs \cup {"closure"}]
    /\ out \in [Tasks -> Outcomes \cup ClosureOutcomes]
    /\ \A r \in Resources : pc[r] \in TaskPCs /\ out[r] \in Outcomes
    /\ \A c \in Closures : /\ pc[c] \in {"idle", "closure", "settled"}
                           /\ out[c] \in ClosureOutcomes
    /\ attempts \in [Resources -> 0 .. MaxAttempts - 1]

CollectTypes ==
    /\ collected \subseteq Tasks
    /\ deployed \in Seq(Resources)
    /\ errors \subseteq Tasks \cup {"deployment"}

DeleteTypes ==
    /\ cursor \in 0 .. Len(deployed)
    /\ attempted \subseteq Resources
    /\ delErrors \subseteq Resources

FlagTypes ==
    /\ levelFailed \in BOOLEAN
    /\ deleting \in BOOLEAN
    /\ signal \in BOOLEAN
    /\ extAborted \in BOOLEAN

ClusterTypes ==
    /\ timer \in {"armed", "fired", "cleared"}
    /\ obj \in [Resources -> {"absent", "foreign", "ours", "terminating"}]
    /\ written \subseteq Resources
    /\ acked \subseteq Resources
    /\ leased \subseteq Namespaces

\* Every variable of the engine stays in its type; the retry counter stays
\* below the bound of the retry policy (applyArtifactResource's loop).
TypeOK == /\ ControlTypes /\ TaskTypes /\ CollectTypes
          /\ DeleteTypes /\ FlagTypes /\ ClusterTypes

\* The barrier between levels: no task of a resource starts before the
\* engine has folded the final results of all that the resource depends on,
\* so references are resolved against live dependencies (deployWithClosures).
DependenciesCollectedFirst ==
    \A r \in Resources : pc[r] # "idle" =>
        \A d \in Deps[r] : d \in collected /\ pc[d] = "settled"

\* No task of the deployment is in flight while the engine plans, folds
\* results, rolls back or has returned: the rollback deletes nothing that a
\* task still applies, and nothing is applied after the call has returned,
\* whatever the timer and the caller's signal do (Promise.allSettled).
NoTaskOutsideLevel ==
    phase # "running" => \A t \in Tasks : pc[t] \in {"idle", "settled"}

\* A rollback requests the deletion of an object only after it has dealt
\* with every deletable object that depends on it (rollbackDeployedResources
\* relies on the order of deployedResources for that).
RollbackOrder ==
    \A r \in attempted : \A t \in Resources :
        r \in Deps[t] /\ t \in ToSet(deployed) /\ Deletable(t) => t \in attempted

\* A rollback deletes nothing but what an apply step of the deployment was
\* answered for, and of the shared resources only those whose scope it
\* targeted (what it adopted or only simulated is among them).  When it has run and
\* the caller did not abort, every such object is gone, or its deletion
\* failed; a Namespace may still be terminating.
RollbackExact ==
    LET ours == {r \in acked : RollbackSelects(r)}
    IN  /\ attempted \subseteq ours
        /\ result = "rolledBack" /\ ~extAborted =>
              \A r \in ours :
                  r \in delErrors \/ (r \in attempted /\ obj[r] # "ours")

\* The status that is returned agrees with the outcomes of all tasks
\* (buildDeploymentResult): "success" only if everything selected went well,
\* "partial" only with a failure and a success, "failed" without any success
\* and with at least one failure.
ResultHonest ==
    LET good == {r \in Resources : out[r] \in {"deployed", "ready"}}
        bad  == {t \in Tasks : out[t] \in {"missing", "failed", "unready", "closureFailed"}}
    IN  /\ result = "success" =>
             /\ \A r \in Resources \ Unlisted : Selected(r) => r \in good
             /\ \A c \in Closures : out[c] = "closureOk"
        /\ result = "partial" => good # {} /\ bad # {}
        /\ result = "failed"  => good = {} /\ errors # {}

\* The call always returns: a CRD that is never established and an object
\* that is never ready end with the watchdog (setupDeploymentTimeout), the
\* retries of an apply and the polls of a rollback are bounded.
Termination == <>(phase = "done")

-----------------------------------------------------------------------------
(***************************************************************************)
(* Refinement of DeploymentPromise: a resource is applied when the apply   *)
(* returned it, removed when the rollback requested its deletion, given up *)
(* when its task ended otherwise.                                          *)
(***************************************************************************)
Stage == [r \in Resources |->
            CASE r \in attempted -> "removed"
              [] r \in acked \ attempted -> "applied"
              [] r \notin acked \cup attempted /\ pc[r] = "settled" -> "givenUp"
              [] OTHER -> "pending"]

Mode == CASE phase = "done" -> "returned"
          [] phase # "done" /\ (phase = "rollback" \/ result = "rolledBack") -> "undoing"
          [] OTHER -> "deploying"

Promise == INSTANCE DeploymentPromise
             WITH mode <- Mode, stage <- Stage,
                  removable <- {r \in Resources : RollbackSelects(r)}

\* The deployment keeps its promise: dependencies are decided first, a
\* rollback removes dependents first and never runs beside an apply, and
\* nothing is applied or deleted after the call has returned.
KeepsPromise == Promise!Spec

-----------------------------------------------------------------------------
(***************************************************************************)
(* What documentation says and the code does not do                        *)
(***************************************************************************)

\* types/deployment.ts: resources outside targetScopes are silently skipped,
\* "not an error"; so a deployment in which nothing failed is not undone.
SkippedIsNoFailure == phase = "rollback" => errors # {}
=============================================================================
