---------------------- MODULE DirectDeployment_proofs ----------------------
(***************************************************************************)
(* Proofs about DirectDeployment, for every graph, plan, set of options    *)
(* and bound on the retries.  The inductive invariant is built in layers:  *)
(* each lemma adds a part and rests on the parts before it.                *)
(***************************************************************************)
EXTENDS DirectDeployment, TLAPS

-----------------------------------------------------------------------------
(***************************************************************************)
(* Types                                                                   *)
(***************************************************************************)

\* What types need besides: the level that is being worked on exists, a
\* deletion is polled only at a position of deployed, and there is a result
\* when the call is about to return.
InPlan ==
    /\ phase \in {"cleanup", "done"} => result # "none"
    /\ phase \in {"running", "collecting", "rollback"} => level <= LastLevel
    /\ deleting => cursor > 0

TypeInv == TypeOK /\ InPlan

LEMMA TypeInit == Init => TypeInv
  <1> SUFFICES ASSUME Init PROVE TypeInv
    OBVIOUS
  <1> USE ResourcesAssumption, PlanAssumption, BoundsAssumption DEF Init
  <1>1. ControlTypes
    BY DEF ControlTypes, Phases
  <1>2. TaskTypes
    <2>1. /\ pc \in [Tasks -> TaskPCs \cup {"closure"}]
          /\ out \in [Tasks -> Outcomes \cup ClosureOutcomes]
      BY DEF TaskPCs, Outcomes
    <2>2. /\ \A r \in Resources : pc[r] \in TaskPCs /\ out[r] \in Outcomes
          /\ \A c \in Closures : /\ pc[c] \in {"idle", "closure", "settled"}
                                 /\ out[c] \in ClosureOutcomes
      BY DEF TaskPCs, Outcomes, ClosureOutcomes, Tasks
    <2>3. attempts \in [Resources -> 0 .. MaxAttempts - 1]
      OBVIOUS
    <2> QED
      BY <2>1, <2>2, <2>3 DEF TaskTypes
  <1>3. CollectTypes
    BY DEF CollectTypes
  <1>4. DeleteTypes
    BY DEF DeleteTypes
  <1>5. ClusterTypes
    BY DEF ClusterTypes
  <1>6. FlagTypes
    BY DEF FlagTypes
  <1>7. InPlan
    BY DEF InPlan
  <1> QED
    BY <1>1, <1>2, <1>3, <1>4, <1>5, <1>6, <1>7 DEF TypeInv, TypeOK

LEMMA FlagStep == TypeInv /\ [Next]_vars => FlagTypes'
  <1> SUFFICES ASSUME TypeInv, [Next]_vars PROVE FlagTypes'
    OBVIOUS
  <1> USE DEF TypeInv, TypeOK, FlagTypes, collectVars, deleteVars, abortVars
  <1>1. CASE Control
    BY <1>1 DEF Control, Plan, PlanFails, StartLevel, AllSettled, NextLevel,
      StartRollback, FinishLevels, Cleanup
  <1>2. CASE Rollback
    BY <1>2 DEF Rollback, SkipDelete, DeleteAborted, DeleteNotFound, DeleteAccepted,
      DeleteRefused, PollGone, PollFails, RollbackDone, CanDelete, rollbackFrame
  <1>3. CASE Environment
    BY <1>3 DEF Environment, DeploymentTimeout, ExternalAbort, AbortAllOperations,
      OtherWriter, environmentFrame
  <1>4. ASSUME NEW t \in Tasks, Collect(t) PROVE FlagTypes'
    BY <1>4 DEF Collect
  <1>5. ASSUME NEW t \in Tasks, Task(t) PROVE FlagTypes'
    BY <1>5 DEF Task, RunClosure, CRDReady, CRDAborted, CRDFails, Resolve, ApplyAborted,
      ApplyDryRun, ApplySend, ApplySucceeds, ApplyAdopts, ApplyFails, BecomesReady, WaitAborted,
      WaitFails, taskFrame
  <1>6. CASE UNCHANGED vars
    BY <1>6 DEF vars
  <1> QED
    BY <1>1, <1>2, <1>3, <1>4, <1>5, <1>6 DEF Next

LEMMA TypeStep == TypeInv /\ [Next]_vars => TypeInv'
  <1> SUFFICES ASSUME TypeInv, [Next]_vars PROVE TypeInv'
    OBVIOUS
  <1>0. FlagTypes'
    BY FlagStep
  <1> USE <1>0, ResourcesAssumption, PlanAssumption, BoundsAssumption
      DEF TypeInv, TypeOK, InPlan
  <1>1. CASE Plan
    BY <1>1 DEF Plan, ControlTypes, Phases, TaskTypes, CollectTypes, DeleteTypes,
      ClusterTypes, taskVars, collectVars, deleteVars, abortVars
  <1>2. CASE PlanFails
    <2>1. ControlTypes' /\ CollectTypes' /\ InPlan'
      BY <1>2 DEF PlanFails, ControlTypes, Phases, CollectTypes, deleteVars
    <2>2. TaskTypes' /\ DeleteTypes' /\ ClusterTypes'
      BY <1>2 DEF PlanFails, TaskTypes, DeleteTypes, ClusterTypes, taskVars, deleteVars, abortVars
    <2> QED
      BY <2>1, <2>2
  <1>3. CASE StartLevel
    <2>1. TaskTypes'
      BY <1>3 DEF StartLevel, TaskTypes, Tasks, TaskPCs, Outcomes, ClosureOutcomes
    <2>2. ControlTypes' /\ CollectTypes' /\ InPlan'
      BY <1>3 DEF StartLevel, ControlTypes, Phases, CollectTypes, deleteVars
    <2>3. DeleteTypes' /\ ClusterTypes'
      BY <1>3 DEF StartLevel, DeleteTypes, ClusterTypes, deleteVars, abortVars
    <2> QED
      BY <2>1, <2>2, <2>3
  <1>4. CASE AllSettled
    BY <1>4 DEF AllSettled, ControlTypes, Phases, TaskTypes, CollectTypes, DeleteTypes,
      ClusterTypes, taskVars, collectVars, deleteVars, abortVars
  <1>5. CASE NextLevel
    <2>1. ControlTypes' /\ InPlan'
      BY <1>5 DEF NextLevel, ControlTypes, Phases, deleteVars
    <2>2. TaskTypes' /\ CollectTypes' /\ DeleteTypes' /\ ClusterTypes'
      BY <1>5 DEF NextLevel, TaskTypes, CollectTypes, DeleteTypes, ClusterTypes,
        taskVars, collectVars, deleteVars, abortVars
    <2> QED
      BY <2>1, <2>2
  <1>6. CASE StartRollback
    <2>1. ControlTypes' /\ CollectTypes'
      BY <1>6 DEF StartRollback, ControlTypes, Phases, CollectTypes, collectVars
    <2>2. DeleteTypes' /\ InPlan'
      BY <1>6 DEF StartRollback, DeleteTypes, ControlTypes, CollectTypes, collectVars
    <2>3. TaskTypes' /\ ClusterTypes'
      BY <1>6 DEF StartRollback, TaskTypes, ClusterTypes, taskVars, abortVars
    <2> QED
      BY <2>1, <2>2, <2>3
  <1>7. CASE FinishLevels
    <2>1. ControlTypes' /\ InPlan'
      BY <1>7 DEF FinishLevels, ControlTypes, Phases, deleteVars
    <2>2. TaskTypes' /\ CollectTypes' /\ DeleteTypes' /\ ClusterTypes'
      BY <1>7 DEF FinishLevels, TaskTypes, CollectTypes, DeleteTypes, ClusterTypes,
        taskVars, collectVars, deleteVars, abortVars
    <2> QED
      BY <2>1, <2>2
  <1>8. CASE Cleanup
    <2>1. ControlTypes' /\ InPlan'
      BY <1>8 DEF Cleanup, ControlTypes, Phases, deleteVars
    <2>2. TaskTypes' /\ CollectTypes' /\ DeleteTypes' /\ ClusterTypes'
      BY <1>8 DEF Cleanup, TaskTypes, CollectTypes, DeleteTypes, ClusterTypes,
        taskVars, collectVars, deleteVars
    <2> QED
      BY <2>1, <2>2
  <1>9. CASE Rollback
    <2> USE DEF CanDelete, Current, rollbackFrame
    <2>1. ControlTypes' /\ TaskTypes' /\ CollectTypes'
      BY <1>9 DEF Rollback, SkipDelete, DeleteAborted, DeleteNotFound, DeleteAccepted,
        DeleteRefused, PollGone, PollFails, RollbackDone, ControlTypes, Phases,
        TaskTypes, CollectTypes, taskVars, collectVars
    <2>2. DeleteTypes'
      <3>1. cursor > 0 => Current \in Resources
        BY DEF DeleteTypes, CollectTypes
      <3>2. deployed' = deployed
        BY <1>9 DEF Rollback, SkipDelete, DeleteAborted, DeleteNotFound, DeleteAccepted,
          DeleteRefused, PollGone, PollFails, RollbackDone, collectVars
      <3>3. attempted' \subseteq Resources /\ delErrors' \subseteq Resources
        BY <1>9, <3>1 DEF Rollback, SkipDelete, DeleteAborted, DeleteNotFound, DeleteAccepted,
          DeleteRefused, PollGone, PollFails, RollbackDone, DeleteTypes, deleteVars
      <3>4. cursor' \in 0 .. Len(deployed)
        BY <1>9 DEF Rollback, SkipDelete, DeleteAborted, DeleteNotFound, DeleteAccepted,
          DeleteRefused, PollGone, PollFails, RollbackDone, DeleteTypes, deleteVars
      <3> QED
        BY <3>2, <3>3, <3>4 DEF DeleteTypes
    <2>4. InPlan'
      BY <1>9 DEF Rollback, SkipDelete, DeleteAborted, DeleteNotFound, DeleteAccepted,
        DeleteRefused, PollGone, PollFails, RollbackDone, deleteVars, ControlTypes
    <2>3. ClusterTypes'
      BY <1>9 DEF Rollback, SkipDelete, DeleteAborted, DeleteNotFound, DeleteAccepted,
        DeleteRefused, PollGone, PollFails, RollbackDone, ClusterTypes, abortVars
    <2> QED
      BY <2>1, <2>2, <2>3, <2>4
  <1>10. CASE Environment
    <2>1. ControlTypes' /\ TaskTypes' /\ CollectTypes' /\ DeleteTypes'
      BY <1>10 DEF Environment, DeploymentTimeout, ExternalAbort, AbortAllOperations,
        OtherWriter, environmentFrame, ControlTypes, TaskTypes, CollectTypes,
        DeleteTypes, taskVars, collectVars, deleteVars
    <2>2. ClusterTypes'
      BY <1>10 DEF Environment, DeploymentTimeout, ExternalAbort, AbortAllOperations,
        OtherWriter, environmentFrame, ClusterTypes, abortVars
    <2>3. UNCHANGED <<phase, level, result, cursor, deleting>>
      BY <1>10 DEF Environment, DeploymentTimeout, ExternalAbort, AbortAllOperations,
        OtherWriter, environmentFrame, deleteVars
    <2>4. InPlan'
      BY <2>3
    <2> QED
      BY <2>1, <2>2, <2>4
  <1>11. ASSUME NEW t \in Tasks, Collect(t) PROVE TypeInv'
    <2>1. out[t] \in HasRecord => t \in Resources
      BY DEF TaskTypes, Tasks, HasRecord, AppliedFlag, ClosureOutcomes
    <2>2. CollectTypes' /\ DeleteTypes' /\ InPlan'
      BY <1>11, <2>1 DEF Collect, CollectTypes, DeleteTypes, deleteVars
    <2>3. ControlTypes' /\ TaskTypes' /\ ClusterTypes'
      BY <1>11 DEF Collect, ReadBack, ControlTypes, TaskTypes, ClusterTypes, taskVars, abortVars
    <2> QED
      BY <2>2, <2>3
  <1>12. ASSUME NEW t \in Tasks, Task(t) PROVE TypeInv'
    <2> USE DEF Task, RunClosure, CRDReady, CRDAborted, CRDFails, Resolve, ApplyAborted,
      ApplyDryRun, ApplySend, ApplySucceeds, ApplyAdopts, ApplyFails, BecomesReady, WaitAborted,
      WaitFails, Settle, AfterApply, taskFrame, RetriesLeft
    <2>1. TaskTypes'
      BY <1>12 DEF TaskTypes, Tasks, TaskPCs, Outcomes, ClosureOutcomes
    <2>2. ClusterTypes'
      BY <1>12 DEF ClusterTypes, Write, abortVars
    <2>3. ControlTypes' /\ CollectTypes' /\ DeleteTypes' /\ InPlan'
      BY <1>12 DEF ControlTypes, CollectTypes, DeleteTypes, collectVars, deleteVars
    <2> QED
      BY <2>1, <2>2, <2>3
  <1>13. CASE UNCHANGED vars
    BY <1>13 DEF vars, ControlTypes, TaskTypes, CollectTypes, DeleteTypes, ClusterTypes,
      taskVars, collectVars, deleteVars, abortVars
  <1> QED
    BY <1>1, <1>2, <1>3, <1>4, <1>5, <1>6, <1>7, <1>8, <1>9, <1>10, <1>11, <1>12, <1>13
    DEF Next, Control

\* TypeOK: the variables of the engine keep their types for every plan; in
\* particular no task fails more often than the retry policy lets it.
THEOREM TypeCorrect == Spec => []TypeOK
  <1>1. Spec => []TypeInv
    BY TypeInit, TypeStep, PTL DEF Spec
  <1> QED
    BY <1>1, PTL DEF TypeInv

-----------------------------------------------------------------------------
(***************************************************************************)
(* The barrier between levels                                              *)
(***************************************************************************)

\* Tasks have started in the levels up to the current one, all but those of
\* the current level are folded, and only the current level has tasks under
\* way, while the engine waits for them.
BarrierInv ==
    /\ \A t \in Tasks :
          /\ Level[t] < level => t \in collected
          /\ pc[t] # "idle" => \/ Level[t] < level
                               \/ Level[t] = level /\ phase \notin {"planning", "starting"}
          /\ pc[t] \notin {"idle", "settled"} => phase = "running"
          /\ t \in collected => pc[t] = "settled"
          /\ phase = "collecting" /\ Level[t] = level => pc[t] = "settled"
    /\ phase \notin {"cleanup", "done"} => result = "none"
    /\ phase = "rollback" \/ result = "rolledBack" =>
          \A t \in Tasks : Level[t] = level => t \in collected

\* What a step of a task does to the control state: one task that is under
\* way moves, and nothing starts.
LEMMA TaskMoves ==
    ASSUME TypeOK, NEW u \in Tasks, Task(u)
    PROVE  /\ UNCHANGED <<phase, level, result, collected, deployed>>
           /\ pc[u] \notin {"idle", "settled"}
           /\ \A t \in Tasks \ {u} : pc'[t] = pc[t] /\ out'[t] = out[t]
           /\ pc'[u] # "idle"
  BY DEF Task, RunClosure, CRDReady, CRDAborted, CRDFails, Resolve, ApplyAborted,
    ApplyDryRun, ApplySend, ApplySucceeds, ApplyAdopts, ApplyFails, BecomesReady, WaitAborted,
    WaitFails, Settle, AfterApply, taskFrame, collectVars, TypeOK, TaskTypes

\* Rollback, cluster and callers touch neither tasks nor results.
LEMMA OthersMove ==
    ASSUME Rollback \/ Environment \/ UNCHANGED vars
    PROVE  UNCHANGED <<opt, level, pc, out, collected, deployed, errors, acked>>
  BY DEF Rollback, SkipDelete, DeleteAborted, DeleteNotFound, DeleteAccepted,
    DeleteRefused, PollGone, PollFails, RollbackDone, rollbackFrame, Environment,
    DeploymentTimeout, ExternalAbort, AbortAllOperations, OtherWriter, environmentFrame,
    vars, taskVars, collectVars

LEMMA BarrierStep == TypeInv /\ BarrierInv /\ [Next]_vars => BarrierInv'
  <1> SUFFICES ASSUME TypeInv, BarrierInv, [Next]_vars PROVE BarrierInv'
    OBVIOUS
  <1>0. /\ level \in Nat
        /\ \A t \in Tasks : Level[t] \in Nat
    BY PlanAssumption DEF TypeInv, TypeOK, ControlTypes
  <1>1. CASE Plan \/ PlanFails \/ AllSettled \/ FinishLevels \/ Cleanup \/ StartRollback
    BY <1>1, <1>0 DEF Plan, PlanFails, AllSettled, LevelSettled, FinishLevels, Cleanup, StartRollback,
      BarrierInv, AtLevel, taskVars, collectVars
  <1>2. CASE StartLevel
    BY <1>2, <1>0 DEF StartLevel, BarrierInv
  <1>3. CASE NextLevel
    <2>1. /\ level' = level + 1 /\ phase' = "starting" /\ phase = "collecting"
          /\ UNCHANGED <<pc, collected>> /\ result' = result
      BY <1>3 DEF NextLevel, taskVars, collectVars
    <2>2. \A t \in Tasks : Level[t] = level => t \in collected
      BY <1>3 DEF NextLevel, AtLevel
    <2>3. result' # "rolledBack"
      BY <2>1, <2>2 DEF BarrierInv
    <2> QED
      BY <2>1, <2>2, <2>3, <1>0 DEF BarrierInv
  <1>4. ASSUME NEW u \in Tasks, Collect(u) PROVE BarrierInv'
    BY <1>4, <1>0 DEF Collect, BarrierInv, AtLevel, taskVars
  <1>5. ASSUME NEW u \in Tasks, Task(u) PROVE BarrierInv'
    <2>1. /\ UNCHANGED <<phase, level, result, collected>>
          /\ pc[u] \notin {"idle", "settled"} /\ pc'[u] # "idle"
          /\ \A t \in Tasks \ {u} : pc'[t] = pc[t]
      BY <1>5, TaskMoves DEF TypeInv
    <2> QED
      BY <2>1, <1>0 DEF BarrierInv
  <1>6. CASE Rollback
    BY <1>6, <1>0, OthersMove DEF Rollback, SkipDelete, DeleteAborted, DeleteNotFound,
      DeleteAccepted, DeleteRefused, PollGone, PollFails, RollbackDone, CanDelete,
      rollbackFrame, BarrierInv
  <1>7. CASE Environment \/ UNCHANGED vars
    <2>1. UNCHANGED <<phase, result, level, pc, collected>>
      BY <1>7 DEF Environment, DeploymentTimeout, ExternalAbort, AbortAllOperations,
        OtherWriter, environmentFrame, vars, taskVars, collectVars
    <2> QED
      BY <2>1 DEF BarrierInv
  <1> QED
    BY <1>1, <1>2, <1>3, <1>4, <1>5, <1>6, <1>7 DEF Next, Control

LEMMA BarrierInit == Init => BarrierInv
  BY PlanAssumption DEF Init, BarrierInv, Tasks

LEMMA BarrierCorrect == Spec => [](TypeInv /\ BarrierInv)
  BY TypeInit, TypeStep, BarrierInit, BarrierStep, PTL DEF Spec

\* DependenciesCollectedFirst: for every acyclic graph and its plan, no
\* resource is begun before the results of its dependencies are folded.
THEOREM DependenciesFirst == Spec => []DependenciesCollectedFirst
  <1>1. TypeInv /\ BarrierInv => DependenciesCollectedFirst
    <2> SUFFICES ASSUME TypeInv, BarrierInv, NEW r \in Resources, pc[r] # "idle",
                        NEW d \in Deps[r]
                 PROVE  d \in collected /\ pc[d] = "settled"
      BY DEF DependenciesCollectedFirst
    <2>1. d \in Tasks /\ r \in Tasks /\ Level[d] < Level[r]
      BY PlanAssumption DEF Tasks
    <2>2. Level[r] <= level /\ level \in Nat /\ Level[d] \in Nat /\ Level[r] \in Nat
      BY <2>1, PlanAssumption DEF BarrierInv, TypeInv, TypeOK, ControlTypes
    <2> QED
      BY <2>1, <2>2 DEF BarrierInv
  <1> QED
    BY <1>1, BarrierCorrect, PTL

\* NoTaskOutsideLevel: no task is under way when results are folded, when
\* a rollback runs, and when the call has returned.
THEOREM QuietOutsideLevels == Spec => []NoTaskOutsideLevel
  <1>1. BarrierInv => NoTaskOutsideLevel
    BY DEF BarrierInv, NoTaskOutsideLevel
  <1> QED
    BY <1>1, BarrierCorrect, PTL

-----------------------------------------------------------------------------
(***************************************************************************)
(* Outcomes, records and the result                                        *)
(***************************************************************************)

\* A task is settled when it has an outcome; the apply has returned an
\* object exactly when the task waits for it or has a record of it; only
\* what is not selected is skipped.
OutcomeInv ==
    /\ \A t \in Tasks : pc[t] = "settled" <=> out[t] # "none"
    /\ \A r \in Resources : r \in acked <=> pc[r] = "wait" \/ out[r] \in AppliedFlag
    /\ \A r \in Resources : out[r] = "skipped" => ~Selected(r)

\* What the loops over levelResults have made of the outcomes: one record
\* of every resource that has one, by level, and the errors.
Positions == 1 .. Len(deployed)

FoldInv ==
    /\ phase = "planning" => collected = {}
    /\ \A i \in Positions : deployed[i] \in collected /\ out[deployed[i]] \in HasRecord
    /\ \A t \in collected : out[t] \in HasRecord => \E i \in Positions : deployed[i] = t
    /\ \A i, j \in Positions : i < j => /\ deployed[i] # deployed[j]
                                        /\ Level[deployed[i]] <= Level[deployed[j]]
    /\ \A t \in collected : out[t] \in HasError => t \in errors
    /\ result = "none" /\ errors # {} => \E t \in collected : out[t] \in HasError

\* What the steps do to the outcomes and to what was applied
LEMMA ControlLeaves ==
    ASSUME Control \/ (\E t \in Tasks : Collect(t))
    PROVE  /\ UNCHANGED <<opt, acked>>
           /\ StartLevel \/ UNCHANGED <<pc, out>>
  BY DEF Control, Collect, Plan, PlanFails, AllSettled, FinishLevels, NextLevel,
    StartRollback, Cleanup, StartLevel, taskVars

\* A step of a task settles it with an outcome or leaves it without one, and
\* an object is acknowledged when its task begins to wait or is deployed.
TaskEffect(r) ==
    /\ UNCHANGED opt
    /\ pc'[r] = "settled" <=> out'[r] # "none"
    /\ out'[r] # "skipped"
    /\ \/ acked' = acked /\ pc[r] # "wait" /\ pc'[r] # "wait"
          /\ out'[r] \notin AppliedFlag
       \/ acked' = acked /\ pc[r] = "wait" /\ out'[r] \in AppliedFlag
       \/ /\ acked' = acked \cup {r} /\ pc[r] # "wait"
          /\ pc'[r] = "wait" \/ out'[r] \in AppliedFlag

LEMMA TaskOutcome ==
    ASSUME TypeOK, NEW r \in Resources, Task(r), out[r] = "none"
    PROVE  TaskEffect(r)
  <1>1. /\ pc \in [Tasks -> TaskPCs \cup {"closure"}] /\ r \in Tasks
        /\ out \in [Tasks -> Outcomes \cup ClosureOutcomes] /\ r \notin Closures
    BY ResourcesAssumption DEF TypeOK, TaskTypes, Tasks
  <1> USE <1>1 DEF TaskEffect, AppliedFlag, taskFrame
  <1>2. CASE CRDReady(r) \/ Resolve(r) \/ ApplySend(r)
    BY <1>2 DEF CRDReady, Resolve, ApplySend
  <1>3. CASE CRDAborted(r) \/ CRDFails(r) \/ ApplyAborted(r)
    BY <1>3 DEF CRDAborted, CRDFails, ApplyAborted, Settle
  <1>4. CASE ApplyDryRun(r) \/ ApplySucceeds(r) \/ ApplyAdopts(r)
    <2>1. pc[r] # "wait" /\ AfterApply(r) /\ UNCHANGED opt
      BY <1>4 DEF ApplyDryRun, ApplySucceeds, ApplyAdopts
    <2>2. CASE pc' = [pc EXCEPT ![r] = "wait"] /\ out' = out
      BY <2>1, <2>2 DEF AfterApply
    <2>3. CASE Settle(r, "deployed")
      BY <2>1, <2>3 DEF AfterApply, Settle
    <2> QED
      BY <2>1, <2>2, <2>3 DEF AfterApply
  <1>5. CASE ApplyFails(r)
    <2>1. pc[r] = "sent" /\ acked' = acked /\ UNCHANGED opt
      BY <1>5 DEF ApplyFails
    <2>2. CASE pc' = [pc EXCEPT ![r] = "apply"] /\ UNCHANGED out
      BY <2>1, <2>2
    <2>3. CASE Settle(r, "failed")
      BY <2>1, <2>3 DEF Settle
    <2> QED
      BY <1>5, <2>2, <2>3 DEF ApplyFails
  <1>6. CASE BecomesReady(r) \/ WaitAborted(r) \/ WaitFails(r)
    BY <1>6 DEF BecomesReady, WaitAborted, WaitFails, Settle
  <1> QED
    BY <1>2, <1>3, <1>4, <1>5, <1>6 DEF Task

LEMMA ClosureOutcome ==
    ASSUME TypeOK, NEW c \in Closures, Task(c)
    PROVE  /\ UNCHANGED <<opt, acked>> /\ pc'[c] = "settled"
           /\ out'[c] \in {"closureOk", "closureFailed"}
  BY ResourcesAssumption
  DEF Task, RunClosure, Settle, taskFrame, TypeOK, TaskTypes, Tasks

\* What a level starts with: a resource that is not listed, or not selected,
\* has its outcome at once.
LEMMA LevelOutcome ==
    ASSUME TypeInv, BarrierInv, OutcomeInv, StartLevel, NEW t \in Tasks
    PROVE  /\ Level[t] # level => pc'[t] = pc[t] /\ out'[t] = out[t]
           /\ Level[t] = level =>
                 /\ pc[t] = "idle" /\ out[t] = "none" /\ t \notin collected
                 /\ out'[t] \in {"missing", "skipped", "none"}
                 /\ out'[t] # "none" => t \in Resources
                 /\ pc'[t] \in {"closure", "crd", "settled"}
                 /\ pc'[t] = "settled" <=> out'[t] # "none"
                 /\ out'[t] = "skipped" => ~Selected(t)
  <1>1. level \in Nat /\ Level[t] \in Nat
    BY PlanAssumption DEF TypeInv, TypeOK, ControlTypes
  <1>2. Level[t] = level => pc[t] = "idle"
    BY <1>1 DEF BarrierInv, StartLevel
  <1>3. pc[t] = "idle" => out[t] = "none" /\ t \notin collected
    BY DEF OutcomeInv, BarrierInv
  <1>4. Level[t] # level => pc'[t] = pc[t] /\ out'[t] = out[t]
    BY DEF StartLevel
  <1>5. ASSUME Level[t] = level
        PROVE  /\ out'[t] = CASE t \in Unlisted -> "missing"
                              [] t \in Resources \ Unlisted /\ ~Selected(t) -> "skipped"
                              [] OTHER -> "none"
               /\ pc'[t] = IF out'[t] # "none" THEN "settled"
                           ELSE IF t \in Closures THEN "closure" ELSE "crd"
    BY <1>5 DEF StartLevel
  <1>6. t \in Unlisted => t \in Resources
    BY ResourcesAssumption
  <1> QED
    BY <1>2, <1>3, <1>4, <1>5, <1>6

LEMMA OutcomeStep == TypeInv /\ BarrierInv /\ OutcomeInv /\ [Next]_vars => OutcomeInv'
  <1> SUFFICES ASSUME TypeInv, BarrierInv, OutcomeInv, [Next]_vars PROVE OutcomeInv'
    OBVIOUS
  <1>1. CASE UNCHANGED <<opt, pc, out, acked>>
    BY <1>1 DEF OutcomeInv, Selected
  <1>2. CASE StartLevel
    <2>1. UNCHANGED <<opt, acked>>
      BY <1>2 DEF StartLevel
    <2>2. ASSUME NEW r \in Resources PROVE Selected(r)' <=> Selected(r)
      BY <2>1 DEF Selected
    <2>3. ASSUME NEW t \in Tasks PROVE (pc[t] = "settled" <=> out[t] # "none")'
      BY <1>2, LevelOutcome DEF OutcomeInv
    <2>4. ASSUME NEW r \in Resources
          PROVE  (r \in acked <=> pc[r] = "wait" \/ out[r] \in AppliedFlag)'
      BY <1>2, <2>1, LevelOutcome DEF OutcomeInv, Tasks, AppliedFlag
    <2>5. ASSUME NEW r \in Resources, out'[r] = "skipped" PROVE ~Selected(r)'
      BY <1>2, <2>2, <2>5, LevelOutcome DEF OutcomeInv, Tasks
    <2> QED
      BY <2>3, <2>4, <2>5 DEF OutcomeInv
  <1>3. ASSUME NEW u \in Tasks, Task(u) PROVE OutcomeInv'
    <2>1. /\ pc[u] \notin {"idle", "settled"}
          /\ \A t \in Tasks \ {u} : pc'[t] = pc[t] /\ out'[t] = out[t]
      BY <1>3, TaskMoves DEF TypeInv
    <2>2. out[u] = "none"
      BY <2>1 DEF OutcomeInv
    <2>3. CASE u \in Resources
      <3>1. TaskEffect(u)
        BY <1>3, <2>2, <2>3, TaskOutcome DEF TypeInv
      <3> QED
        BY <2>1, <2>2, <3>1 DEF TaskEffect, OutcomeInv, Selected, Tasks, AppliedFlag
    <2>4. CASE u \in Closures
      <3>1. /\ UNCHANGED <<opt, acked>> /\ pc'[u] = "settled"
            /\ out'[u] \in {"closureOk", "closureFailed"} /\ u \notin Resources
        BY <1>3, <2>4, ClosureOutcome, ResourcesAssumption DEF TypeInv
      <3> QED
        BY <2>1, <2>2, <3>1 DEF OutcomeInv, Selected, Tasks, AppliedFlag
    <2> QED
      BY <2>3, <2>4 DEF Tasks
  <1> QED
    BY <1>1, <1>2, <1>3, ControlLeaves, OthersMove DEF Next

LEMMA OutcomeInit == Init => OutcomeInv
  BY DEF Init, OutcomeInv, Tasks, AppliedFlag

\* a folded task has its outcome for good
LEMMA FoldedStays ==
    ASSUME TypeInv, BarrierInv, OutcomeInv, [Next]_vars, NEW t \in collected
    PROVE  t \in Tasks /\ pc'[t] = pc[t] /\ out'[t] = out[t]
  <1>1. t \in Tasks /\ pc[t] = "settled"
    BY DEF TypeInv, TypeOK, CollectTypes, BarrierInv
  <1>2. CASE StartLevel
    BY <1>1, <1>2, LevelOutcome
  <1>3. ASSUME NEW u \in Tasks, Task(u) PROVE pc'[t] = pc[t] /\ out'[t] = out[t]
    BY <1>1, <1>3, TaskMoves DEF TypeInv
  <1> QED
    BY <1>1, <1>2, <1>3, ControlLeaves, OthersMove DEF Next

\* what is folded stays so while nothing more is
LEMMA FoldKept ==
    ASSUME TypeInv, BarrierInv, OutcomeInv, FoldInv, [Next]_vars,
           UNCHANGED <<collected, deployed>>, errors \subseteq errors',
           phase' # "planning" \/ phase' = phase,
           result' # "none" \/ (result' = result /\ errors' = errors)
    PROVE  FoldInv'
  <1>1. \A t \in collected : out'[t] = out[t]
    BY FoldedStays
  <1>2. \A i \in Positions : deployed[i] \in collected
    BY DEF FoldInv
  <1>3. Positions' = Positions
    BY DEF Positions
  <1> QED
    BY <1>1, <1>2, <1>3 DEF FoldInv

LEMMA CollectStep ==
    ASSUME TypeInv, BarrierInv, OutcomeInv, FoldInv, NEW t \in Tasks, Collect(t)
    PROVE  FoldInv'
  <1>1. /\ phase = "collecting" /\ phase' = phase /\ Level[t] = level
        /\ t \notin collected /\ collected' = collected \cup {t}
        /\ UNCHANGED <<out, result>>
        /\ deployed' = IF out[t] \in HasRecord THEN Append(deployed, t) ELSE deployed
        /\ errors' = IF out[t] \in HasError THEN errors \cup {t} ELSE errors
    BY DEF Collect, AtLevel, taskVars
  <1>2. /\ collected \subseteq Tasks /\ deployed \in Seq(Resources) /\ level \in Nat
        /\ \A u \in Tasks : Level[u] \in Nat
    BY PlanAssumption DEF TypeInv, TypeOK, CollectTypes, ControlTypes
  <1>3. \A i \in Positions : Level[deployed[i]] <= level
    <2>1. \A u \in collected : Level[u] <= level
      BY <1>2 DEF BarrierInv
    <2> QED
      BY <2>1 DEF FoldInv
  <1>4. CASE out[t] \in HasRecord
    <2>1. t \in Resources
      BY <1>4 DEF TypeInv, TypeOK, TaskTypes, Tasks, HasRecord, AppliedFlag, ClosureOutcomes
    <2> DEFINE n == Len(deployed)
    <2>2. n \in Nat /\ deployed' \in Seq(Resources)
      BY <1>1, <1>2, <1>4, <2>1
    <2>3. /\ Positions' = 1 .. n + 1 /\ Positions = 1 .. n
          /\ \A i \in 1 .. n : deployed'[i] = deployed[i]
          /\ deployed'[n + 1] = t
      BY <1>1, <1>2, <1>4, <2>1 DEF Positions
    <2> HIDE DEF n
    <2>4. \A i \in Positions' : deployed'[i] \in collected' /\ out'[deployed'[i]] \in HasRecord
      BY <1>1, <1>4, <2>2, <2>3 DEF FoldInv
    <2>5. ASSUME NEW u \in collected', out'[u] \in HasRecord
          PROVE  \E i \in Positions' : deployed'[i] = u
      <3>1. CASE u = t
        BY <2>2, <2>3, <3>1
      <3>2. CASE u # t
        <4>1. PICK i \in Positions : deployed[i] = u
          BY <1>1, <2>5, <3>2 DEF FoldInv
        <4>2. i \in Positions' /\ deployed'[i] = u
          BY <2>2, <2>3, <4>1
        <4> QED
          BY <4>2
      <3> QED
        BY <3>1, <3>2
    <2>6. ASSUME NEW i \in Positions', NEW j \in Positions', i < j
          PROVE  deployed'[i] # deployed'[j] /\ Level[deployed'[i]] <= Level[deployed'[j]]
      <3>1. i \in Positions /\ deployed'[i] = deployed[i]
        BY <2>2, <2>3, <2>6
      <3>2. CASE j = n + 1
        <4>1. deployed[i] \in collected
          BY <3>1 DEF FoldInv
        <4> QED
          BY <1>1, <1>3, <2>3, <3>1, <3>2, <4>1
      <3>3. CASE j # n + 1
        <4>1. j \in Positions /\ deployed'[j] = deployed[j]
          BY <2>2, <2>3, <3>3
        <4> QED
          BY <2>6, <3>1, <4>1 DEF FoldInv
      <3> QED
        BY <3>2, <3>3
    <2>7. /\ \A u \in collected' : out'[u] \in HasError => u \in errors'
          /\ result' = "none" /\ errors' # {} => \E u \in collected' : out'[u] \in HasError
      BY <1>1 DEF FoldInv
    <2> QED
      BY <1>1, <2>4, <2>5, <2>6, <2>7 DEF FoldInv
  <1>5. CASE out[t] \notin HasRecord
    <2>1. deployed' = deployed /\ Positions' = Positions
      BY <1>1, <1>5 DEF Positions
    <2>2. /\ \A u \in collected' : out'[u] \in HasError => u \in errors'
          /\ result' = "none" /\ errors' # {} => \E u \in collected' : out'[u] \in HasError
      BY <1>1 DEF FoldInv
    <2> QED
      BY <1>1, <1>5, <2>1, <2>2 DEF FoldInv
  <1> QED
    BY <1>4, <1>5

LEMMA FoldStep ==
    ASSUME TypeInv, BarrierInv, OutcomeInv, FoldInv, [Next]_vars
    PROVE  FoldInv'
  <1>1. CASE PlanFails
    BY <1>1 DEF PlanFails, FoldInv, Positions, taskVars
  <1>2. CASE FinishLevels
    <2>1. UNCHANGED <<collected, deployed, errors>> /\ phase' = "cleanup"
      BY <1>2 DEF FinishLevels, collectVars
    <2>2. result' # "none"
      BY <1>2 DEF FinishLevels
    <2> QED
      BY <2>1, <2>2, FoldKept
  <1>3. CASE Plan \/ StartLevel \/ AllSettled \/ NextLevel \/ StartRollback \/ Cleanup
    <2>1. UNCHANGED <<collected, deployed, errors, result>> /\ phase' # "planning"
      BY <1>3 DEF Plan, StartLevel, AllSettled, NextLevel, StartRollback, Cleanup, collectVars
    <2> QED
      BY <2>1, FoldKept
  <1>4. ASSUME NEW t \in Tasks, Task(t) PROVE FoldInv'
    <2>1. UNCHANGED <<collected, deployed, errors, result, phase>>
      BY <1>4 DEF Task, RunClosure, CRDReady, CRDAborted, CRDFails, Resolve, ApplyAborted,
        ApplyDryRun, ApplySend, ApplySucceeds, ApplyAdopts, ApplyFails, BecomesReady,
        WaitAborted, WaitFails, taskFrame, collectVars
    <2> QED
      BY <2>1, FoldKept
  <1>5. CASE Rollback \/ Environment \/ UNCHANGED vars
    <2>1. UNCHANGED <<collected, deployed, errors>>
      BY <1>5, OthersMove
    <2>2. \/ UNCHANGED <<phase, result>>
          \/ phase' = "cleanup" /\ result' = "rolledBack"
      BY <1>5 DEF Rollback, SkipDelete, DeleteAborted, DeleteNotFound, DeleteAccepted,
        DeleteRefused, PollGone, PollFails, RollbackDone, rollbackFrame, Environment,
        DeploymentTimeout, ExternalAbort, AbortAllOperations, OtherWriter,
        environmentFrame, vars
    <2> QED
      BY <2>1, <2>2, FoldKept
  <1> QED
    BY <1>1, <1>2, <1>3, <1>4, <1>5, CollectStep DEF Next, Control

LEMMA FoldInit == Init => FoldInv
  BY DEF Init, FoldInv, Positions

ResultInv == TypeInv /\ BarrierInv /\ OutcomeInv /\ FoldInv

LEMMA ResultCorrect == Spec => []ResultInv
  <1>1. Init => ResultInv
    BY TypeInit, BarrierInit, OutcomeInit, FoldInit DEF ResultInv
  <1>2. ResultInv /\ [Next]_vars => ResultInv'
    BY TypeStep, BarrierStep, OutcomeStep, FoldStep DEF ResultInv
  <1> QED
    BY <1>1, <1>2, PTL DEF Spec

\* buildDeploymentResult tells the outcomes of all tasks.
LEMMA FinishHonest ==
    ASSUME ResultInv, FinishLevels
    PROVE  ResultHonest'
  <1>1. /\ level > LastLevel /\ phase = "starting" /\ result = "none"
        /\ UNCHANGED <<opt, out, errors, deployed>>
    BY DEF FinishLevels, taskVars, collectVars, ResultInv, BarrierInv
  <1>2. ASSUME NEW t \in Tasks PROVE t \in collected /\ out[t] # "none"
    <2>1. Level[t] < level
      BY <1>1, PlanAssumption DEF ResultInv, TypeInv, TypeOK, ControlTypes
    <2> QED
      BY <2>1 DEF ResultInv, BarrierInv, OutcomeInv
  <1>3. /\ \A r \in Resources : out[r] \in Outcomes
        /\ \A c \in Closures : out[c] \in ClosureOutcomes
    BY DEF ResultInv, TypeInv, TypeOK, TaskTypes
  <1>4. errors # {} => \E t \in collected : out[t] \in HasError
    BY <1>1 DEF ResultInv, FoldInv
  <1>5. \A i \in 1 .. Len(deployed) : deployed[i] \in Resources
    BY DEF ResultInv, TypeInv, TypeOK, CollectTypes
  <1>6. CASE errors = {}
    <2>1. result' = "success"
      BY <1>6 DEF FinishLevels
    <2>2. \A t \in Tasks : out[t] \notin HasError
      BY <1>2, <1>6 DEF ResultInv, FoldInv
    <2>3. ASSUME NEW r \in Resources \ Unlisted, Selected(r)'
          PROVE  out[r] \in {"deployed", "ready"}
      <3>1. out[r] # "skipped"
        BY <1>1, <2>3 DEF ResultInv, OutcomeInv, Selected
      <3> QED
        BY <1>2, <1>3, <2>2, <3>1 DEF Outcomes, HasError, Tasks
    <2>4. ASSUME NEW c \in Closures PROVE out[c] = "closureOk"
      BY <1>2, <1>3, <2>2 DEF ClosureOutcomes, HasError, Tasks
    <2> QED
      BY <1>1, <2>1, <2>3, <2>4 DEF ResultHonest
  <1>7. CASE errors # {} /\ \E i \in 1 .. Len(deployed) : out[deployed[i]] \in Success
    <2>1. result' = "partial"
      BY <1>7 DEF FinishLevels
    <2>2. PICK i \in 1 .. Len(deployed) : out[deployed[i]] \in Success
      BY <1>7
    <2>3. deployed[i] \in Resources /\ out[deployed[i]] \in {"deployed", "ready"}
      BY <1>3, <1>5, <2>2 DEF Outcomes, Success
    <2>4. PICK t \in collected : out[t] \in HasError
      BY <1>4, <1>7
    <2>5. t \in Tasks
      BY DEF ResultInv, TypeInv, TypeOK, CollectTypes
    <2> QED
      BY <1>1, <2>1, <2>3, <2>4, <2>5 DEF ResultHonest, HasError
  <1>8. CASE errors # {} /\ ~\E i \in 1 .. Len(deployed) : out[deployed[i]] \in Success
    <2>1. result' = "failed"
      BY <1>8 DEF FinishLevels
    <2>2. ASSUME NEW r \in Resources, out[r] \in {"deployed", "ready"} PROVE FALSE
      <3>1. r \in collected /\ out[r] \in HasRecord
        BY <1>2, <2>2 DEF Tasks, HasRecord, AppliedFlag
      <3>2. PICK i \in Positions : deployed[i] = r
        BY <3>1 DEF ResultInv, FoldInv
      <3> QED
        BY <1>8, <2>2, <3>2 DEF Positions, Success
    <2> QED
      BY <1>1, <1>8, <2>1, <2>2 DEF ResultHonest
  <1> QED
    BY <1>6, <1>7, <1>8

\* The rollback may set the result; the cluster and the callers never do.
LEMMA OthersResult ==
    ASSUME Rollback \/ Environment \/ UNCHANGED vars
    PROVE  \/ UNCHANGED <<phase, result>>
           \/ phase = "rollback" /\ phase' = "cleanup" /\ result' = "rolledBack"
  BY DEF Rollback, SkipDelete, DeleteAborted, DeleteNotFound, DeleteAccepted,
    DeleteRefused, PollGone, PollFails, RollbackDone, CanDelete, rollbackFrame,
    Environment, DeploymentTimeout, ExternalAbort, AbortAllOperations, OtherWriter,
    environmentFrame, vars

\* ResultHonest: "success", "partial" and "failed" agree with the outcomes of
\* all tasks, however the levels mixed failures, skipped and unlisted resources.
THEOREM HonestResult == Spec => []ResultHonest
  <1>1. Init => ResultHonest
    BY DEF Init, ResultHonest
  <1>2. ASSUME ResultInv, ResultHonest, [Next]_vars PROVE ResultHonest'
    <2> USE <1>2
    <2>1. ASSUME UNCHANGED <<result, opt, out, errors>> PROVE ResultHonest'
      BY <2>1 DEF ResultHonest, Selected
    <2>2. ASSUME result' \in {"none", "rolledBack"} PROVE ResultHonest'
      BY <2>2 DEF ResultHonest
    <2>3. CASE PlanFails
      <3>1. result' = "failed" /\ errors' # {} /\ out' = out /\ phase = "planning"
        BY <2>3 DEF PlanFails, taskVars
      <3>2. ASSUME NEW r \in Resources PROVE out[r] = "none"
        <4>1. r \in Tasks /\ r \notin collected
          BY <3>1 DEF Tasks, ResultInv, FoldInv
        <4>2. pc[r] = "idle"
          BY <3>1, <4>1 DEF ResultInv, BarrierInv
        <4> QED
          BY <4>1, <4>2 DEF ResultInv, OutcomeInv
      <3> QED
        BY <3>1, <3>2 DEF ResultHonest
    <2>4. CASE FinishLevels
      BY <2>4, FinishHonest
    <2>5. CASE Plan \/ AllSettled \/ NextLevel \/ StartRollback \/ Cleanup
      BY <2>1, <2>5 DEF Plan, AllSettled, NextLevel, StartRollback, Cleanup, taskVars,
        collectVars
    <2>6. CASE StartLevel
      BY <2>2, <2>6 DEF StartLevel, ResultInv, BarrierInv
    <2>7. ASSUME NEW t \in Tasks, Collect(t) PROVE ResultHonest'
      BY <2>2, <2>7 DEF Collect, ResultInv, BarrierInv
    <2>8. ASSUME NEW t \in Tasks, Task(t) PROVE ResultHonest'
      <3>1. result' = result /\ pc[t] \notin {"idle", "settled"}
        BY <2>8, TaskMoves DEF ResultInv, TypeInv
      <3> QED
        BY <2>2, <3>1 DEF ResultInv, BarrierInv
    <2>9. CASE Rollback \/ Environment \/ UNCHANGED vars
      <3>1. UNCHANGED <<opt, out, errors>>
        BY <2>9, OthersMove
      <3>2. result' = result \/ result' = "rolledBack"
        BY <2>9, OthersResult
      <3> QED
        BY <2>1, <2>2, <3>1, <3>2
    <2> QED
      BY <2>3, <2>4, <2>5, <2>6, <2>7, <2>8, <2>9 DEF Next, Control
  <1> QED
    BY <1>1, <1>2, ResultCorrect, PTL DEF Spec

-----------------------------------------------------------------------------
(***************************************************************************)
(* The rollback                                                            *)
(***************************************************************************)

Undone == phase = "rollback" \/ result = "rolledBack"

\* the rollback has passed position j
Handled(j) ==
    Deletable(deployed[j]) =>
        \/ /\ deployed[j] \in delErrors
           /\ extAborted \/ deployed[j] \in attempted
        \/ deployed[j] \in attempted /\ obj[deployed[j]] # "ours"

RollbackInv ==
    /\ ~Undone => attempted = {} /\ ~deleting
    /\ result = "rolledBack" => cursor = 0 /\ ~deleting
    /\ deleting => Deletable(Current) /\ Current \in attempted
    /\ Undone => \A j \in Positions : j > cursor => Handled(j)
    /\ \A r \in attempted : Deletable(r) /\ \E i \in Positions : deployed[i] = r
    /\ \A i \in Positions : deployed[i] \in attempted
                            => i > cursor \/ (i = cursor /\ deleting)
    /\ \A i, j \in Positions :
          i < j /\ deployed[i] \in attempted /\ Deletable(deployed[j])
          => deployed[j] \in attempted

\* before a rollback nothing is undone, and nothing more has to be shown
LEMMA NotUndone ==
    ASSUME ~Undone', attempted' = {}, ~deleting'
    PROVE  RollbackInv'
  <1>1. result' # "rolledBack"
    BY DEF Undone
  <1> QED
    BY <1>1 DEF RollbackInv

\* a step that does not belong to it keeps what it has done
LEMMA RollbackKept ==
    ASSUME RollbackInv, UNCHANGED <<opt, out, deployed, deleteVars>>,
           Undone' <=> Undone, extAborted => extAborted',
           result' = "rolledBack" => cursor = 0 /\ ~deleting,
           TypeOK, \A r \in Resources : obj'[r] = "ours" => obj[r] = "ours"
    PROVE  RollbackInv'
  <1>1. /\ UNCHANGED <<cursor, deleting, attempted, delErrors>>
        /\ Positions' = Positions
    BY DEF deleteVars, Positions
  <1>2. \A r : Deletable(r)' <=> Deletable(r)
    BY DEF Deletable, RollbackSelects
  <1>3. \A i \in Positions : deployed[i] \in Resources
    BY DEF TypeOK, CollectTypes, Positions
  <1>4. ASSUME NEW j \in Positions, Handled(j) PROVE Handled(j)'
    BY <1>1, <1>2, <1>3, <1>4 DEF Handled
  <1>5. (Undone => \A j \in Positions : j > cursor => Handled(j))'
    BY <1>1, <1>4 DEF RollbackInv
  <1>6. (deleting => Deletable(Current) /\ Current \in attempted)'
    BY <1>1, <1>2 DEF RollbackInv, Current
  <1> QED
    BY <1>1, <1>2, <1>5, <1>6 DEF RollbackInv

\* who writes: only a task makes an object ours
LEMMA OursByTasks ==
    ASSUME TypeOK,
           Control \/ (\E t \in Tasks : Collect(t)) \/ Rollback \/ Environment
           \/ UNCHANGED vars
    PROVE  \A r \in Resources : obj'[r] = "ours" => obj[r] = "ours"
  <1>1. obj \in [Resources -> {"absent", "foreign", "ours", "terminating"}]
    BY DEF TypeOK, ClusterTypes
  <1>2. CASE UNCHANGED obj
    BY <1>2
  <1>3. CASE DeleteAccepted
    <2>1. obj' = [obj EXCEPT ![Current] = "terminating"]
      BY <1>3 DEF DeleteAccepted
    <2> QED
      BY <1>1, <2>1
  <1>4. ASSUME NEW q \in Resources, OtherWriter(q)
        PROVE  \A r \in Resources : obj'[r] = "ours" => obj[r] = "ours"
    <2>1. \/ obj' = [obj EXCEPT ![q] = "foreign"]
          \/ obj' = [obj EXCEPT ![q] = "absent"]
      BY <1>4 DEF OtherWriter
    <2> QED
      BY <1>1, <2>1
  <1>5. \/ UNCHANGED obj \/ DeleteAccepted
        \/ \E q \in Resources : OtherWriter(q)
    BY DEF Control, Plan, PlanFails, StartLevel, AllSettled, NextLevel, StartRollback,
      FinishLevels, Cleanup, Collect, Rollback, SkipDelete, DeleteAborted, DeleteNotFound,
      DeleteRefused, PollGone, PollFails, RollbackDone, Environment, DeploymentTimeout,
      ExternalAbort, AbortAllOperations, vars
  <1> QED
    BY <1>2, <1>3, <1>4, <1>5

LEMMA NotBelow == \A a, b \in Nat : a > b \/ a = b => a >= b
  OBVIOUS

\* One turn of the loop of the rollback at position c: it is passed, handled,
\* or its object is polled from now on.
LEMMA TurnKeeps ==
    ASSUME TypeInv, FoldInv, RollbackInv, phase = "rollback", phase' = phase,
           UNCHANGED <<opt, out, deployed, result, extAborted>>,
           \A r \in Resources : obj'[r] = "ours" => obj[r] = "ours",
           NEW c \in Positions, c = cursor,
           attempted' = attempted
           \/ (attempted' = attempted \cup {deployed[c]} /\ ~extAborted
               /\ Deletable(deployed[c])),
           delErrors \subseteq delErrors',
           \/ cursor' = c - 1 /\ ~deleting' /\ Handled(c)'
           \/ /\ cursor' = c /\ deleting' /\ Deletable(deployed[c])
              /\ deployed[c] \in attempted'
    PROVE  RollbackInv'
  <1>1. /\ Positions' = Positions /\ c \in Nat /\ attempted \subseteq attempted'
        /\ \A i \in Positions : i \in Nat /\ deployed[i] \in Resources
    BY DEF Positions, TypeInv, TypeOK, CollectTypes
  <1>2. \A r : Deletable(r)' <=> Deletable(r)
    BY DEF Deletable, RollbackSelects
  <1>3. (Undone /\ Undone' /\ result' # "rolledBack") \/ cursor = 0
    BY DEF Undone, RollbackInv
  <1>4. c # 0 /\ Undone /\ Undone' /\ result' # "rolledBack"
    BY <1>3 DEF Positions
  <1>5. ASSUME NEW j \in Positions, Handled(j) PROVE Handled(j)'
    BY <1>1, <1>2, <1>5 DEF Handled
  <1>6. ASSUME NEW j \in Positions, j > c PROVE Handled(j) /\ Handled(j)'
    BY <1>4, <1>5, <1>6 DEF RollbackInv
  <1>7. ASSUME NEW j \in Positions, j > cursor' PROVE Handled(j)'
    <2>1. CASE cursor' = c - 1 /\ Handled(c)'
      <3>1. j = c \/ j > c
        BY <1>1, <1>7, <2>1
      <3> QED
        BY <1>6, <2>1, <3>1
    <2>2. CASE cursor' = c
      BY <1>6, <1>7, <2>2
    <2> QED
      BY <2>1, <2>2
  <1>8. deleting' => Deletable(Current)' /\ Current' \in attempted'
    <2>1. deleting' => /\ cursor' = c /\ Deletable(deployed[c])
                       /\ deployed[c] \in attempted'
      OBVIOUS
    <2> QED
      BY <1>2, <2>1 DEF Current
  <1>9. \A r \in attempted' :
           Deletable(r)' /\ \E i \in Positions' : deployed'[i] = r
    BY <1>1, <1>2 DEF RollbackInv
  <1>10. ASSUME NEW i \in Positions, deployed[i] \in attempted'
         PROVE  i > cursor' \/ (i = cursor' /\ deleting')
    <2>1. i >= c
      <3>1. CASE deployed[i] \in attempted
        <4>1. i > cursor \/ (i = cursor /\ deleting)
          BY <3>1, Zenon DEF RollbackInv
        <4>2. i > c \/ i = c
          BY <4>1, Zenon
        <4> QED
          BY <1>1, <4>2, NotBelow
      <3>2. CASE deployed[i] = deployed[c]
        <4>1. ~(i < c) /\ ~(c < i)
          BY <3>2 DEF FoldInv
        <4> QED
          BY <1>1, <4>1
      <3> QED
        BY <1>10, <3>1, <3>2
    <2>2. CASE cursor' = c - 1
      BY <1>1, <2>1, <2>2
    <2>3. CASE cursor' = c /\ deleting'
      <3>1. i > c \/ i = c
        BY <1>1, <2>1
      <3> QED
        BY <2>3, <3>1
    <2> QED
      BY <2>2, <2>3
  <1>11. ASSUME NEW i \in Positions, NEW j \in Positions, i < j,
                deployed[i] \in attempted', Deletable(deployed[j])
         PROVE  deployed[j] \in attempted'
    <2>1. CASE deployed[i] \in attempted
      BY <1>1, <1>11, <2>1 DEF RollbackInv
    <2>2. CASE deployed[i] \notin attempted
      <3>1. deployed[i] = deployed[c] /\ ~extAborted
        BY <1>11, <2>2
      <3>2. ~(i < c) /\ ~(c < i)
        BY <3>1 DEF FoldInv
      <3>3. j > c
        BY <1>1, <1>11, <3>2
      <3>4. Handled(j)
        BY <1>6, <3>3
      <3> QED
        BY <1>1, <1>11, <3>1, <3>4 DEF Handled
    <2> QED
      BY <2>1, <2>2
  <1>12. \A i \in Positions' : deployed'[i] \in attempted'
                               => i > cursor' \/ (i = cursor' /\ deleting')
    BY <1>1, <1>10
  <1>13. \A i, j \in Positions' :
            i < j /\ deployed'[i] \in attempted' /\ Deletable(deployed[j])'
            => deployed'[j] \in attempted'
    BY <1>1, <1>2, <1>11
  <1>14. \A j \in Positions' : j > cursor' => Handled(j)'
    BY <1>1, <1>7
  <1> QED
    BY <1>4, <1>8, <1>9, <1>12, <1>13, <1>14 DEF RollbackInv

LEMMA HandledNext ==
    ASSUME NEW c, UNCHANGED <<opt, out, deployed>>,
           \/ ~Deletable(deployed[c])
           \/ deployed[c] \in delErrors' /\ (extAborted' \/ deployed[c] \in attempted')
           \/ deployed[c] \in attempted' /\ obj'[deployed[c]] # "ours"
    PROVE  Handled(c)'
  <1>1. Deletable(deployed[c])' <=> Deletable(deployed[c])
    BY DEF Deletable, RollbackSelects
  <1> QED
    BY <1>1 DEF Handled

LEMMA RollbackTurns ==
    ASSUME TypeInv, BarrierInv, FoldInv, RollbackInv, Rollback
    PROVE  RollbackInv'
  <1>1. phase = "rollback"
    BY DEF Rollback, SkipDelete, DeleteAborted, DeleteNotFound, DeleteAccepted,
      DeleteRefused, PollGone, PollFails, RollbackDone, CanDelete
  <1>2. UNCHANGED <<opt, out, deployed, extAborted>>
    BY OthersMove DEF Rollback, SkipDelete, DeleteAborted, DeleteNotFound, DeleteAccepted,
      DeleteRefused, PollGone, PollFails, RollbackDone, rollbackFrame, abortVars
  <1>3. \A r \in Resources : obj'[r] = "ours" => obj[r] = "ours"
    BY OursByTasks DEF TypeInv
  <1>4. CASE RollbackDone
    <2>1. /\ UNCHANGED deleteVars /\ cursor = 0
          /\ phase' = "cleanup" /\ result' = "rolledBack"
      BY <1>4 DEF RollbackDone
    <2>2. ~deleting
      BY <2>1 DEF TypeInv, InPlan
    <2> QED
      BY <1>1, <1>2, <1>3, <2>1, <2>2, RollbackKept DEF Undone, TypeInv
  <1>5. CASE SkipDelete \/ DeleteAborted \/ DeleteNotFound \/ DeleteAccepted
             \/ DeleteRefused \/ PollGone \/ PollFails
    <2>1. cursor > 0 /\ UNCHANGED <<phase, result>>
      BY <1>5 DEF SkipDelete, DeleteAborted, DeleteNotFound, DeleteAccepted, DeleteRefused,
        PollGone, PollFails, CanDelete, rollbackFrame, TypeInv, InPlan
    <2>2. PICK c \in Positions : c = cursor
      BY <2>1 DEF Positions, TypeInv, TypeOK, DeleteTypes
    <2> DEFINE r == deployed[c]
    <2>3. Current = r /\ r \in Resources
      BY <2>2 DEF Positions, Current, TypeInv, TypeOK, CollectTypes
    <2> HIDE DEF r
    <2>4. ASSUME attempted' = attempted
                 \/ (attempted' = attempted \cup {r} /\ ~extAborted /\ Deletable(r)),
                 delErrors \subseteq delErrors',
                 \/ cursor' = c - 1 /\ ~deleting' /\ Handled(c)'
                 \/ cursor' = c /\ deleting' /\ Deletable(r) /\ r \in attempted'
          PROVE  RollbackInv'
      BY <1>1, <1>2, <1>3, <2>1, <2>2, <2>4, TurnKeeps DEF r
    <2>5. ASSUME \/ ~Deletable(r)
                 \/ r \in delErrors' /\ (extAborted' \/ r \in attempted')
                 \/ r \in attempted' /\ obj'[r] # "ours"
          PROVE  Handled(c)'
      BY <1>2, <2>5, HandledNext DEF r
    <2>6. deleting => Deletable(r) /\ r \in attempted
      BY <2>3 DEF RollbackInv
    <2>7. CASE SkipDelete
      <3>1. /\ cursor' = c - 1 /\ ~deleting' /\ ~Deletable(r)
            /\ UNCHANGED <<attempted, delErrors>>
        BY <2>2, <2>3, <2>7, Zenon DEF SkipDelete
      <3> QED
        BY <2>4, <2>5, <3>1
    <2>8. CASE DeleteAborted
      <3>1. /\ cursor' = c - 1 /\ ~deleting' /\ extAborted /\ r \in delErrors'
            /\ attempted' = attempted /\ delErrors \subseteq delErrors'
        BY <2>2, <2>3, <2>8, Zenon DEF DeleteAborted, CanDelete
      <3> QED
        BY <1>2, <2>4, <2>5, <3>1
    <2>9. CASE DeleteNotFound
      <3>1. /\ cursor' = c - 1 /\ ~deleting' /\ ~extAborted /\ Deletable(r)
            /\ attempted' = attempted \cup {r} /\ delErrors' = delErrors
            /\ obj'[r] = "absent"
        BY <2>2, <2>3, <2>9, Zenon DEF DeleteNotFound, CanDelete
      <3> QED
        BY <2>4, <2>5, <3>1
    <2>10. CASE DeleteAccepted
      <3>1. /\ ~extAborted /\ Deletable(r) /\ delErrors' = delErrors
            /\ attempted' = attempted \cup {r}
            /\ obj' = [obj EXCEPT ![r] = "terminating"]
            /\ \/ cursor' = c - 1 /\ ~deleting'
               \/ cursor' = c /\ deleting'
        BY <2>2, <2>3, <2>10, Zenon DEF DeleteAccepted, CanDelete
      <3>2. obj'[r] # "ours"
        BY <2>3, <3>1 DEF TypeInv, TypeOK, ClusterTypes
      <3> QED
        BY <2>4, <2>5, <3>1, <3>2
    <2>11. CASE DeleteRefused
      <3>1. /\ cursor' = c - 1 /\ ~deleting' /\ ~extAborted /\ Deletable(r)
            /\ attempted' = attempted \cup {r} /\ r \in delErrors'
            /\ delErrors \subseteq delErrors'
        BY <2>2, <2>3, <2>11, Zenon DEF DeleteRefused, CanDelete
      <3> QED
        BY <2>4, <2>5, <3>1
    <2>12. CASE PollGone
      <3>1. /\ cursor' = c - 1 /\ ~deleting' /\ r \in attempted /\ obj'[r] = "absent"
            /\ attempted' = attempted /\ delErrors' = delErrors
        BY <2>2, <2>3, <2>6, <2>12, Zenon DEF PollGone
      <3> QED
        BY <2>4, <2>5, <3>1
    <2>13. CASE PollFails
      <3>1. /\ cursor' = c - 1 /\ ~deleting' /\ r \in attempted /\ r \in delErrors'
            /\ attempted' = attempted /\ delErrors \subseteq delErrors'
        BY <2>2, <2>3, <2>6, <2>13, Zenon DEF PollFails
      <3> QED
        BY <2>4, <2>5, <3>1
    <2> QED
      BY <1>5, <2>7, <2>8, <2>9, <2>10, <2>11, <2>12, <2>13
  <1> QED
    BY <1>4, <1>5 DEF Rollback

LEMMA RollbackStep ==
    ASSUME ResultInv, RollbackInv, [Next]_vars
    PROVE  RollbackInv'
  <1> USE DEF ResultInv
  <1>1. ASSUME UNCHANGED deleteVars, phase \in {"planning", "starting", "running", "collecting"},
               phase' # "rollback", result' # "rolledBack"
        PROVE  RollbackInv'
    <2>1. result = "none" /\ ~Undone
      BY <1>1 DEF BarrierInv, Undone
    <2>2. ~Undone'
      BY <1>1 DEF Undone
    <2>3. attempted' = {} /\ ~deleting'
      BY <1>1, <2>1, Zenon DEF deleteVars, RollbackInv
    <2> QED
      BY <2>2, <2>3, NotUndone
  <1>2. CASE Plan \/ PlanFails \/ StartLevel \/ AllSettled \/ FinishLevels \/ NextLevel
    <2>1. /\ UNCHANGED deleteVars /\ phase' # "rollback"
          /\ phase \in {"planning", "starting", "running", "collecting"}
      BY <1>2 DEF Plan, PlanFails, StartLevel, AllSettled, FinishLevels, NextLevel
    <2>2. result' # "rolledBack"
      BY <1>2 DEF Plan, PlanFails, StartLevel, AllSettled, FinishLevels, NextLevel, BarrierInv
    <2> QED
      BY <1>1, <2>1, <2>2
  <1>3. CASE StartRollback
    <2>1. /\ phase = "collecting" /\ phase' = "rollback" /\ cursor' = Len(deployed)
          /\ UNCHANGED <<deleting, attempted, result, deployed>>
      BY <1>3 DEF StartRollback, collectVars
    <2>2. result = "none" /\ ~Undone
      BY <2>1 DEF BarrierInv, Undone
    <2>3. attempted' = {} /\ ~deleting' /\ Undone'
      BY <2>1, <2>2, Zenon DEF RollbackInv, Undone
    <2>4. \A j \in Positions' : ~(j > cursor')
      BY <2>1 DEF Positions, TypeInv, TypeOK, CollectTypes
    <2>5. result' # "rolledBack"
      BY <2>1, <2>2
    <2> QED
      BY <2>3, <2>4, <2>5 DEF RollbackInv
  <1>4. CASE Cleanup
    <2>1. /\ UNCHANGED <<opt, taskVars, collectVars, deleteVars, extAborted, result, obj>>
          /\ phase = "cleanup" /\ phase' = "done"
      BY <1>4 DEF Cleanup
    <2>2. UNCHANGED <<out, deployed>>
      BY <2>1 DEF taskVars, collectVars
    <2>3. Undone' <=> Undone
      BY <2>1 DEF Undone
    <2>4. result' = "rolledBack" => cursor = 0 /\ ~deleting
      BY <2>1 DEF RollbackInv
    <2> QED
      BY <2>1, <2>2, <2>3, <2>4, RollbackKept DEF TypeInv
  <1>5. ASSUME NEW t \in Tasks, Collect(t) PROVE RollbackInv'
    <2>1. UNCHANGED deleteVars /\ phase = "collecting" /\ UNCHANGED <<phase, result>>
      BY <1>5 DEF Collect
    <2> QED
      BY <1>1, <2>1 DEF BarrierInv
  <1>6. ASSUME NEW t \in Tasks, Task(t) PROVE RollbackInv'
    <2>1. UNCHANGED <<phase, result>> /\ pc[t] \notin {"idle", "settled"}
      BY <1>6, TaskMoves DEF TypeInv
    <2>2. phase = "running"
      BY <2>1 DEF BarrierInv
    <2>3. UNCHANGED deleteVars
      BY <1>6 DEF Task, RunClosure, CRDReady, CRDAborted, CRDFails, Resolve, ApplyAborted,
        ApplyDryRun, ApplySend, ApplySucceeds, ApplyAdopts, ApplyFails, BecomesReady,
        WaitAborted, WaitFails, taskFrame
    <2> QED
      BY <1>1, <2>1, <2>2, <2>3 DEF BarrierInv
  <1>7. CASE Environment \/ UNCHANGED vars
    <2>1. UNCHANGED <<opt, out, deployed>>
      BY <1>7, OthersMove
    <2>2. UNCHANGED <<deleteVars, phase, result>>
      BY <1>7 DEF Environment, DeploymentTimeout, ExternalAbort, AbortAllOperations,
        OtherWriter, environmentFrame, vars
    <2>6. extAborted => extAborted'
      <3>1. extAborted' = extAborted \/ ExternalAbort
        BY <1>7 DEF Environment, DeploymentTimeout, AbortAllOperations, OtherWriter,
          abortVars, vars
      <3> QED
        BY <3>1, Zenon DEF ExternalAbort
    <2>3. \A r \in Resources : obj'[r] = "ours" => obj[r] = "ours"
      BY <1>7, OursByTasks DEF TypeInv
    <2>4. result' = "rolledBack" => cursor = 0 /\ ~deleting
      BY <2>2 DEF RollbackInv
    <2>5. Undone' <=> Undone
      BY <2>2 DEF Undone
    <2> QED
      BY <2>1, <2>2, <2>3, <2>4, <2>5, <2>6, RollbackKept DEF TypeInv
  <1> QED
    BY <1>2, <1>3, <1>4, <1>5, <1>6, <1>7, RollbackTurns DEF Next, Control

LEMMA RollbackInit == Init => RollbackInv
  BY DEF Init, RollbackInv, Undone, Positions

LEMMA RollbackCorrect == Spec => [](ResultInv /\ RollbackInv)
  <1>1. Init => RollbackInv
    BY RollbackInit
  <1>2. ResultInv /\ RollbackInv /\ [Next]_vars => RollbackInv'
    BY RollbackStep
  <1> QED
    BY <1>1, <1>2, ResultCorrect, PTL DEF Spec

\* The dependents of an object come later in deployed.
LEMMA DependentsLater ==
    ASSUME ResultInv, NEW i \in Positions, NEW j \in Positions,
           deployed[i] \in Deps[deployed[j]]
    PROVE  i < j
  <1>1. /\ deployed[i] \in Resources /\ deployed[j] \in Resources
        /\ i \in Nat /\ j \in Nat
    BY DEF ResultInv, TypeInv, TypeOK, CollectTypes, Positions
  <1>2. /\ Level[deployed[i]] < Level[deployed[j]]
        /\ Level[deployed[i]] \in Nat /\ Level[deployed[j]] \in Nat
    BY <1>1, PlanAssumption DEF Tasks
  <1>3. ~(j < i)
    BY <1>2 DEF ResultInv, FoldInv
  <1>4. i # j
    BY <1>2
  <1> QED
    BY <1>1, <1>3, <1>4

\* RollbackOrder: for every graph, no object is deleted while one that
\* depends on it, and that the rollback may delete, has not been dealt with.
THEOREM OrderedRollback == Spec => []RollbackOrder
  <1>1. ResultInv /\ RollbackInv => RollbackOrder
    <2> SUFFICES ASSUME ResultInv, RollbackInv, NEW r \in attempted, NEW t \in Resources,
                        r \in Deps[t], t \in ToSet(deployed), Deletable(t)
                 PROVE  t \in attempted
      BY DEF RollbackOrder
    <2>1. PICK i \in Positions : deployed[i] = r
      BY DEF RollbackInv
    <2>2. PICK j \in Positions : deployed[j] = t
      BY DEF ToSet, Positions
    <2>3. i < j
      BY <2>1, <2>2, DependentsLater
    <2> QED
      BY <2>1, <2>2, <2>3 DEF RollbackInv
  <1> QED
    BY <1>1, RollbackCorrect, PTL

\* Everything of this deployment that a rollback may delete is recorded.
LEMMA OursAreRecorded ==
    ASSUME ResultInv, Undone, phase # "running", NEW r \in acked, RollbackSelects(r)
    PROVE  Deletable(r) /\ \E i \in Positions : deployed[i] = r
  <1>1. r \in Tasks /\ r \in Resources
    BY DEF ResultInv, TypeInv, TypeOK, ClusterTypes, Tasks
  <1>2. pc[r] \in {"idle", "settled"}
    BY <1>1 DEF ResultInv, BarrierInv
  <1>3. out[r] \in AppliedFlag
    BY <1>1, <1>2 DEF ResultInv, OutcomeInv
  <1>4. pc[r] = "settled"
    BY <1>1, <1>3 DEF ResultInv, OutcomeInv, AppliedFlag
  <1>5. r \in collected
    BY <1>1, <1>4 DEF ResultInv, BarrierInv, Undone
  <1> QED
    BY <1>3, <1>5 DEF ResultInv, FoldInv, HasRecord, Deletable

\* RollbackExact: a rollback deletes only what the deployment applied and may
\* delete, and when the caller did not abort it has dealt with all of that.
THEOREM ExactRollback == Spec => []RollbackExact
  <1>1. ASSUME ResultInv, RollbackInv PROVE RollbackExact
    <2> USE <1>1
    <2>1. ASSUME NEW r \in attempted PROVE r \in acked /\ RollbackSelects(r)
      <3>1. Deletable(r) /\ r \in Resources
        BY DEF RollbackInv, ResultInv, TypeInv, TypeOK, DeleteTypes
      <3> QED
        BY <3>1 DEF Deletable, ResultInv, OutcomeInv
    <2>2. ASSUME result = "rolledBack", ~extAborted, NEW r \in acked, RollbackSelects(r)
          PROVE  r \in delErrors \/ (r \in attempted /\ obj[r] # "ours")
      <3>1. Undone /\ cursor = 0 /\ phase # "running"
        BY <2>2 DEF Undone, RollbackInv, ResultInv, BarrierInv
      <3>2. PICK j \in Positions : deployed[j] = r /\ Deletable(deployed[j])
        BY <2>2, <3>1, OursAreRecorded
      <3>3. j > cursor
        BY <3>1, <3>2 DEF Positions
      <3>4. Handled(j)
        BY <3>1, <3>3 DEF RollbackInv
      <3> QED
        BY <3>2, <3>4 DEF Handled
    <2> QED
      BY <2>1, <2>2 DEF RollbackExact
  <1> QED
    BY <1>1, RollbackCorrect, PTL
=============================================================================
