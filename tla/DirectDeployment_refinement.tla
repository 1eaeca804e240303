-------------------- MODULE DirectDeployment_refinement --------------------
(***************************************************************************)
(* The deployment implements DeploymentPromise, for every graph, plan, set *)
(* of options and bound on the retries: every initial state maps to one of *)
(* the promise, and every step to a step of it or to a stutter.            *)
(*                                                                         *)
(* A level that starts gives up the resources that it need not apply, a    *)
(* task applies or gives up its resource, a delete request of the rollback *)
(* removes one; all else the engine does is invisible.  The mapping needs  *)
(* the barrier (dependencies are decided when a task moves) and the order  *)
(* of deployed (no dependent is left when an object is removed).           *)
(***************************************************************************)
EXTENDS DirectDeployment_proofs

RefinementInv == ResultInv /\ RollbackInv

Removable == {r \in Resources : RollbackSelects(r)}

-----------------------------------------------------------------------------
(* The mapping                                                             *)

LEMMA StageOf ==
    ASSUME NEW r \in Resources
    PROVE  /\ Stage[r] = "removed" <=> r \in attempted
           /\ Stage[r] = "applied" <=> r \in acked \ attempted
           /\ Stage[r] = "givenUp" <=> r \notin acked \cup attempted /\ pc[r] = "settled"
           /\ Stage[r] = "pending" <=> r \notin acked \cup attempted /\ pc[r] # "settled"
  <1>1. Stage[r] = CASE r \in attempted -> "removed"
                     [] r \in acked \ attempted -> "applied"
                     [] r \notin acked \cup attempted /\ pc[r] = "settled" -> "givenUp"
                     [] OTHER -> "pending"
    BY DEF Stage
  <1>2. CASE r \in attempted
    BY <1>1, <1>2
  <1>3. CASE r \in acked \ attempted
    BY <1>1, <1>3
  <1>4. CASE r \notin acked \cup attempted /\ pc[r] = "settled"
    BY <1>1, <1>4
  <1>5. CASE r \notin acked \cup attempted /\ pc[r] # "settled"
    BY <1>1, <1>5
  <1> QED
    BY <1>2, <1>3, <1>4, <1>5

LEMMA SameStage ==
    ASSUME UNCHANGED <<acked, attempted>>,
           \A r \in Resources \ (acked \cup attempted) :
              pc'[r] = "settled" <=> pc[r] = "settled"
    PROVE  Stage' = Stage
  <1>1. \A r \in Resources :
           (CASE r \in attempted' -> "removed"
              [] r \in acked' \ attempted' -> "applied"
              [] r \notin acked' \cup attempted' /\ pc'[r] = "settled" -> "givenUp"
              [] OTHER -> "pending")
           = (CASE r \in attempted -> "removed"
                [] r \in acked \ attempted -> "applied"
                [] r \notin acked \cup attempted /\ pc[r] = "settled" -> "givenUp"
                [] OTHER -> "pending")
    <2> TAKE r \in Resources
    <2>1. CASE r \in attempted
      BY <2>1
    <2>2. CASE r \in acked \ attempted
      BY <2>2
    <2>3. CASE r \notin acked \cup attempted /\ pc[r] = "settled"
      BY <2>3
    <2>4. CASE r \notin acked \cup attempted /\ pc[r] # "settled"
      BY <2>4
    <2> QED
      BY <2>1, <2>2, <2>3, <2>4
  <1> QED
    BY <1>1 DEF Stage

LEMMA SameMode ==
    ASSUME (phase' = "done") <=> (phase = "done"), Undone' <=> Undone
    PROVE  Mode' = Mode
  BY DEF Mode, Undone

LEMMA SameRemovable ==
    ASSUME UNCHANGED opt
    PROVE  Removable' = Removable
  BY DEF Removable, RollbackSelects

\* nothing that the promise speaks of
Invisible == UNCHANGED <<Mode, Stage, Removable>>

LEMMA InvisibleStutters == Invisible => UNCHANGED Promise!vars
  BY DEF Invisible, Removable, Promise!vars

LEMMA ModeFacts ==
    /\ Mode = "deploying" <=> phase # "done" /\ ~Undone
    /\ Mode = "undoing" <=> phase # "done" /\ Undone
    /\ Mode = "returned" <=> phase = "done"
  BY DEF Mode, Undone

\* whoever moves or is folded has its dependencies decided
LEMMA DecidedFirst ==
    ASSUME RefinementInv, NEW r \in Resources,
           pc[r] # "idle" \/ Level[r] <= level, NEW d \in Deps[r]
    PROVE  d \in Resources /\ Stage[d] # "pending"
  <1>1. /\ d \in Resources /\ d \in Tasks /\ r \in Tasks
        /\ Level[d] < Level[r] /\ Level[d] \in Nat /\ Level[r] \in Nat
        /\ level \in Nat
    BY PlanAssumption DEF Tasks, RefinementInv, ResultInv, TypeInv, TypeOK, ControlTypes
  <1>2. Level[r] <= level
    BY <1>1 DEF RefinementInv, ResultInv, BarrierInv
  <1>3. Level[d] < level
    BY <1>1, <1>2
  <1>4. pc[d] = "settled"
    BY <1>1, <1>3 DEF RefinementInv, ResultInv, BarrierInv
  <1> QED
    BY <1>1, <1>4, StageOf

-----------------------------------------------------------------------------
(* The steps                                                               *)

LEMMA InitMaps == Init => Promise!Init
  <1> SUFFICES ASSUME Init PROVE Promise!Init
    OBVIOUS
  <1>1. Mode = "deploying"
    BY DEF Init, Mode
  <1>2. ASSUME NEW r \in Resources PROVE Stage[r] = "pending"
    BY StageOf DEF Init, Tasks
  <1>3. Stage = [r \in Resources |-> "pending"]
    BY <1>2 DEF Stage
  <1>4. {r \in Resources : RollbackSelects(r)} \in SUBSET Resources
    OBVIOUS
  <1> QED
    BY <1>1, <1>3, <1>4 DEF Promise!Init

LEMMA StartLevelMaps ==
    ASSUME RefinementInv, StartLevel
    PROVE  Promise!Next
  <1> USE DEF RefinementInv, ResultInv
  <1> DEFINE S == {r \in Resources : Level[r] = level /\ out'[r] # "none"}
  <1>1. /\ phase = "starting" /\ phase' = "running" /\ level' = level
        /\ UNCHANGED <<opt, result, attempted, acked>>
    BY DEF StartLevel, deleteVars
  <1>2. result = "none" /\ ~Undone /\ ~Undone' /\ attempted = {}
    BY <1>1 DEF BarrierInv, Undone, RollbackInv
  <1>3. Mode = "deploying" /\ Mode' = Mode /\ Removable' = Removable
    BY <1>1, <1>2, ModeFacts, SameMode, SameRemovable
  <1>4. ASSUME NEW r \in Resources, Level[r] = level
        PROVE  /\ Stage[r] = "pending" /\ pc[r] = "idle" /\ r \notin acked
               /\ pc'[r] = "settled" <=> out'[r] # "none"
    <2>1. /\ r \in Tasks /\ pc[r] = "idle" /\ out[r] = "none"
          /\ pc'[r] = "settled" <=> out'[r] # "none"
      BY <1>4, LevelOutcome DEF Tasks
    <2>2. r \notin acked
      BY <2>1 DEF OutcomeInv, AppliedFlag
    <2> QED
      BY <1>2, <2>1, <2>2, StageOf
  <1>5. ASSUME NEW r \in S
        PROVE  Stage[r] = "pending" /\ \A d \in Deps[r] : Stage[d] # "pending"
    <2>1. Level[r] <= level
      BY PlanAssumption DEF TypeInv, TypeOK, ControlTypes
    <2> QED
      BY <1>4, <2>1, DecidedFirst
  <1>6. Stage' = [r \in Resources |-> IF r \in S THEN "givenUp" ELSE Stage[r]]
    <2>1. ASSUME NEW r \in Resources
          PROVE  (CASE r \in attempted' -> "removed"
                    [] r \in acked' \ attempted' -> "applied"
                    [] r \notin acked' \cup attempted' /\ pc'[r] = "settled" -> "givenUp"
                    [] OTHER -> "pending")
                 = IF r \in S THEN "givenUp" ELSE Stage[r]
      <3>1. CASE r \in S
        BY <1>1, <1>2, <1>4, <3>1
      <3>2. CASE r \notin S /\ Level[r] = level
        BY <1>1, <1>2, <1>4, <3>2
      <3>3. CASE Level[r] # level
        <4>1. pc'[r] = pc[r]
          BY <3>3, LevelOutcome DEF Tasks
        <4> QED
          BY <1>1, <3>3, <4>1 DEF Stage
      <3> QED
        BY <3>1, <3>2, <3>3
    <2> QED
      BY <2>1 DEF Stage
  <1>7. S \in SUBSET Resources
    OBVIOUS
  <1> HIDE DEF S
  <1>8. Promise!GiveUp(S)
    BY <1>3, <1>5, <1>6 DEF Promise!GiveUp, Promise!Decided, Removable
  <1> QED
    BY <1>7, <1>8 DEF Promise!Next

LEMMA TaskMaps ==
    ASSUME RefinementInv, NEW u \in Tasks, Task(u)
    PROVE  Promise!Next \/ Invisible
  <1> USE DEF RefinementInv, ResultInv
  <1>1. /\ UNCHANGED <<phase, result>> /\ pc[u] \notin {"idle", "settled"}
        /\ \A t \in Tasks \ {u} : pc'[t] = pc[t]
    BY TaskMoves DEF TypeInv
  <1>2. phase = "running" /\ result = "none" /\ ~Undone /\ ~Undone' /\ attempted = {}
    BY <1>1 DEF BarrierInv, Undone, RollbackInv
  <1>3. UNCHANGED <<opt, attempted>>
    BY DEF Task, RunClosure, CRDReady, CRDAborted, CRDFails, Resolve, ApplyAborted,
      ApplyDryRun, ApplySend, ApplySucceeds, ApplyAdopts, ApplyFails, BecomesReady,
      WaitAborted, WaitFails, taskFrame, deleteVars
  <1>4. Mode = "deploying" /\ Mode' = Mode /\ Removable' = Removable
    BY <1>1, <1>2, <1>3, ModeFacts, SameMode, SameRemovable
  <1>5. out[u] = "none"
    BY <1>1 DEF OutcomeInv
  <1>6. CASE u \in Closures
    <2>1. UNCHANGED acked /\ u \notin Resources
      BY <1>6, ClosureOutcome, ResourcesAssumption DEF TypeInv
    <2>2. Stage' = Stage
      BY <1>1, <1>3, <2>1, SameStage DEF Tasks
    <2> QED
      BY <1>4, <2>2 DEF Invisible
  <1>7. CASE u \in Resources
    <2>1. TaskEffect(u)
      BY <1>5, <1>7, TaskOutcome DEF TypeInv
    <2>2. u \in acked <=> pc[u] = "wait"
      BY <1>5, <1>7 DEF OutcomeInv, AppliedFlag
    <2>3. \A d \in Deps[u] : Stage[d] # "pending"
      BY <1>1, <1>7, DecidedFirst
    <2>4. ASSUME acked' = acked, u \in acked \/ pc'[u] # "settled"
          PROVE  Invisible
      <3>1. Stage' = Stage
        BY <1>1, <1>3, <2>4, SameStage DEF Tasks
      <3> QED
        BY <1>4, <3>1 DEF Invisible
    <2>5. ASSUME acked' = acked, u \notin acked, pc'[u] = "settled"
          PROVE  Promise!Next
      <3>1. Stage[u] = "pending"
        BY <1>1, <1>2, <1>7, <2>5, StageOf
      <3>2. Stage' = [r \in Resources |-> IF r \in {u} THEN "givenUp" ELSE Stage[r]]
        <4>1. ASSUME NEW r \in Resources
              PROVE  (CASE r \in attempted' -> "removed"
                        [] r \in acked' \ attempted' -> "applied"
                        [] r \notin acked' \cup attempted' /\ pc'[r] = "settled" -> "givenUp"
                        [] OTHER -> "pending")
                     = IF r \in {u} THEN "givenUp" ELSE Stage[r]
          <5>1. CASE r = u
            BY <1>2, <1>3, <2>5, <5>1
          <5>2. CASE r # u
            <6>1. pc'[r] = pc[r]
              BY <1>1, <5>2 DEF Tasks
            <6> QED
              BY <1>3, <2>5, <5>2, <6>1 DEF Stage
          <5> QED
            BY <5>1, <5>2
        <4> QED
          BY <4>1 DEF Stage
      <3>3. Promise!GiveUp({u})
        BY <1>4, <2>3, <3>1, <3>2 DEF Promise!GiveUp, Promise!Decided, Removable
      <3> QED
        BY <1>7, <3>3 DEF Promise!Next
    <2>6. ASSUME acked' = acked \cup {u}, u \notin acked
          PROVE  Promise!Next
      <3>1. Stage[u] = "pending"
        BY <1>1, <1>2, <1>7, <2>6, StageOf
      <3>2. Stage' = [Stage EXCEPT ![u] = "applied"]
        <4>1. ASSUME NEW r \in Resources
              PROVE  (CASE r \in attempted' -> "removed"
                        [] r \in acked' \ attempted' -> "applied"
                        [] r \notin acked' \cup attempted' /\ pc'[r] = "settled" -> "givenUp"
                        [] OTHER -> "pending")
                     = IF r = u THEN "applied" ELSE Stage[r]
          <5>1. CASE r = u
            BY <1>2, <1>3, <2>6, <5>1
          <5>2. CASE r # u
            <6>1. pc'[r] = pc[r] /\ (r \in acked' <=> r \in acked)
              BY <1>1, <2>6, <5>2 DEF Tasks
            <6> QED
              BY <1>3, <5>2, <6>1 DEF Stage
          <5> QED
            BY <5>1, <5>2
        <4> QED
          BY <4>1 DEF Stage
      <3>3. Promise!Apply(u)
        BY <1>4, <2>3, <3>1, <3>2 DEF Promise!Apply, Promise!Decided, Removable
      <3> QED
        BY <1>7, <3>3 DEF Promise!Next
    <2> QED
      BY <2>1, <2>2, <2>4, <2>5, <2>6 DEF TaskEffect
  <1> QED
    BY <1>6, <1>7 DEF Tasks

\* planning, folding and finishing are the engine's own business
LEMMA ControlMaps ==
    ASSUME RefinementInv,
           Plan \/ PlanFails \/ AllSettled \/ NextLevel \/ FinishLevels
           \/ \E t \in Tasks : Collect(t)
    PROVE  Invisible
  <1> USE DEF RefinementInv, ResultInv
  <1>1. /\ phase \in {"planning", "starting", "running", "collecting"}
        /\ phase' \notin {"rollback", "done"}
        /\ UNCHANGED <<opt, pc, acked, attempted>>
    BY DEF Plan, PlanFails, AllSettled, NextLevel, FinishLevels, Collect, taskVars, deleteVars
  <1>2. result = "none"
    BY <1>1 DEF BarrierInv
  <1>3. result' # "rolledBack"
    BY <1>2 DEF Plan, PlanFails, AllSettled, NextLevel, FinishLevels, Collect
  <1>4. Mode' = Mode
    BY <1>1, <1>2, <1>3, SameMode DEF Undone
  <1> QED
    BY <1>1, <1>4, SameStage, SameRemovable DEF Invisible

LEMMA StartRollbackMaps ==
    ASSUME RefinementInv, StartRollback
    PROVE  Promise!Next
  <1> USE DEF RefinementInv, ResultInv
  <1>1. /\ phase = "collecting" /\ phase' = "rollback"
        /\ UNCHANGED <<opt, pc, acked, attempted>>
    BY DEF StartRollback, taskVars
  <1>2. Mode = "deploying" /\ Mode' = "undoing"
    <2>1. result = "none"
      BY <1>1 DEF BarrierInv
    <2> QED
      BY <1>1, <2>1 DEF Mode
  <1>3. Stage' = Stage /\ Removable' = Removable
    BY <1>1, SameStage, SameRemovable
  <1> QED
    BY <1>2, <1>3 DEF Promise!Next, Promise!StartUndo, Removable

LEMMA CleanupMaps ==
    ASSUME RefinementInv, Cleanup
    PROVE  Promise!Next
  <1>1. /\ phase = "cleanup" /\ phase' = "done"
        /\ UNCHANGED <<opt, pc, acked, attempted>>
    BY DEF Cleanup, taskVars, deleteVars
  <1>2. Mode # "returned" /\ Mode' = "returned"
    BY <1>1 DEF Mode
  <1>3. Stage' = Stage /\ Removable' = Removable
    BY <1>1, SameStage, SameRemovable
  <1> QED
    BY <1>2, <1>3 DEF Promise!Next, Promise!Return, Removable

\* A turn of the rollback requests the deletion of the current object, which
\* it has not requested before, or requests none.
LEMMA RollbackDeletes ==
    ASSUME Rollback
    PROVE  /\ phase = "rollback" /\ phase' # "done" /\ Undone'
           /\ UNCHANGED <<opt, pc, acked>>
           /\ \/ attempted' = attempted
              \/ CanDelete /\ ~extAborted /\ attempted' = attempted \cup {Current}
  <1>1. UNCHANGED <<opt, pc, acked>>
    BY OthersMove
  <1>2. phase = "rollback" /\ phase' # "done" /\ Undone'
    BY DEF Rollback, SkipDelete, DeleteAborted, DeleteNotFound, DeleteAccepted,
      DeleteRefused, PollGone, PollFails, RollbackDone, CanDelete, rollbackFrame, Undone
  <1>3. \/ attempted' = attempted
        \/ CanDelete /\ ~extAborted /\ attempted' = attempted \cup {Current}
    BY DEF Rollback, SkipDelete, DeleteAborted, DeleteNotFound, DeleteAccepted,
      DeleteRefused, PollGone, PollFails, RollbackDone, rollbackFrame, deleteVars
  <1> QED
    BY <1>1, <1>2, <1>3

LEMMA RollbackMaps ==
    ASSUME RefinementInv, Rollback
    PROVE  Promise!Next \/ Invisible
  <1> USE DEF RefinementInv, ResultInv
  <1>1. /\ phase = "rollback" /\ phase' # "done" /\ Undone /\ Undone'
        /\ UNCHANGED <<opt, pc, acked>>
    BY RollbackDeletes DEF Undone
  <1>2. Mode = "undoing" /\ Mode' = Mode /\ Removable' = Removable
    BY <1>1, ModeFacts, SameMode, SameRemovable
  <1>3. CASE attempted' = attempted
    BY <1>1, <1>2, <1>3, SameStage DEF Invisible
  <1>4. CASE CanDelete /\ ~extAborted /\ attempted' = attempted \cup {Current}
    <2>1. PICK c \in Positions : c = cursor
      BY <1>4 DEF CanDelete, Positions, TypeInv, TypeOK, DeleteTypes
    <2> DEFINE r == deployed[c]
    <2>2. r \in Resources /\ attempted' = attempted \cup {r} /\ Deletable(r)
      BY <1>4, <2>1 DEF Positions, Current, CanDelete, TypeInv, TypeOK, CollectTypes
    <2>3. r \notin attempted
      <3>1. ~deleting /\ ~(c > cursor)
        BY <1>4, <2>1 DEF CanDelete, Positions
      <3> QED
        BY <3>1 DEF RollbackInv
    <2>4. r \in acked /\ r \in Removable
      BY <2>2 DEF Deletable, OutcomeInv, Removable
    <2>5. Stage[r] = "applied"
      BY <2>2, <2>3, <2>4, StageOf
    <2>6. ASSUME NEW t \in Removable, r \in Deps[t] PROVE Stage[t] # "applied"
      <3>1. t \in Resources /\ RollbackSelects(t)
        BY DEF Removable
      <3>2. CASE t \in acked
        <4>1. PICK j \in Positions : deployed[j] = t /\ Deletable(deployed[j])
          BY <1>1, <3>1, <3>2, OursAreRecorded
        <4>2. j > cursor
          BY <2>1, <2>6, <4>1, DependentsLater
        <4>3. Handled(j)
          BY <1>1, <4>2 DEF RollbackInv
        <4>4. t \in attempted
          BY <1>4, <4>1, <4>3 DEF Handled
        <4> QED
          BY <3>1, <4>4, StageOf
      <3>3. CASE t \notin acked
        BY <3>1, <3>3, StageOf
      <3> QED
        BY <3>2, <3>3
    <2> HIDE DEF r
    <2>7. Stage' = [Stage EXCEPT ![r] = "removed"]
      <3>1. ASSUME NEW q \in Resources
            PROVE  (CASE q \in attempted' -> "removed"
                      [] q \in acked' \ attempted' -> "applied"
                      [] q \notin acked' \cup attempted' /\ pc'[q] = "settled" -> "givenUp"
                      [] OTHER -> "pending")
                   = IF q = r THEN "removed" ELSE Stage[q]
        <4>1. CASE q = r
          BY <2>2, <4>1
        <4>2. CASE q # r
          <5>1. q \in attempted' <=> q \in attempted
            BY <2>2, <4>2
          <5> QED
            BY <1>1, <4>2, <5>1 DEF Stage
        <4> QED
          BY <4>1, <4>2
      <3> QED
        BY <3>1 DEF Stage
    <2>8. Promise!Remove(r)
      BY <1>2, <2>4, <2>5, <2>6, <2>7 DEF Promise!Remove, Removable
    <2> QED
      BY <2>2, <2>8 DEF Promise!Next
  <1> QED
    BY <1>3, <1>4, RollbackDeletes

LEMMA OthersMap ==
    ASSUME Environment \/ UNCHANGED vars
    PROVE  Invisible
  <1>1. UNCHANGED <<opt, pc, acked, attempted, phase, result>>
    BY DEF Environment, DeploymentTimeout, ExternalAbort, AbortAllOperations, OtherWriter,
      environmentFrame, vars, taskVars, deleteVars
  <1> QED
    BY <1>1, SameStage, SameMode, SameRemovable DEF Invisible, Undone

-----------------------------------------------------------------------------
(* KeepsPromise: whatever its tasks, retries, timers and callers do, the   *)
(* engine decides dependencies first, undoes only after the last decision, *)
(* removes dependents before their dependencies and leaves everything as   *)
(* it is once it has returned.                                             *)
THEOREM DeploymentKeepsPromise == Spec => KeepsPromise
  <1>1. RefinementInv /\ [Next]_vars => [Promise!Next]_(Promise!vars)
    <2> SUFFICES ASSUME RefinementInv, [Next]_vars
                 PROVE  Promise!Next \/ UNCHANGED Promise!vars
      OBVIOUS
    <2>1. Promise!Next \/ Invisible
      BY StartLevelMaps, TaskMaps, ControlMaps, StartRollbackMaps, CleanupMaps, RollbackMaps,
         OthersMap
      DEF Next, Control
    <2> QED
      BY <2>1, InvisibleStutters
  <1>2. Spec => []RefinementInv
    BY RollbackCorrect DEF RefinementInv
  <1>3. Promise!Spec <=> Promise!Init /\ [][Promise!Next]_(Promise!vars)
    BY DEF Promise!Spec
  <1> QED
    BY <1>1, <1>2, <1>3, InitMaps, PTL DEF Spec, KeepsPromise
=============================================================================
