-------------------------- MODULE KroTeardown_proofs --------------------------
(***************************************************************************)
(* Proofs about KroTeardown, for any instances, Namespaces, processes,     *)
(* faults and bounds: the RGD goes last, shared Namespaces stay, and the   *)
(* deletions of the instances, however they overlap, leave nothing behind  *)
(* that no one will clean.                                                 *)
(***************************************************************************)
EXTENDS KroTeardown, TLAPS

-----------------------------------------------------------------------------
(***************************************************************************)
(* The inductive invariant                                                 *)
(***************************************************************************)
PCs == DeploySteps \cup DeleteSteps \cup {"idle"}

\* the steps before the list of instances, from there on, and those that
\* treat one Namespace after the other
BeforeList ==
    {"lookup", "proveCrd", "read", "deleteCr", "awaitCr", "children", "jobs", "list"}
AfterList == AfterCr \ {"children", "jobs", "list"}
Cleaning == {"gate", "deleteNs", "awaitNs"}

\* A task knows what its step needs, and that instances are left only while
\* it treats the Namespaces of its own instance.
Knowing(t) ==
    /\ t.pc # "idle" => t.inst \in Instances
    /\ t.pc \in {"hoistRead", "hoistPatch", "deleteNs", "awaitNs"} => t.cur \in Namespaces
    /\ t.pc = "home" => Home[t.inst] \in Namespaces
    /\ t.pc \in BeforeList => t.todo = {}
    /\ t.rest => t.pc \in Cleaning /\ t.phase = "own"

\* What a deletion has found gone is gone, or was posted after it looked
Told(t) ==
    /\ t.pc \in AfterCr /\ Exists(t.inst) => t.inst \in t.lateCrs
    /\ t.pc \in AfterList /\ ~t.rest => \A i \in Instances : Exists(i) => i \in t.lateCrs
    /\ t.pc = "deleteRgd" => owned \subseteq t.lateNs

\* A Namespace that a listed instance hoists is not to be deleted
Unshared(t) ==
    \A i \in Instances \ t.lateCrs : Exists(i) =>
        /\ t.pc \in Cleaning /\ t.phase = "own" => t.todo \cap HoistedBy[i] = {}
        /\ t.pc = "deleteNs" => t.cur \notin HoistedBy[i] \cup {Home[i]}

Fits(t) == Knowing(t) /\ Told(t) /\ Unshared(t)

\* An instance needs the CRD
Served == \A i \in Instances : Exists(i) => crd

\* i is still to be deleted, or said why the RGD stays; and no deletion of
\* it has seen another instance
LastOne(i) ==
    /\ result[i].status = "complete" => result[i].rgd = "occupied"
    /\ \A p \in Processes : task[p].inst = i => ~task[p].rest

\* Without deployments: nothing comes back, and when all instances are gone
\* and the RGD is not, one of them was the last and will see to it.
Calm ==
    /\ \A p \in Processes :
          task[p].pc \notin DeploySteps /\ task[p].lateCrs = {} /\ task[p].lateNs = {}
    /\ \A i \in Instances : Exists(i) => result[i].status # "complete"
    /\ rgd # "active" => owned = {}
    /\ rgd # "absent" /\ (\A i \in Instances : ~Exists(i)) => \E i \in Instances : LastOne(i)

TeardownInv ==
    /\ TypeOK /\ \A p \in Processes : Fits(task[p])
    /\ Served /\ (deploys = 0 => Calm)

-----------------------------------------------------------------------------
(***************************************************************************)
(* Types                                                                   *)
(***************************************************************************)
ClusterTypes ==
    /\ rgd \in {"absent", "active", "terminating"} /\ crd \in BOOLEAN
    /\ cr \in [Instances -> {"absent", "posted", "managed", "terminating"}]
    /\ record \in [Instances -> BOOLEAN]
    /\ child \in [Instances -> ObjectStates] /\ pods \subseteq Instances

NamespaceTypes ==
    /\ ns \in [Namespaces -> ObjectStates]
    /\ owned \subseteq Namespaces /\ foreign \subseteq Namespaces
    /\ \A n \in owned \cup foreign : ns[n] # "absent"

OperationTypes ==
    /\ task \in [Processes -> Tasks] /\ knows \in [Processes -> BOOLEAN]
    /\ result \in [Instances -> Results]
    /\ deploys \in 0..MaxDeploys /\ faults \in 0..MaxFaults

LEMMA TypeParts == TypeOK <=> ClusterTypes /\ NamespaceTypes /\ OperationTypes
  BY DEF TypeOK, ClusterTypes, NamespaceTypes, OperationTypes

\* The fields of a task
LEMMA TaskFields ==
  ASSUME NEW t \in Tasks
  PROVE  /\ t.pc \in PCs /\ t.inst \in Instances \cup {None} /\ t.spec \in BOOLEAN
         /\ t.jobs \in BOOLEAN /\ t.names \subseteq Namespaces /\ t.rest \in BOOLEAN
         /\ t.phase \in {"own", "sweep", "drain"} /\ t.todo \subseteq Namespaces
         /\ t.cur \in Namespaces \cup {None} /\ t.mine \in BOOLEAN
         /\ t.blocked \subseteq Namespaces \cup {Unproven} /\ t.kept \subseteq Namespaces
         /\ t.retained \subseteq Namespaces /\ t.drains \in 0..MaxDrains
         /\ t.lateCrs \subseteq Instances /\ t.lateNs \subseteq Namespaces
  BY DEF Tasks, PCs

LEMMA NewTaskType ==
  ASSUME NEW i \in Instances \cup {None}, NEW pc \in PCs
  PROVE  /\ NewTask(i, pc) \in Tasks
         /\ NewTask(i, pc).pc = pc /\ NewTask(i, pc).inst = i /\ NewTask(i, pc).rest = FALSE
         /\ NewTask(i, pc).todo = {} /\ NewTask(i, pc).lateCrs = {}
         /\ NewTask(i, pc).lateNs = {}
  BY TeardownBounds DEF Tasks, NewTask, PCs

LEMMA IdleType ==
  /\ Idle \in Tasks /\ Idle.pc = "idle" /\ Idle.rest = FALSE /\ Idle.inst = None
  /\ Idle.lateCrs = {} /\ Idle.lateNs = {}
  <1>1. /\ Idle.pc = "idle" /\ Idle.rest = FALSE /\ Idle.inst = None
        /\ Idle.lateCrs = {} /\ Idle.lateNs = {}
    BY DEF Idle, NewTask
  <1>2. Idle \in Tasks
    BY TeardownBounds DEF Idle, NewTask, Tasks
  <1> QED
    BY <1>1, <1>2

LEMMA GotoType ==
  ASSUME NEW t \in Tasks, NEW pc \in PCs
  PROVE  [t EXCEPT !.pc = pc] \in Tasks
  BY DEF Tasks, PCs

LEMMA SetType ==
  ASSUME task \in [Processes -> Tasks], NEW p \in Processes, NEW t \in Tasks, Set(p, t)
  PROVE  /\ task' \in [Processes -> Tasks] /\ task'[p] = t
         /\ \A q \in Processes \ {p} : task'[q] = task[q]
  BY DEF Set

LEMMA ReturnType ==
  ASSUME OperationTypes, NEW p \in Processes, NEW status \in Statuses,
         NEW keep \in SUBSET Namespaces, NEW policy \in {"none", "shared", "occupied"},
         Return(p, status, keep, policy)
  PROVE  /\ task' \in [Processes -> Tasks] /\ task'[p] = Idle
         /\ \A q \in Processes \ {p} : task'[q] = task[q]
         /\ result' \in [Instances -> Results]
         /\ \A i \in Instances :
               IF i = task[p].inst THEN result'[i].status = status /\ result'[i].rgd = policy
                                   ELSE result'[i] = result[i]
  <1> DEFINE r == [status |-> status, retained |-> keep, rgd |-> policy]
  <1>1. r \in Results /\ r.status = status /\ r.rgd = policy
    BY DEF Results
  <1>2. result' = [result EXCEPT ![task[p].inst] = r] /\ Set(p, Idle)
    BY DEF Return
  <1> HIDE DEF r
  <1>3. result' \in [Instances -> Results]
    BY <1>1, <1>2 DEF OperationTypes
  <1>4. \A i \in Instances :
            IF i = task[p].inst THEN result'[i] = r ELSE result'[i] = result[i]
    BY <1>2 DEF OperationTypes
  <1> QED
    BY <1>1, <1>2, <1>3, <1>4, SetType, IdleType DEF OperationTypes

\* What a call that fails does to the bounds
LEMMA FaultType == ASSUME OperationTypes, Fault PROVE faults' \in 0..MaxFaults
  BY TeardownBounds DEF OperationTypes, Fault

LEMMA NoResultType == NoResult \in Results /\ NoResult.status = "none"
  BY DEF NoResult, Results, Statuses

-----------------------------------------------------------------------------
(***************************************************************************)
(* What an operation knows after its own step                              *)
(***************************************************************************)
LEMMA IdleFits == Fits(Idle)'
  BY IdleType DEF Fits, Knowing, Told, Unshared, BeforeList, Cleaning, AfterList, AfterCr

LEMMA EarlyFits ==
  ASSUME NEW t \in Tasks, Knowing(t), t.pc \notin AfterCr
  PROVE  Fits(t)'
  BY DEF Fits, Knowing, Told, Unshared, AfterList, AfterCr, Cleaning

\* A task that ends, and one that goes on before the own CR is gone
LEMMA EndStep ==
  ASSUME task \in [Processes -> Tasks], NEW p \in Processes, Set(p, Idle)
  PROVE  task' \in [Processes -> Tasks] /\ Fits(task[p])'
  <1>1. task' \in [Processes -> Tasks] /\ task'[p] = Idle
    BY SetType, IdleType
  <1> QED
    BY <1>1, IdleFits DEF Fits

LEMMA EarlyStep ==
  ASSUME task \in [Processes -> Tasks], NEW p \in Processes, NEW t \in Tasks, Set(p, t),
         Knowing(t), t.pc \notin AfterCr
  PROVE  task' \in [Processes -> Tasks] /\ Fits(task[p])'
  <1>1. task' \in [Processes -> Tasks] /\ task'[p] = t
    BY SetType
  <1>2. Fits(t)'
    BY EarlyFits
  <1> QED
    BY <1>1, <1>2

LEMMA ReturnStep ==
  ASSUME OperationTypes, NEW p \in Processes, NEW status \in Statuses,
         NEW keep \in SUBSET Namespaces, NEW policy \in {"none", "shared", "occupied"},
         Return(p, status, keep, policy), knows' = knows, deploys' = deploys,
         faults' \in 0..MaxFaults
  PROVE  OperationTypes' /\ Fits(task[p])'
  <1>1. Set(p, Idle)
    BY DEF Return
  <1>2. task' \in [Processes -> Tasks] /\ result' \in [Instances -> Results]
    BY ReturnType
  <1>3. Fits(task[p])'
    BY <1>1, EndStep DEF OperationTypes
  <1> QED
    BY <1>2, <1>3 DEF OperationTypes

LEMMA GiveUpStep ==
  ASSUME OperationTypes, NEW p \in Processes, NEW status \in Statuses, GiveUp(p, status)
  PROVE  OperationTypes' /\ Fits(task[p])'
  <1>1. task[p].retained \in SUBSET Namespaces
    BY TaskFields DEF OperationTypes
  <1>2. Return(p, status, task[p].retained, "none") /\ knows' = knows /\ deploys' = deploys
        /\ faults' \in 0..MaxFaults
    BY FaultType DEF GiveUp
  <1> QED
    BY <1>1, <1>2, ReturnStep

\* A step that does not change pc but to a step before the own CR is gone
LEMMA GotoEarly ==
  ASSUME OperationTypes, NEW p \in Processes, Fits(task[p]), NEW pc \in PCs, Goto(p, pc),
         pc \notin AfterCr \cup {"hoistRead", "hoistPatch", "home"},
         task[p].pc \notin Cleaning \cup {"idle"},
         pc \in BeforeList => task[p].pc \in BeforeList
  PROVE  task' \in [Processes -> Tasks] /\ Fits(task[p])'
  <1>1. PICK t \in Tasks : t = task[p]
    BY DEF OperationTypes
  <1>2. PICK u \in Tasks : u = [t EXCEPT !.pc = pc]
    BY GotoType
  <1>3. Set(p, u)
    BY <1>1, <1>2 DEF Goto
  <1>4. /\ u.pc = pc /\ u.inst = t.inst /\ u.cur = t.cur /\ u.todo = t.todo /\ u.rest = t.rest
        /\ u.phase = t.phase
    BY <1>2 DEF Tasks
  <1>5. Knowing(u)
    BY <1>1, <1>4 DEF Fits, Knowing, Cleaning, AfterCr, BeforeList
  <1> QED
    BY <1>3, <1>4, <1>5, EarlyStep DEF OperationTypes

LEMMA EndDeployStep ==
  ASSUME OperationTypes, NEW p \in Processes, EndDeploy(p), knows' = knows, deploys' = deploys,
         faults' \in 0..MaxFaults
  PROVE  OperationTypes' /\ Fits(task[p])'
  <1>1. "none" \in Statuses /\ {} \in SUBSET Namespaces
    BY DEF Statuses
  <1> QED
    BY <1>1, ReturnStep DEF EndDeploy

\* deploy, without the steps that others are told of
LEMMA OwnDeploying ==
  ASSUME TeardownInv, NEW p \in Processes, Deploying(p), ~DeployCr(p), ~HoistPatch(p),
         \A n \in Namespaces : ~Hoist(p, n)
  PROVE  OperationTypes' /\ Fits(task[p])'
  <1>0. OperationTypes /\ Fits(task[p]) /\ task[p] \in Tasks /\ faults \in 0..MaxFaults
    BY TypeParts DEF TeardownInv, OperationTypes
  <1>1. ASSUME Check(p) PROVE OperationTypes' /\ Fits(task[p])'
    <2>1. CASE EndDeploy(p)
      BY <1>0, <1>1, <2>1, EndDeployStep DEF Check
    <2>2. CASE Goto(p, "rgd") /\ UNCHANGED result
      <3>1. "rgd" \in PCs \ (AfterCr \cup BeforeList)
        BY DEF PCs, DeploySteps, AfterCr, BeforeList
      <3>2. task[p].pc = "check" /\ task[p].pc \notin Cleaning
        BY <1>1 DEF Check, At, Cleaning
      <3> QED
        BY <1>0, <1>1, <2>2, <3>1, <3>2, GotoEarly DEF Check, OperationTypes
    <2> QED
      BY <1>1, <2>1, <2>2 DEF Check
  <1>2. ASSUME DeployRgd(p) \/ Hoisted(p) PROVE OperationTypes' /\ Fits(task[p])'
    <2>1. PICK pc \in {"crd", "cr"} : Goto(p, pc)
      BY <1>2 DEF DeployRgd, Hoisted
    <2>2. pc \in PCs \ (AfterCr \cup BeforeList)
      BY DEF PCs, DeploySteps, AfterCr, BeforeList
    <2>3. task[p].pc \in {"rgd", "hoist"} /\ task[p].pc \notin Cleaning
      BY <1>2 DEF DeployRgd, Hoisted, At, Cleaning
    <2>4. UNCHANGED <<knows, result, deploys, faults>>
      BY <1>2 DEF DeployRgd, Hoisted
    <2> QED
      BY <1>0, <2>1, <2>2, <2>3, <2>4, GotoEarly DEF OperationTypes
  <1>3. ASSUME DeployCrd(p) PROVE OperationTypes' /\ Fits(task[p])'
    <2>1. PICK t \in Tasks : t = task[p]
      BY <1>0
    <2>2. t.inst \in Instances /\ ~t.rest
      BY <1>0, <1>3, <2>1 DEF DeployCrd, At, Fits, Knowing, Cleaning
    <2>3. PICK u : u = [t EXCEPT !.pc = IF Home[t.inst] \in Namespaces \ HoistedBy[t.inst]
                                       THEN "home" ELSE "hoist", !.todo = HoistedBy[t.inst]]
      OBVIOUS
    <2>4. u \in Tasks
      BY <2>2, <2>3, InstancesAssumption DEF Tasks, DeploySteps
    <2>5. /\ u.pc \in {"home", "hoist"} /\ u.inst = t.inst /\ ~u.rest
          /\ u.pc = "home" => Home[u.inst] \in Namespaces
      BY <2>2, <2>3 DEF Tasks
    <2>6. Knowing(u) /\ u.pc \notin AfterCr
      BY <2>2, <2>5 DEF Knowing, BeforeList, AfterCr
    <2>7. Set(p, u)
      BY <1>3, <2>1, <2>3 DEF DeployCrd
    <2>8. task' \in [Processes -> Tasks] /\ Fits(task[p])'
      BY <1>0, <2>4, <2>6, <2>7, EarlyStep DEF OperationTypes
    <2> QED
      BY <1>0, <1>3, <2>8 DEF DeployCrd, OperationTypes
  <1>4. ASSUME DeployHome(p) PROVE OperationTypes' /\ Fits(task[p])'
    <2>1. "hoist" \in PCs \ (AfterCr \cup BeforeList)
      BY DEF PCs, DeploySteps, AfterCr, BeforeList
    <2>2. task[p].pc = "home" /\ task[p].pc \notin Cleaning
      BY <1>4 DEF DeployHome, At, Cleaning
    <2> QED
      BY <1>0, <1>4, <2>1, <2>2, GotoEarly DEF DeployHome, OperationTypes
  <1>5. ASSUME HoistRead(p) PROVE OperationTypes' /\ Fits(task[p])'
    <2>1. CASE EndDeploy(p)
      BY <1>0, <1>5, <2>1, EndDeployStep DEF HoistRead
    <2>2. CASE ~EndDeploy(p)
      <3>1. PICK t \in Tasks : t = task[p]
        BY <1>0
      <3> DEFINE mine == t.cur \in owned
      <3> mine \in BOOLEAN
        OBVIOUS
      <3> HIDE DEF mine
      <3>2. PICK u : u = [t EXCEPT !.pc = "hoistPatch", !.mine = mine]
        OBVIOUS
      <3>3. u \in Tasks
        BY <3>2 DEF Tasks, DeploySteps
      <3>4. u.pc = "hoistPatch" /\ u.inst = t.inst /\ u.cur = t.cur /\ u.rest = t.rest
        BY <3>2 DEF Tasks
      <3>5. t.pc = "hoistRead"
        BY <1>5, <3>1 DEF HoistRead, At
      <3>6. Knowing(u) /\ u.pc \notin AfterCr
        BY <1>0, <3>1, <3>4, <3>5 DEF Fits, Knowing, BeforeList, AfterCr, Cleaning
      <3>7. Set(p, u) /\ UNCHANGED result
        BY <1>5, <2>2, <3>1, <3>2 DEF HoistRead, mine
      <3>8. task' \in [Processes -> Tasks] /\ Fits(task[p])'
        BY <1>0, <3>3, <3>6, <3>7, EarlyStep DEF OperationTypes
      <3> QED
        BY <1>0, <1>5, <3>7, <3>8 DEF HoistRead, OperationTypes
    <2> QED
      BY <2>1, <2>2
  <1>6. ASSUME DeployFails(p) PROVE OperationTypes' /\ Fits(task[p])'
    BY <1>0, <1>6, EndDeployStep, FaultType DEF DeployFails
  <1> QED
    BY <1>1, <1>2, <1>3, <1>4, <1>5, <1>6 DEF Deploying

-----------------------------------------------------------------------------
(***************************************************************************)
(* What one operation does to the others                                   *)
(***************************************************************************)

\* a task but for the history of what appeared meanwhile
Same(t, u) ==
    /\ u \in Tasks
    /\ u.pc = t.pc /\ u.inst = t.inst /\ u.rest = t.rest /\ u.phase = t.phase
    /\ u.todo = t.todo /\ u.cur = t.cur
    /\ t.lateCrs \subseteq u.lateCrs /\ t.lateNs \subseteq u.lateNs

\* Every deletion is told of the CRs and the stamps that are new
Announced ==
    /\ \A i \in Instances, q \in Processes :
          (Exists(i)' /\ ~Exists(i) /\ task'[q].pc \in AfterCr) => i \in task'[q].lateCrs
    /\ \A n \in owned' \ owned, q \in Processes :
          task'[q].pc = "deleteRgd" => n \in task'[q].lateNs

LEMMA SameKeeps ==
  ASSUME NEW q \in Processes, Fits(task[q]), Same(task[q], task'[q]), Announced
  PROVE  Fits(task[q])'
  <1>1. /\ task'[q].pc = task[q].pc /\ task'[q].inst = task[q].inst
        /\ task'[q].rest = task[q].rest /\ task'[q].phase = task[q].phase
        /\ task'[q].todo = task[q].todo /\ task'[q].cur = task[q].cur
        /\ task[q].lateCrs \subseteq task'[q].lateCrs
        /\ task[q].lateNs \subseteq task'[q].lateNs
    BY DEF Same
  <1>2. Knowing(task[q])'
    BY <1>1 DEF Fits, Knowing
  <1>3. ASSUME NEW i \in Instances, Exists(i)', task'[q].pc \in AfterCr
        PROVE  Exists(i) \/ i \in task'[q].lateCrs
    BY <1>3 DEF Announced
  <1>4. task[q].pc \in AfterCr => task[q].inst \in Instances
    BY DEF Fits, Knowing, AfterCr
  <1>5. (task'[q].pc \in AfterCr /\ Exists(task[q].inst)') => task'[q].inst \in task'[q].lateCrs
    <2> SUFFICES ASSUME task'[q].pc \in AfterCr, Exists(task[q].inst)'
                 PROVE  task'[q].inst \in task'[q].lateCrs
      OBVIOUS
    <2>1. PICK i \in Instances : i = task[q].inst
      BY <1>1, <1>4
    <2>2. Exists(i)'
      BY <1>1, <2>1 DEF Exists
    <2>3. Exists(i) \/ i \in task'[q].lateCrs
      BY <1>3, <2>2
    <2> QED
      BY <1>1, <2>1, <2>3 DEF Fits, Told
  <1>6. (task'[q].pc \in AfterList /\ ~task'[q].rest) =>
            \A i \in Instances : Exists(i)' => i \in task'[q].lateCrs
    BY <1>1, <1>3 DEF Fits, Told, AfterList
  <1>7. task'[q].pc = "deleteRgd" => owned' \subseteq task'[q].lateNs
    BY <1>1 DEF Fits, Told, Announced
  <1>8. Told(task[q])'
    BY <1>5, <1>6, <1>7 DEF Told
  <1>9. Unshared(task[q])'
    BY <1>1, <1>3 DEF Fits, Unshared, AfterCr, Cleaning
  <1> QED
    BY <1>2, <1>8, <1>9 DEF Fits

LEMMA SameItself == ASSUME NEW t \in Tasks PROVE Same(t, t)
  BY DEF Same

\* Nothing is announced where nothing appears
LEMMA NothingNew ==
  ASSUME \A i \in Instances : Exists(i)' => Exists(i), owned' \subseteq owned
  PROVE  Announced
  BY DEF Announced

LEMMA PostedType ==
  ASSUME NEW t \in [Processes -> Tasks], NEW i \in Instances
  PROVE  /\ Posted(t, i) \in [Processes -> Tasks]
         /\ \A q \in Processes : /\ Same(t[q], Posted(t, i)[q])
                                 /\ t[q].pc \notin AfterCr => Posted(t, i)[q] = t[q]
                                 /\ t[q].pc \in AfterCr => i \in Posted(t, i)[q].lateCrs
  <1>1. ASSUME NEW u \in Tasks
        PROVE  /\ [u EXCEPT !.lateCrs = @ \cup {i}] \in Tasks
               /\ Same(u, [u EXCEPT !.lateCrs = @ \cup {i}])
               /\ i \in [u EXCEPT !.lateCrs = @ \cup {i}].lateCrs
    BY DEF Tasks, Same
  <1>2. ASSUME NEW q \in Processes
        PROVE  /\ Posted(t, i)[q] \in Tasks /\ Same(t[q], Posted(t, i)[q])
               /\ t[q].pc \notin AfterCr => Posted(t, i)[q] = t[q]
               /\ t[q].pc \in AfterCr => i \in Posted(t, i)[q].lateCrs
    <2>1. PICK u \in Tasks : u = t[q]
      OBVIOUS
    <2>2. Posted(t, i)[q] = IF u.pc \in AfterCr THEN [u EXCEPT !.lateCrs = @ \cup {i}] ELSE u
      BY <2>1 DEF Posted
    <2> QED
      BY <1>1, <2>1, <2>2, SameItself
  <1>3. Posted(t, i) \in [Processes -> Tasks]
    BY <1>2 DEF Posted
  <1> QED
    BY <1>2, <1>3

LEMMA StampedType ==
  ASSUME NEW t \in [Processes -> Tasks], NEW n \in Namespaces
  PROVE  /\ Stamped(t, n) \in [Processes -> Tasks]
         /\ \A q \in Processes : /\ Same(t[q], Stamped(t, n)[q])
                                 /\ t[q].pc # "deleteRgd" => Stamped(t, n)[q] = t[q]
                                 /\ t[q].pc = "deleteRgd" => n \in Stamped(t, n)[q].lateNs
  <1>1. ASSUME NEW u \in Tasks
        PROVE  /\ [u EXCEPT !.lateNs = @ \cup {n}] \in Tasks
               /\ Same(u, [u EXCEPT !.lateNs = @ \cup {n}])
               /\ n \in [u EXCEPT !.lateNs = @ \cup {n}].lateNs
    BY DEF Tasks, Same
  <1>2. ASSUME NEW q \in Processes
        PROVE  /\ Stamped(t, n)[q] \in Tasks /\ Same(t[q], Stamped(t, n)[q])
               /\ t[q].pc # "deleteRgd" => Stamped(t, n)[q] = t[q]
               /\ t[q].pc = "deleteRgd" => n \in Stamped(t, n)[q].lateNs
    <2>1. PICK u \in Tasks : u = t[q]
      OBVIOUS
    <2>2. Stamped(t, n)[q] = IF u.pc = "deleteRgd" THEN [u EXCEPT !.lateNs = @ \cup {n}] ELSE u
      BY <2>1 DEF Stamped
    <2> QED
      BY <1>1, <2>1, <2>2, SameItself
  <1>3. Stamped(t, n) \in [Processes -> Tasks]
    BY <1>2 DEF Stamped
  <1> QED
    BY <1>2, <1>3

\* The three steps of deploy that others are told of
LEMMA HoistStep ==
  ASSUME TeardownInv, NEW p \in Processes, NEW n \in Namespaces, Hoist(p, n)
  PROVE  /\ OperationTypes' /\ Fits(task[p])' /\ Announced
         /\ \A q \in Processes \ {p} : Same(task[q], task'[q])
  <1>0. OperationTypes /\ Fits(task[p]) /\ task \in [Processes -> Tasks]
    BY TypeParts DEF TeardownInv, OperationTypes
  <1>1. PICK t \in Tasks : t = task[p]
    BY <1>0
  <1>2. t.pc = "hoist" /\ t.inst \in Instances /\ ~t.rest
    BY <1>0, <1>1 DEF Hoist, At, Fits, Knowing, Cleaning
  <1>3. PICK u \in Tasks : u = [t EXCEPT !.todo = @ \ {n}]
    BY DEF Tasks
  <1>4. u.pc = "hoist" /\ u.inst = t.inst /\ ~u.rest
    BY <1>2, <1>3 DEF Tasks
  <1>5. UNCHANGED <<knows, result, deploys, faults, cr>>
    BY DEF Hoist
  <1>6. CASE ns[n] = "absent"
    <2>1. PICK T \in [Processes -> Tasks] : T = [task EXCEPT ![p] = u]
      BY <1>0
    <2>2. task' = Stamped(T, n) /\ owned' = owned \cup {n}
      BY <1>1, <1>3, <1>6, <2>1 DEF Hoist
    <2>3. T[p] = u /\ \A q \in Processes \ {p} : T[q] = task[q]
      BY <1>0, <2>1
    <2>4. task'[p] = u /\ task' \in [Processes -> Tasks]
      BY <1>4, <2>2, <2>3, StampedType
    <2>5. Knowing(u) /\ u.pc \notin AfterCr
      BY <1>2, <1>4 DEF Knowing, BeforeList, AfterCr
    <2>6. Fits(u)'
      BY <2>5, EarlyFits
    <2>7. \A q \in Processes \ {p} : Same(task[q], task'[q])
      BY <2>2, <2>3, StampedType
    <2>8. \A q \in Processes : task'[q].pc = "deleteRgd" => n \in task'[q].lateNs
      <3> SUFFICES ASSUME NEW q \in Processes, task'[q].pc = "deleteRgd"
                   PROVE  n \in task'[q].lateNs
        OBVIOUS
      <3>1. Same(T[q], task'[q])
        BY <2>2, StampedType
      <3>2. T[q].pc = "deleteRgd"
        BY <3>1 DEF Same
      <3> QED
        BY <2>2, <3>2, StampedType
    <2>9. Announced
      BY <1>5, <2>2, <2>8 DEF Announced, Exists
    <2> QED
      BY <1>0, <1>5, <2>4, <2>6, <2>7, <2>9 DEF OperationTypes
  <1>7. CASE ns[n] # "absent"
    <2>1. PICK v \in Tasks : v = [u EXCEPT !.pc = "hoistRead", !.cur = n]
      BY DEF Tasks, DeploySteps
    <2>2. v.pc = "hoistRead" /\ v.inst = t.inst /\ ~v.rest /\ v.cur = n
      BY <1>4, <2>1 DEF Tasks
    <2>3. Set(p, v) /\ owned' = owned
      BY <1>1, <1>3, <1>7, <2>1 DEF Hoist
    <2>4. Knowing(v) /\ v.pc \notin AfterCr
      BY <1>2, <2>2 DEF Knowing, BeforeList, AfterCr
    <2>5. task' \in [Processes -> Tasks] /\ Fits(task[p])'
      BY <1>0, <2>3, <2>4, EarlyStep
    <2>6. \A q \in Processes \ {p} : Same(task[q], task'[q])
      BY <1>0, <2>3, SetType, SameItself
    <2>7. Announced
      BY <1>5, <2>3, NothingNew DEF Exists
    <2> QED
      BY <1>0, <1>5, <2>5, <2>6, <2>7 DEF OperationTypes
  <1> QED
    BY <1>6, <1>7

LEMMA HoistPatchStep ==
  ASSUME TeardownInv, NEW p \in Processes, HoistPatch(p)
  PROVE  /\ OperationTypes' /\ Fits(task[p])' /\ Announced
         /\ \A q \in Processes \ {p} : Same(task[q], task'[q])
  <1>0. OperationTypes /\ Fits(task[p]) /\ task \in [Processes -> Tasks]
    BY TypeParts DEF TeardownInv, OperationTypes
  <1>1. PICK t \in Tasks : t = task[p]
    BY <1>0
  <1>2. t.pc = "hoistPatch" /\ t.inst \in Instances /\ ~t.rest /\ t.cur \in Namespaces
    BY <1>0, <1>1 DEF HoistPatch, At, Fits, Knowing, Cleaning
  <1>3. PICK u \in Tasks : u = [t EXCEPT !.pc = "hoist", !.cur = None]
    BY DEF Tasks, DeploySteps
  <1>4. u.pc = "hoist" /\ u.inst = t.inst /\ ~u.rest
    BY <1>2, <1>3 DEF Tasks
  <1>5. UNCHANGED <<knows, result, deploys, faults, cr>>
    BY DEF HoistPatch
  <1>6. PICK T \in [Processes -> Tasks] : T = [task EXCEPT ![p] = u]
    BY <1>0
  <1>7. T = [task EXCEPT ![p].pc = "hoist", ![p].cur = None]
    BY <1>0, <1>1, <1>3, <1>6
  <1>8. T[p] = u /\ \A q \in Processes \ {p} : T[q] = task[q]
    BY <1>0, <1>6
  <1>9. PICK n \in Namespaces : n = t.cur
    BY <1>2
  <1>10. Knowing(u) /\ u.pc \notin AfterCr
    BY <1>2, <1>4 DEF Knowing, BeforeList, AfterCr
  <1>11. Fits(u)'
    BY <1>10, EarlyFits
  <1>12. CASE t.mine /\ n \notin owned
    <2>1. task' = Stamped(T, n) /\ owned' = owned \cup {n}
      BY <1>1, <1>7, <1>9, <1>12 DEF HoistPatch
    <2>2. task'[p] = u /\ task' \in [Processes -> Tasks]
      BY <1>4, <1>8, <2>1, StampedType
    <2>3. \A q \in Processes \ {p} : Same(task[q], task'[q])
      BY <1>8, <2>1, StampedType
    <2>4. \A q \in Processes : task'[q].pc = "deleteRgd" => n \in task'[q].lateNs
      <3> SUFFICES ASSUME NEW q \in Processes, task'[q].pc = "deleteRgd"
                   PROVE  n \in task'[q].lateNs
        OBVIOUS
      <3>1. Same(T[q], task'[q])
        BY <2>1, StampedType
      <3>2. T[q].pc = "deleteRgd"
        BY <3>1 DEF Same
      <3> QED
        BY <2>1, <3>2, StampedType
    <2>5. Announced
      BY <1>5, <2>1, <2>4 DEF Announced, Exists
    <2> QED
      BY <1>0, <1>5, <1>11, <2>2, <2>3, <2>5 DEF OperationTypes
  <1>13. CASE ~(t.mine /\ n \notin owned)
    <2>1. task' = T /\ owned' \subseteq owned
      BY <1>1, <1>7, <1>9, <1>13 DEF HoistPatch
    <2>2. task'[p] = u /\ task' \in [Processes -> Tasks]
      BY <1>8, <2>1
    <2>3. \A q \in Processes \ {p} : Same(task[q], task'[q])
      BY <1>0, <1>8, <2>1, SameItself
    <2>4. Announced
      BY <1>5, <2>1, NothingNew DEF Exists
    <2> QED
      BY <1>0, <1>5, <1>11, <2>2, <2>3, <2>4 DEF OperationTypes
  <1> QED
    BY <1>12, <1>13

LEMMA DeployCrStep ==
  ASSUME TeardownInv, NEW p \in Processes, DeployCr(p)
  PROVE  /\ OperationTypes' /\ Fits(task[p])' /\ Announced
         /\ \A q \in Processes \ {p} : Same(task[q], task'[q])
  <1>0. /\ OperationTypes /\ Fits(task[p]) /\ task \in [Processes -> Tasks]
        /\ result \in [Instances -> Results]
        /\ cr \in [Instances -> {"absent", "posted", "managed", "terminating"}]
    BY TypeParts DEF TeardownInv, OperationTypes, ClusterTypes
  <1>1. PICK i \in Instances : i = task[p].inst
    BY <1>0 DEF DeployCr, At, Fits, Knowing
  <1>2. UNCHANGED <<knows, deploys, faults, owned>>
    BY DEF DeployCr
  <1>3. result' \in [Instances -> Results]
    <2>1. result' = [result EXCEPT ![i] = NoResult]
      BY <1>1 DEF DeployCr
    <2> QED
      BY <1>0, <2>1, NoResultType
  <1>4. PICK T \in [Processes -> Tasks] : T = [task EXCEPT ![p] = Idle]
    BY <1>0, IdleType
  <1>5. T[p] = Idle /\ \A q \in Processes \ {p} : T[q] = task[q]
    BY <1>0, <1>4
  <1>6. Idle.pc \notin AfterCr
    BY IdleType DEF AfterCr
  <1>7. CASE task' = T /\ \A j \in Instances : Exists(j)' => Exists(j)
    <2>1. task'[p] = Idle
      BY <1>5, <1>7
    <2>2. Fits(task[p])'
      BY <2>1, IdleFits
    <2>3. \A q \in Processes \ {p} : Same(task[q], task'[q])
      BY <1>0, <1>5, <1>7, SameItself
    <2>4. Announced
      BY <1>2, <1>7, NothingNew
    <2> QED
      BY <1>0, <1>2, <1>3, <1>7, <2>2, <2>3, <2>4 DEF OperationTypes
  <1>8. CASE task' = Posted(T, i) /\ \A j \in Instances \ {i} : Exists(j)' => Exists(j)
    <2>1. task'[p] = Idle /\ task' \in [Processes -> Tasks]
      BY <1>5, <1>6, <1>8, PostedType
    <2>2. Fits(task[p])'
      BY <2>1, IdleFits
    <2>3. \A q \in Processes \ {p} : Same(task[q], task'[q])
      BY <1>5, <1>8, PostedType
    <2>4. \A q \in Processes : task'[q].pc \in AfterCr => i \in task'[q].lateCrs
      <3> SUFFICES ASSUME NEW q \in Processes, task'[q].pc \in AfterCr
                   PROVE  i \in task'[q].lateCrs
        OBVIOUS
      <3>1. Same(T[q], task'[q])
        BY <1>8, PostedType
      <3>2. T[q].pc \in AfterCr
        BY <3>1 DEF Same
      <3> QED
        BY <1>8, <3>2, PostedType
    <2>5. Announced
      BY <1>2, <1>8, <2>4 DEF Announced
    <2> QED
      BY <1>0, <1>2, <1>3, <2>1, <2>2, <2>3, <2>5 DEF OperationTypes
  <1>9. CASE crd /\ (Exists(i) \/ Open(Home[i]))
    <2>1. cr' = [cr EXCEPT ![i] = IF @ = "absent" THEN "posted" ELSE @]
      BY <1>1, <1>9 DEF DeployCr
    <2>2. task' = IF Exists(i) THEN T ELSE Posted(T, i)
      BY <1>1, <1>4, <1>9 DEF DeployCr
    <2>3. \A j \in Instances \ {i} : Exists(j)' => Exists(j)
      BY <1>0, <2>1 DEF Exists
    <2> QED
      BY <1>7, <1>8, <2>2, <2>3
  <1>10. CASE ~(crd /\ (Exists(i) \/ Open(Home[i])))
    <2>1. Set(p, Idle) /\ cr' = cr
      BY <1>1, <1>10 DEF DeployCr
    <2> QED
      BY <1>4, <1>7, <2>1 DEF Set, Exists
  <1> QED
    BY <1>9, <1>10

-----------------------------------------------------------------------------
(***************************************************************************)
(* deleteInstance                                                          *)
(***************************************************************************)
LEMMA OwnStart ==
  ASSUME TeardownInv, NEW p \in Processes, NEW i \in Instances,
         StartDeploy(p, i) \/ StartDelete(p, i)
  PROVE  OperationTypes' /\ Fits(task[p])'
  <1>0. OperationTypes
    BY TypeParts DEF TeardownInv
  <1>1. PICK pc \in {"check", "lookup"} : Set(p, NewTask(i, pc))
    BY DEF StartDeploy, StartDelete
  <1>2. pc \in PCs /\ pc \notin AfterCr
    BY DEF PCs, DeploySteps, DeleteSteps, AfterCr
  <1>3. PICK t \in Tasks : /\ t = NewTask(i, pc) /\ t.pc = pc /\ t.inst = i /\ t.rest = FALSE
                           /\ t.todo = {}
    BY <1>2, NewTaskType
  <1>4. Knowing(t)
    BY <1>3 DEF Knowing
  <1>5. task' \in [Processes -> Tasks] /\ Fits(task[p])'
    BY <1>0, <1>1, <1>2, <1>3, <1>4, EarlyStep DEF OperationTypes
  <1>6. result' = [result EXCEPT ![i] = NoResult] /\ UNCHANGED <<knows, faults>>
    BY DEF StartDeploy, StartDelete
  <1>7. deploys' \in 0..MaxDeploys
    BY <1>0, TeardownBounds DEF OperationTypes, StartDeploy, StartDelete
  <1> QED
    BY <1>0, <1>5, <1>6, <1>7, NoResultType DEF OperationTypes

\* A step of a deletion that has seen its own CR gone
LEMMA GoesOn ==
  ASSUME TeardownInv, NEW p \in Processes, NEW t \in Tasks, t = task[p],
         NEW u \in Tasks, Set(p, u), cr' = cr, owned' \subseteq owned,
         t.pc \in AfterCr, u.inst = t.inst, u.lateCrs = t.lateCrs, Knowing(u),
         (u.pc \in AfterList /\ ~u.rest) => (t.pc \in AfterList /\ ~t.rest),
         u.pc = "deleteRgd" => owned \subseteq u.lateNs,
         Unshared(u)
  PROVE  task' \in [Processes -> Tasks] /\ Fits(task[p])'
  <1>0. Fits(t) /\ task \in [Processes -> Tasks]
    BY TypeParts DEF TeardownInv, OperationTypes
  <1>1. task' \in [Processes -> Tasks] /\ task'[p] = u
    BY <1>0, SetType
  <1>2. \A i : Exists(i)' <=> Exists(i)
    BY DEF Exists
  <1>3. Unshared(u)'
    BY <1>2 DEF Unshared
  <1>4. Exists(u.inst)' => u.inst \in u.lateCrs
    BY <1>0, <1>2 DEF Fits, Told
  <1>5. (u.pc \in AfterList /\ ~u.rest) => \A i \in Instances : Exists(i)' => i \in u.lateCrs
    BY <1>0, <1>2 DEF Fits, Told
  <1>6. u.pc = "deleteRgd" => owned' \subseteq u.lateNs
    OBVIOUS
  <1>7. Told(u)'
    BY <1>4, <1>5, <1>6 DEF Told
  <1>8. Fits(u)'
    BY <1>3, <1>7 DEF Fits, Knowing
  <1> QED
    BY <1>1, <1>8

\* Up to the deletion of the own CR
LEMMA OwnLookup ==
  ASSUME TeardownInv, NEW p \in Processes, Lookup(p) \/ ReadCr(p) \/ DeleteCr(p)
  PROVE  OperationTypes' /\ Fits(task[p])'
  <1>0. OperationTypes /\ Fits(task[p]) /\ task[p] \in Tasks
    BY TypeParts DEF TeardownInv, OperationTypes
  <1>1. /\ {"read", "proveCrd", "deleteCr", "awaitCr"} \subseteq PCs \ (AfterCr \cup Cleaning)
        /\ {"lookup", "read", "deleteCr"} \subseteq BeforeList
        /\ {"lookup", "read", "deleteCr", "idle"} \cap (Cleaning \cup AfterCr) = {}
    BY DEF PCs, DeleteSteps, AfterCr, BeforeList, Cleaning
  <1>2. CASE Lookup(p)
    <2>1. \E pc \in {"read", "proveCrd"} : Goto(p, pc)
      BY <1>2 DEF Lookup
    <2>2. task[p].pc = "lookup" /\ UNCHANGED <<result, deploys>>
      BY <1>2 DEF Lookup, At
    <2>3. knows' \in [Processes -> BOOLEAN]
      BY <1>0, <1>2 DEF Lookup, OperationTypes
    <2>4. faults' \in 0..MaxFaults
      BY <1>0, <1>2, FaultType DEF Lookup, OperationTypes
    <2>5. task' \in [Processes -> Tasks] /\ Fits(task[p])'
      BY <1>0, <1>1, <2>1, <2>2, GotoEarly
    <2> QED
      BY <1>0, <2>2, <2>3, <2>4, <2>5 DEF OperationTypes
  <1>3. CASE ReadCr(p)
    <2>1. task[p].pc = "read" /\ UNCHANGED <<result, deploys, knows>>
      BY <1>3 DEF ReadCr, At
    <2>2. faults' \in 0..MaxFaults
      BY <1>0, <1>3, FaultType DEF ReadCr, OperationTypes
    <2>3. CASE Goto(p, "deleteCr")
      <3>1. task' \in [Processes -> Tasks] /\ Fits(task[p])'
        BY <1>0, <1>1, <2>1, <2>3, GotoEarly
      <3> QED
        BY <1>0, <2>1, <2>2, <3>1 DEF OperationTypes
    <2>4. CASE ~Goto(p, "deleteCr")
      <3>1. PICK t \in Tasks : t = task[p]
        BY <1>0
      <3>2. t.inst \in Instances /\ ~t.rest /\ t.todo = {}
        BY <1>0, <1>1, <2>1, <3>1 DEF Fits, Knowing
      <3> DEFINE jobs == Descent[t.inst] = "job" /\ t.inst \in pods
      <3> jobs \in BOOLEAN
        OBVIOUS
      <3> HIDE DEF jobs
      <3>3. PICK u : u = [t EXCEPT !.pc = "deleteCr", !.spec = TRUE,
                                   !.names = HoistedBy[t.inst], !.jobs = jobs]
        OBVIOUS
      <3>4. u \in Tasks
        BY <3>2, <3>3, InstancesAssumption DEF Tasks, DeleteSteps
      <3>5. u.pc = "deleteCr" /\ u.inst = t.inst /\ ~u.rest /\ u.todo = {}
        BY <3>2, <3>3 DEF Tasks
      <3>6. Set(p, u)
        BY <1>3, <2>4, <3>1, <3>3 DEF ReadCr, jobs
      <3>7. Knowing(u) /\ u.pc \notin AfterCr
        BY <1>1, <3>2, <3>5 DEF Knowing
      <3>8. task' \in [Processes -> Tasks] /\ Fits(task[p])'
        BY <1>0, <3>4, <3>6, <3>7, EarlyStep DEF OperationTypes
      <3> QED
        BY <1>0, <2>1, <2>2, <3>8 DEF OperationTypes
    <2> QED
      BY <2>3, <2>4
  <1>4. CASE DeleteCr(p)
    <2>1. task[p].pc = "deleteCr" /\ Goto(p, "awaitCr")
      BY <1>4 DEF DeleteCr, At
    <2>2. task' \in [Processes -> Tasks] /\ Fits(task[p])'
      BY <1>0, <1>1, <2>1, GotoEarly
    <2> QED
      BY <1>0, <1>4, <2>2 DEF DeleteCr, OperationTypes
  <1> QED
    BY <1>2, <1>3, <1>4

\* The own CR, or with the definitions every CR, is found to be gone.
LEMMA OwnGone ==
  ASSUME TeardownInv, NEW p \in Processes, AwaitCr(p) \/ (ProveCrd(p) /\ ~crd)
  PROVE  OperationTypes' /\ Fits(task[p])'
  <1>0. /\ OperationTypes /\ Fits(task[p]) /\ task \in [Processes -> Tasks]
        /\ UNCHANGED <<knows, result, deploys, faults, cr>>
    BY TypeParts DEF TeardownInv, OperationTypes, AwaitCr, ProveCrd, cluster
  <1>1. PICK t \in Tasks : t = task[p]
    BY <1>0
  <1>2. /\ t.pc \in {"awaitCr", "proveCrd"} /\ t.inst \in Instances /\ ~t.rest /\ t.todo = {}
    BY <1>0, <1>1 DEF AwaitCr, ProveCrd, At, Fits, Knowing, BeforeList, Cleaning
  <1>3. PICK pc \in {"children", "list", "proveRgd"} :
            /\ Set(p, [t EXCEPT !.pc = pc, !.lateCrs = {}])
            /\ pc = "proveRgd" => \A i \in Instances : ~Exists(i)
            /\ ~Exists(t.inst)
    <2>1. CASE AwaitCr(p)
      <3> DEFINE pc == IF t.spec THEN "children" ELSE "list"
      <3>1. Set(p, [t EXCEPT !.lateCrs = {}, !.pc = pc]) /\ ~Exists(t.inst)
        BY <1>1, <2>1 DEF AwaitCr
      <3>2. [t EXCEPT !.lateCrs = {}, !.pc = pc] = [t EXCEPT !.pc = pc, !.lateCrs = {}]
        BY DEF Tasks
      <3> QED
        BY <3>1, <3>2
    <2>2. CASE ProveCrd(p) /\ ~crd
      <3>1. \A i \in Instances : ~Exists(i)
        BY <2>2 DEF TeardownInv, Served
      <3> QED
        BY <1>1, <1>2, <2>2, <3>1 DEF ProveCrd
    <2> QED
      BY <2>1, <2>2
  <1>4. PICK u \in Tasks : u = [t EXCEPT !.pc = pc, !.lateCrs = {}]
    BY DEF Tasks, DeleteSteps, AfterCr
  <1>5. u.pc = pc /\ u.inst = t.inst /\ ~u.rest /\ u.todo = {} /\ u.lateCrs = {}
    BY <1>2, <1>4 DEF Tasks
  <1>6. task' \in [Processes -> Tasks] /\ task'[p] = u
    BY <1>0, <1>3, <1>4, SetType
  <1>7. Knowing(u)
    BY <1>2, <1>5 DEF Knowing, BeforeList
  <1>8. \A i : Exists(i)' <=> Exists(i)
    BY <1>0 DEF Exists
  <1>9. Told(u)'
    BY <1>3, <1>5, <1>8 DEF Told, AfterList
  <1>10. Unshared(u)'
    BY <1>5 DEF Unshared, Cleaning
  <1>11. Fits(u)'
    BY <1>7, <1>9, <1>10 DEF Fits, Knowing
  <1> QED
    BY <1>0, <1>6, <1>11 DEF OperationTypes

LEMMA OwnWaits ==
  ASSUME TeardownInv, NEW p \in Processes, AwaitChildren(p) \/ DeleteJobs(p)
  PROVE  OperationTypes' /\ Fits(task[p])'
  <1>0. /\ OperationTypes /\ Fits(task[p]) /\ task \in [Processes -> Tasks]
        /\ UNCHANGED <<knows, result, deploys, faults, cr, owned>>
    BY TypeParts DEF TeardownInv, OperationTypes, AwaitChildren, DeleteJobs, cluster
  <1>1. PICK t \in Tasks : t = task[p]
    BY <1>0
  <1>2. t.pc \in {"children", "jobs"} /\ t.inst \in Instances /\ ~t.rest /\ t.todo = {}
    BY <1>0, <1>1 DEF AwaitChildren, DeleteJobs, At, Fits, Knowing, BeforeList, Cleaning
  <1>3. PICK pc \in {"jobs", "list"} : Goto(p, pc)
    BY DEF AwaitChildren, DeleteJobs
  <1>4. PICK u \in Tasks : u = [t EXCEPT !.pc = pc]
    BY DEF Tasks, DeleteSteps, AfterCr
  <1>5. u.pc = pc /\ u.inst = t.inst /\ ~u.rest /\ u.todo = {} /\ u.lateCrs = t.lateCrs
    BY <1>2, <1>4 DEF Tasks
  <1>6. Knowing(u) /\ Unshared(u) /\ u.pc \notin AfterList
    BY <1>2, <1>5 DEF Knowing, Unshared, Cleaning, AfterList
  <1>7. Set(p, u) /\ t.pc \in AfterCr /\ u.pc # "deleteRgd"
    BY <1>1, <1>2, <1>3, <1>4, <1>5 DEF Goto, AfterCr
  <1>8. task' \in [Processes -> Tasks] /\ Fits(task[p])'
    BY <1>0, <1>1, <1>5, <1>6, <1>7, GoesOn
  <1> QED
    BY <1>0, <1>8 DEF OperationTypes

\* The list of instances: what it found is not shared, what it did not find
\* was posted afterwards.
LEMMA OwnList ==
  ASSUME TeardownInv, NEW p \in Processes, ListInstances(p)
  PROVE  OperationTypes' /\ Fits(task[p])'
  <1>0. /\ OperationTypes /\ Fits(task[p]) /\ task \in [Processes -> Tasks]
        /\ UNCHANGED <<knows, result, deploys, faults, cr, owned>>
    BY TypeParts DEF TeardownInv, OperationTypes, ListInstances, cluster
  <1>1. PICK t \in Tasks : t = task[p]
    BY <1>0
  <1>2. /\ t.pc = "list" /\ t.inst \in Instances /\ t.todo = {}
        /\ Exists(t.inst) => t.inst \in t.lateCrs
    BY <1>0, <1>1 DEF ListInstances, At, Fits, Knowing, Told, BeforeList, AfterCr
  <1> DEFINE rest == Remaining(t.inst) # {}
  <1> rest \in BOOLEAN
    OBVIOUS
  <1>3. rest <=> \E j \in Instances \ {t.inst} : Exists(j)
    BY DEF Remaining
  <1> HIDE DEF rest
  <1>4. PICK s \in Tasks : s = [t EXCEPT !.pc = "gate", !.phase = "own",
                                         !.lateCrs = @ \cap {t.inst}, !.rest = rest]
    BY DEF Tasks, DeleteSteps, AfterCr
  <1>5. /\ s.pc = "gate" /\ s.phase = "own" /\ s.inst = t.inst /\ s.rest = rest
        /\ s.todo = {} /\ s.lateCrs = t.lateCrs \cap {t.inst}
    BY <1>2, <1>4 DEF Tasks
  <1>6. PICK u \in Tasks :
            /\ Set(p, u)
            /\ u.pc = "gate" /\ u.phase = "own" /\ u.inst = t.inst /\ u.rest = rest
            /\ u.lateCrs = s.lateCrs /\ u.todo \subseteq t.names \ Shared(t)
    <2>1. CASE t.names # {} /\ \E j \in Remaining(t.inst) : ~record[j]
      <3>1. PICK u \in Tasks : u = [s EXCEPT !.retained = t.names, !.blocked = {Unproven}]
        BY DEF Tasks
      <3>2. Set(p, u)
        BY <1>1, <1>4, <2>1, <3>1 DEF ListInstances, rest
      <3>3. /\ u.pc = s.pc /\ u.phase = s.phase /\ u.inst = s.inst /\ u.rest = s.rest
            /\ u.lateCrs = s.lateCrs /\ u.todo = s.todo
        BY <3>1 DEF Tasks
      <3> QED
        BY <1>5, <3>2, <3>3
    <2>2. CASE ~(t.names # {} /\ \E j \in Remaining(t.inst) : ~record[j])
      <3>1. Shared(t) \subseteq Namespaces /\ t.names \ Shared(t) \subseteq Namespaces
        BY DEF Shared, Tasks
      <3>2. PICK u \in Tasks : u = [s EXCEPT !.retained = Shared(t),
                                            !.todo = t.names \ Shared(t)]
        BY <3>1 DEF Tasks
      <3>3. Set(p, u)
        BY <1>1, <1>4, <2>2, <3>2 DEF ListInstances, rest
      <3>4. /\ u.pc = s.pc /\ u.phase = s.phase /\ u.inst = s.inst /\ u.rest = s.rest
            /\ u.lateCrs = s.lateCrs /\ u.todo = t.names \ Shared(t)
        BY <3>2 DEF Tasks
      <3> QED
        BY <1>5, <3>3, <3>4
    <2> QED
      BY <2>1, <2>2
  <1>7. task' \in [Processes -> Tasks] /\ task'[p] = u
    BY <1>0, <1>6, SetType
  <1>8. Knowing(u)
    BY <1>2, <1>6 DEF Knowing, BeforeList, Cleaning
  <1>9. \A i : Exists(i)' <=> Exists(i)
    BY <1>0 DEF Exists
  <1>10. Told(u)'
    <2>1. Exists(u.inst) => u.inst \in u.lateCrs
      BY <1>2, <1>5, <1>6
    <2>2. ~u.rest => \A i \in Instances : Exists(i) => i \in u.lateCrs
      BY <1>3, <1>6, <2>1
    <2> QED
      BY <1>6, <1>9, <2>1, <2>2 DEF Told
  <1>11. Unshared(u)'
    <2> SUFFICES ASSUME NEW i \in Instances \ u.lateCrs, Exists(i)
                 PROVE  u.todo \cap HoistedBy[i] = {}
      BY <1>6, <1>9 DEF Unshared
    <2>1. i # t.inst
      BY <1>2, <1>5, <1>6
    <2>2. i \in Remaining(t.inst)
      BY <2>1 DEF Remaining
    <2>3. t.names \cap HoistedBy[i] \subseteq Shared(t)
      BY <2>2 DEF Shared
    <2> QED
      BY <1>6, <2>3
  <1>12. Fits(u)'
    BY <1>8, <1>10, <1>11 DEF Fits, Knowing
  <1> QED
    BY <1>0, <1>7, <1>12 DEF OperationTypes

\* The fields of the results of the gate
LEMMA GateTasks ==
  ASSUME NEW t \in Tasks, NEW n \in Namespaces
  PROVE  /\ Deleted(t, n) \in Tasks
         /\ Deleted(t, n).pc = "gate" /\ Deleted(t, n).inst = t.inst
         /\ Deleted(t, n).rest = t.rest /\ Deleted(t, n).phase = t.phase
         /\ Deleted(t, n).lateCrs = t.lateCrs /\ Deleted(t, n).todo = t.todo \ {n}
         /\ Retained(t, n) \in Tasks
         /\ Retained(t, n).pc = t.pc /\ Retained(t, n).inst = t.inst
         /\ Retained(t, n).rest = t.rest /\ Retained(t, n).phase = t.phase
         /\ Retained(t, n).lateCrs = t.lateCrs /\ Retained(t, n).todo = t.todo \ {n}
  BY DEF Tasks, Deleted, Retained, DeleteSteps, AfterCr

\* A step among the Namespaces adds none to those that are to be deleted.
LEMMA CleaningGoesOn ==
  ASSUME TeardownInv, NEW p \in Processes, NEW t \in Tasks, t = task[p],
         NEW u \in Tasks, Set(p, u), cr' = cr, owned' \subseteq owned,
         t.pc \in Cleaning, u.pc \in Cleaning, u.inst = t.inst, u.lateCrs = t.lateCrs,
         u.rest = t.rest, u.phase = t.phase, u.todo \subseteq t.todo,
         u.pc = "awaitNs" => u.cur \in Namespaces,
         u.pc = "deleteNs" =>
             /\ u.cur \in t.todo
             /\ \A i \in Instances : Exists(i) => u.cur # Home[i]
  PROVE  task' \in [Processes -> Tasks] /\ Fits(task[p])'
  <1>0. Fits(t)
    BY DEF TeardownInv
  <1>1. Knowing(u)
    <2>1. t.todo \subseteq Namespaces /\ t.inst \in Instances
      BY <1>0, TaskFields DEF Fits, Knowing, Cleaning
    <2> QED
      BY <1>0, <2>1 DEF Fits, Knowing, Cleaning, BeforeList
  <1>2. Unshared(u)
    <2> SUFFICES ASSUME NEW i \in Instances \ u.lateCrs, Exists(i)
                 PROVE  /\ u.phase = "own" => u.todo \cap HoistedBy[i] = {}
                        /\ u.pc = "deleteNs" => u.cur \notin HoistedBy[i] \cup {Home[i]}
      BY DEF Unshared
    <2>1. t.phase = "own" => t.todo \cap HoistedBy[i] = {}
      BY <1>0 DEF Fits, Unshared
    <2>2. t.phase = "own"
      BY <1>0 DEF Fits, Told, Knowing, AfterList, AfterCr, Cleaning
    <2> QED
      BY <2>1, <2>2
  <1>3. t.pc \in AfterCr /\ t.pc \in AfterList /\ u.pc # "deleteRgd"
    BY DEF Cleaning, AfterCr, AfterList
  <1> QED
    BY <1>1, <1>2, <1>3, GoesOn

LEMMA OwnGate ==
  ASSUME TeardownInv, NEW p \in Processes, NEW n \in Namespaces, GateRead(p, n) \/ GateFails(p, n)
  PROVE  OperationTypes' /\ Fits(task[p])'
  <1>0. /\ OperationTypes /\ Fits(task[p]) /\ task \in [Processes -> Tasks]
        /\ UNCHANGED <<knows, result, deploys, cr, owned>>
    BY TypeParts DEF TeardownInv, OperationTypes, GateRead, GateFails, cluster
  <1>1. PICK t \in Tasks : t = task[p]
    BY <1>0
  <1>2. t.pc = "gate" /\ n \in t.todo
    BY <1>1 DEF GateRead, GateFails, At
  <1>3. faults' \in 0..MaxFaults
    BY <1>0, FaultType DEF GateRead, GateFails, OperationTypes
  <1>4. ASSUME NEW u \in Tasks, Set(p, u), u.pc = "gate", u.inst = t.inst, u.rest = t.rest,
               u.phase = t.phase, u.lateCrs = t.lateCrs, u.todo = t.todo \ {n}
        PROVE  task' \in [Processes -> Tasks] /\ Fits(task[p])'
    BY <1>0, <1>1, <1>2, <1>4, CleaningGoesOn DEF Cleaning
  <1>5. ASSUME Set(p, Deleted(t, n)) PROVE task' \in [Processes -> Tasks] /\ Fits(task[p])'
    BY <1>4, <1>5, GateTasks
  <1>6. ASSUME Set(p, Retained(t, n)) PROVE task' \in [Processes -> Tasks] /\ Fits(task[p])'
    BY <1>2, <1>4, <1>6, GateTasks
  <1>7. PICK r \in Tasks : /\ r = Retained(t, n)
                           /\ r.pc = "gate" /\ r.inst = t.inst /\ r.rest = t.rest
                           /\ r.phase = t.phase /\ r.lateCrs = t.lateCrs /\ r.todo = t.todo \ {n}
    BY <1>2, GateTasks
  <1>8. ASSUME NEW K \in SUBSET Namespaces, Set(p, [r EXCEPT !.kept = K])
        PROVE  task' \in [Processes -> Tasks] /\ Fits(task[p])'
    <2>1. PICK u \in Tasks : u = [r EXCEPT !.kept = K]
      BY DEF Tasks
    <2>2. /\ u.pc = r.pc /\ u.inst = r.inst /\ u.rest = r.rest /\ u.phase = r.phase
          /\ u.lateCrs = r.lateCrs /\ u.todo = r.todo
      BY <2>1 DEF Tasks
    <2> QED
      BY <1>4, <1>7, <1>8, <2>1, <2>2
  <1>9. ASSUME NEW K \in SUBSET (Namespaces \cup {Unproven}), Set(p, [r EXCEPT !.blocked = K])
        PROVE  task' \in [Processes -> Tasks] /\ Fits(task[p])'
    <2>1. PICK u \in Tasks : u = [r EXCEPT !.blocked = K]
      BY DEF Tasks
    <2>2. /\ u.pc = r.pc /\ u.inst = r.inst /\ u.rest = r.rest /\ u.phase = r.phase
          /\ u.lateCrs = r.lateCrs /\ u.todo = r.todo
      BY <2>1 DEF Tasks
    <2> QED
      BY <1>4, <1>7, <1>9, <2>1, <2>2
  <1>10. ASSUME Set(p, [t EXCEPT !.pc = "deleteNs", !.cur = n]), ~Occupied(n)
         PROVE  task' \in [Processes -> Tasks] /\ Fits(task[p])'
    <2>1. PICK u \in Tasks : u = [t EXCEPT !.pc = "deleteNs", !.cur = n]
      BY DEF Tasks, DeleteSteps, AfterCr
    <2>2. /\ u.pc = "deleteNs" /\ u.cur = n /\ u.inst = t.inst /\ u.rest = t.rest
          /\ u.phase = t.phase /\ u.lateCrs = t.lateCrs /\ u.todo = t.todo
      BY <2>1 DEF Tasks
    <2>3. \A i \in Instances : Exists(i) => u.cur # Home[i]
      BY <1>10, <2>2 DEF Occupied
    <2>4. /\ Set(p, u) /\ u.todo \subseteq t.todo /\ u.cur \in t.todo /\ u.pc # "awaitNs"
          /\ t.pc \in Cleaning /\ u.pc \in Cleaning
      BY <1>2, <1>10, <2>1, <2>2 DEF Cleaning
    <2> QED
      BY <1>0, <1>1, <2>2, <2>3, <2>4, CleaningGoesOn
  <1>11. task' \in [Processes -> Tasks] /\ Fits(task[p])'
    <2>1. CASE GateFails(p, n)
      <3>1. PICK K \in SUBSET (Namespaces \cup {Unproven}) : K = r.blocked \cup {n}
        BY TaskFields
      <3>2. Set(p, [r EXCEPT !.blocked = K])
        BY <1>1, <1>7, <2>1, <3>1 DEF GateFails
      <3> QED
        BY <1>9, <3>2
    <2>2. CASE GateRead(p, n) /\ ns[n] = "absent"
      <3>1. n \notin owned
        BY <2>2, TypeParts DEF TeardownInv, NamespaceTypes
      <3> QED
        BY <1>1, <1>5, <2>2, <3>1 DEF GateRead
    <2>3. CASE GateRead(p, n) /\ ns[n] # "absent" /\ n \notin owned
      BY <1>1, <1>6, <2>3 DEF GateRead
    <2>4. CASE GateRead(p, n) /\ ns[n] # "absent" /\ n \in owned /\ Occupied(n)
      <3>1. PICK K \in SUBSET Namespaces :
                K = IF Draining(t) THEN r.kept ELSE r.kept \cup {n}
        BY TaskFields
      <3>2. Set(p, [r EXCEPT !.kept = K])
        BY <1>1, <1>7, <2>4, <3>1 DEF GateRead
      <3> QED
        BY <1>8, <3>2
    <2>5. CASE GateRead(p, n) /\ ns[n] # "absent" /\ n \in owned /\ ~Occupied(n)
      BY <1>1, <1>10, <2>5 DEF GateRead
    <2> QED
      BY <2>1, <2>2, <2>3, <2>4, <2>5
  <1> QED
    BY <1>0, <1>3, <1>11 DEF OperationTypes

LEMMA OwnDeleteNs ==
  ASSUME TeardownInv, NEW p \in Processes, DeleteNs(p) \/ AwaitNs(p)
  PROVE  OperationTypes' /\ Fits(task[p])'
  <1>0. /\ OperationTypes /\ Fits(task[p]) /\ task \in [Processes -> Tasks]
        /\ UNCHANGED <<knows, result, deploys, faults, cr, owned>>
    BY TypeParts DEF TeardownInv, OperationTypes, DeleteNs, AwaitNs, cluster
  <1>1. PICK t \in Tasks : t = task[p]
    BY <1>0
  <1>2. t.pc \in {"deleteNs", "awaitNs"} /\ t.cur \in Namespaces
    BY <1>0, <1>1 DEF DeleteNs, AwaitNs, At, Fits, Knowing
  <1>3. CASE DeleteNs(p)
    <2>1. PICK u \in Tasks : u = [t EXCEPT !.pc = "awaitNs"]
      BY DEF Tasks, DeleteSteps, AfterCr
    <2>2. /\ u.pc = "awaitNs" /\ u.cur = t.cur /\ u.inst = t.inst /\ u.rest = t.rest
          /\ u.phase = t.phase /\ u.lateCrs = t.lateCrs /\ u.todo = t.todo
      BY <2>1 DEF Tasks
    <2>3. Set(p, u)
      BY <1>1, <1>3, <2>1 DEF DeleteNs, Goto
    <2>4. task' \in [Processes -> Tasks] /\ Fits(task[p])'
      BY <1>0, <1>1, <1>2, <2>2, <2>3, CleaningGoesOn DEF Cleaning
    <2> QED
      BY <1>0, <2>4 DEF OperationTypes
  <1>4. CASE AwaitNs(p)
    <2>1. PICK u \in Tasks :
              /\ u = Deleted(t, t.cur) /\ u.pc = "gate" /\ u.inst = t.inst /\ u.rest = t.rest
              /\ u.phase = t.phase /\ u.lateCrs = t.lateCrs /\ u.todo = t.todo \ {t.cur}
      BY <1>2, GateTasks
    <2>2. Set(p, u)
      BY <1>1, <1>4, <2>1 DEF AwaitNs
    <2>3. task' \in [Processes -> Tasks] /\ Fits(task[p])'
      BY <1>0, <1>1, <1>2, <2>1, <2>2, CleaningGoesOn DEF Cleaning
    <2> QED
      BY <1>0, <2>3 DEF OperationTypes
  <1> QED
    BY <1>3, <1>4

\* A step of the last deletion away from the Namespaces of its instance
LEMMA LastGoesOn ==
  ASSUME TeardownInv, NEW p \in Processes, NEW t \in Tasks, t = task[p],
         NEW u \in Tasks, Set(p, u), cr' = cr, owned' \subseteq owned,
         t.pc \in AfterList, ~t.rest, u.inst = t.inst, u.lateCrs = t.lateCrs, ~u.rest,
         u.pc \in {"gate", "sweep", "confirm", "deleteRgd", "awaitRgd"},
         u.pc = "gate" => u.phase # "own",
         u.pc = "deleteRgd" => owned \subseteq u.lateNs
  PROVE  task' \in [Processes -> Tasks] /\ Fits(task[p])'
  <1>0. Fits(t)
    BY DEF TeardownInv
  <1>1. t.inst \in Instances
    BY <1>0 DEF Fits, Knowing, AfterList, AfterCr
  <1>2. Knowing(u) /\ Unshared(u)
    BY <1>1 DEF Knowing, Unshared, BeforeList, Cleaning
  <1>3. t.pc \in AfterCr
    BY DEF AfterList
  <1> QED
    BY <1>2, <1>3, GoesOn

LEMMA OwnLast ==
  ASSUME TeardownInv, NEW p \in Processes,
         \/ Goto(p, "sweep") /\ (ProveRgd(p) \/ Gated(p))
         \/ Goto(p, "confirm") /\ Gated(p)
         \/ Sweep(p) \/ DeleteRgd(p)
         \/ Confirm(p) /\ UNCHANGED result,
         UNCHANGED result
  PROVE  OperationTypes' /\ Fits(task[p])'
  <1>0. /\ OperationTypes /\ Fits(task[p]) /\ task \in [Processes -> Tasks]
        /\ UNCHANGED <<knows, deploys, faults, cr, owned>>
    BY TypeParts DEF TeardownInv, OperationTypes, ProveRgd, Gated, Sweep, DeleteRgd, Confirm,
      cluster
  <1>1. PICK t \in Tasks : t = task[p]
    BY <1>0
  <1>2. Knowing(t) /\ t.drains \in 0..MaxDrains
    BY <1>0, <1>1, TaskFields DEF Fits
  <1>3. ASSUME NEW u \in Tasks, Set(p, u), t.pc \in AfterList, ~t.rest, u.inst = t.inst,
               u.lateCrs = t.lateCrs, u.rest = t.rest,
               u.pc \in {"gate", "sweep", "confirm", "deleteRgd", "awaitRgd"},
               u.pc = "gate" => u.phase # "own",
               u.pc = "deleteRgd" => owned \subseteq u.lateNs
        PROVE  OperationTypes' /\ Fits(task[p])'
    <2>1. task' \in [Processes -> Tasks] /\ Fits(task[p])'
      BY <1>0, <1>1, <1>3, LastGoesOn
    <2> QED
      BY <1>0, <2>1 DEF OperationTypes
  <1>4. ASSUME NEW pc \in {"sweep", "confirm", "awaitRgd"}, Goto(p, pc), t.pc \in AfterList,
               ~t.rest
        PROVE  OperationTypes' /\ Fits(task[p])'
    <2>1. PICK u \in Tasks : u = [t EXCEPT !.pc = pc]
      BY DEF Tasks, DeleteSteps, AfterCr
    <2>2. u.pc = pc /\ u.inst = t.inst /\ u.rest = t.rest /\ u.lateCrs = t.lateCrs
      BY <2>1 DEF Tasks
    <2>3. Set(p, u)
      BY <1>1, <1>4, <2>1 DEF Goto
    <2> QED
      BY <1>3, <1>4, <2>2, <2>3
  <1>5. CASE Goto(p, "sweep") /\ ProveRgd(p)
    <2>1. t.pc = "proveRgd"
      BY <1>1, <1>5 DEF ProveRgd, At
    <2>2. t.pc \in AfterList /\ ~t.rest
      BY <1>2, <2>1 DEF Knowing, AfterList, AfterCr, Cleaning
    <2> QED
      BY <1>4, <1>5, <2>2
  <1>6. CASE Goto(p, "sweep") /\ Gated(p)
    <2>1. t.pc = "gate" /\ (t.phase = "own" => ~t.rest)
      <3>1. t.phase = "own" /\ t.rest => Return(p, Verdict(t), t.retained, "shared")
        BY <1>1, <1>6 DEF Gated, Last
      <3>2. ~Return(p, Verdict(t), t.retained, "shared")
        <4>1. ASSUME Set(p, Idle) PROVE FALSE
          <5>1. task'[p] = Idle
            BY <1>0, <4>1, IdleType, SetType
          <5>2. task'[p].pc = "sweep"
            BY <1>0, <1>1, <1>6 DEF Goto, Set, Tasks
          <5> QED
            BY <5>1, <5>2, IdleType
        <4> QED
          BY <4>1 DEF Return
      <3> QED
        BY <1>1, <1>6, <3>1, <3>2 DEF Gated, At
    <2>2. t.pc \in AfterList /\ ~t.rest
      BY <1>2, <2>1 DEF Knowing, AfterList, AfterCr
    <2> QED
      BY <1>4, <1>6, <2>2
  <1>7. CASE Goto(p, "confirm") /\ Gated(p)
    <2>1. t.pc = "gate" /\ t.phase # "own"
      <3>1. task'[p].pc = "confirm"
        BY <1>0, <1>1, <1>7 DEF Goto, Set, Tasks
      <3>2. ASSUME Set(p, Idle) PROVE FALSE
        BY <1>0, <3>1, <3>2, IdleType, SetType
      <3>3. ASSUME Goto(p, "sweep") PROVE FALSE
        <4>1. task'[p].pc = "sweep"
          BY <1>0, <1>1, <3>3 DEF Goto, Set, Tasks
        <4> QED
          BY <3>1, <4>1
      <3> QED
        BY <1>1, <1>7, <3>2, <3>3 DEF Gated, At, Return
    <2>2. t.pc \in AfterList /\ ~t.rest
      BY <1>2, <2>1 DEF Knowing, AfterList, AfterCr
    <2> QED
      BY <1>4, <1>7, <2>2
  <1>8. CASE Sweep(p)
    <2>1. t.pc = "sweep"
      BY <1>1, <1>8 DEF Sweep, At
    <2>2. t.pc \in AfterList /\ ~t.rest
      BY <1>2, <2>1 DEF Knowing, AfterList, AfterCr, Cleaning
    <2>3. PICK O \in SUBSET Namespaces : O = owned
      BY TypeParts DEF TeardownInv, NamespaceTypes
    <2>4. PICK u \in Tasks : u = [t EXCEPT !.pc = "gate", !.phase = "sweep", !.todo = O]
      BY DEF Tasks, DeleteSteps, AfterCr
    <2>5. /\ u.pc = "gate" /\ u.phase = "sweep" /\ u.inst = t.inst /\ u.rest = t.rest
          /\ u.lateCrs = t.lateCrs
      BY <2>4 DEF Tasks
    <2>6. Set(p, u)
      BY <1>1, <1>8, <2>3, <2>4 DEF Sweep
    <2> QED
      BY <1>3, <2>2, <2>5, <2>6
  <1>9. CASE DeleteRgd(p)
    <2>1. t.pc = "deleteRgd" /\ Goto(p, "awaitRgd")
      BY <1>1, <1>9 DEF DeleteRgd, At
    <2>2. t.pc \in AfterList /\ ~t.rest
      BY <1>2, <2>1 DEF Knowing, AfterList, AfterCr, Cleaning
    <2> QED
      BY <1>4, <2>1, <2>2
  <1>10. CASE Confirm(p)
    <2>1. t.pc = "confirm"
      BY <1>1, <1>10 DEF Confirm, At
    <2>2. t.pc \in AfterList /\ ~t.rest
      BY <1>2, <2>1 DEF Knowing, AfterList, AfterCr, Cleaning
    <2>3. CASE owned = {} /\ Set(p, [t EXCEPT !.pc = "deleteRgd", !.lateNs = {}])
      <3>1. PICK u \in Tasks : u = [t EXCEPT !.pc = "deleteRgd", !.lateNs = {}]
        BY DEF Tasks, DeleteSteps, AfterCr
      <3>2. /\ u.pc = "deleteRgd" /\ u.inst = t.inst /\ u.rest = t.rest
            /\ u.lateCrs = t.lateCrs
        BY <3>1 DEF Tasks
      <3> QED
        BY <1>3, <2>2, <2>3, <3>1, <3>2
    <2>4. CASE /\ t.drains < MaxDrains
               /\ Set(p, [t EXCEPT !.pc = "gate", !.phase = "drain",
                             !.todo = owned \ t.kept, !.drains = @ + 1])
      <3>1. PICK O \in SUBSET Namespaces : O = owned \ t.kept
        BY TypeParts DEF TeardownInv, NamespaceTypes
      <3>2. PICK d \in 0..MaxDrains : d = t.drains + 1
        BY <1>2, <2>4, TeardownBounds
      <3>3. PICK u \in Tasks : u = [t EXCEPT !.pc = "gate", !.phase = "drain", !.todo = O,
                                             !.drains = d]
        BY DEF Tasks, DeleteSteps, AfterCr
      <3>4. /\ u.pc = "gate" /\ u.phase = "drain" /\ u.inst = t.inst /\ u.rest = t.rest
            /\ u.lateCrs = t.lateCrs
        BY <3>3 DEF Tasks
      <3>5. Set(p, u)
        BY <2>4, <3>1, <3>2, <3>3
      <3> QED
        BY <1>3, <2>2, <3>4, <3>5
    <2>5. CASE Set(p, Idle)
      <3>1. task' \in [Processes -> Tasks] /\ Fits(task[p])'
        BY <1>0, <2>5, EndStep
      <3> QED
        BY <1>0, <3>1 DEF OperationTypes
    <2> QED
      BY <1>1, <1>10, <2>3, <2>4, <2>5 DEF Confirm, StillOwned, Waits, Return
  <1> QED
    BY <1>5, <1>6, <1>7, <1>8, <1>9, <1>10

LEMMA OwnReturn ==
  ASSUME TeardownInv, NEW p \in Processes, NEW status \in Statuses,
         NEW keep \in SUBSET Namespaces, NEW policy \in {"none", "shared", "occupied"},
         Return(p, status, keep, policy), UNCHANGED <<knows, deploys>>,
         UNCHANGED faults \/ Fault
  PROVE  OperationTypes' /\ Fits(task[p])'
  <1>1. OperationTypes
    BY TypeParts DEF TeardownInv
  <1>2. faults' \in 0..MaxFaults
    BY <1>1, FaultType DEF OperationTypes
  <1> QED
    BY <1>1, <1>2, ReturnStep

LEMMA OwnDeleting ==
  ASSUME TeardownInv, NEW p \in Processes, Deleting(p) \/ Interrupt(p)
  PROVE  OperationTypes' /\ Fits(task[p])'
  <1>0. OperationTypes /\ NamespaceTypes /\ task[p] \in Tasks
    BY TypeParts DEF TeardownInv, OperationTypes
  <1>1. /\ {"complete", "progressing", "blocked", "failed"} \subseteq Statuses
        /\ {} \in SUBSET Namespaces /\ task[p].retained \in SUBSET Namespaces
        /\ task[p].names \in SUBSET Namespaces
        /\ task[p].retained \cup owned \in SUBSET Namespaces
        /\ Verdict(task[p]) \in Statuses
    BY <1>0, TaskFields DEF Statuses, NamespaceTypes, Verdict
  <1>2. ASSUME DeleteStops(p) \/ Interrupt(p) PROVE OperationTypes' /\ Fits(task[p])'
    <2>1. PICK status \in Statuses : GiveUp(p, status)
      BY <1>1, <1>2 DEF DeleteStops, Interrupt
    <2> QED
      BY <1>0, <2>1, GiveUpStep
  <1>3. ASSUME ProveCrd(p) PROVE OperationTypes' /\ Fits(task[p])'
    <2>1. CASE crd
      BY <1>1, <1>3, <2>1, OwnReturn DEF ProveCrd
    <2>2. CASE ~crd
      BY <1>3, <2>2, OwnGone
    <2> QED
      BY <2>1, <2>2
  <1>4. ASSUME ProveRgd(p) PROVE OperationTypes' /\ Fits(task[p])'
    <2>1. CASE rgd # "absent"
      BY <1>1, <1>4, <2>1, OwnReturn DEF ProveRgd
    <2>2. CASE rgd = "absent"
      BY <1>4, <2>2, OwnLast DEF ProveRgd
    <2> QED
      BY <2>1, <2>2
  <1>5. ASSUME ListFails(p) PROVE OperationTypes' /\ Fits(task[p])'
    BY <1>1, <1>5, OwnReturn DEF ListFails
  <1>6. ASSUME Gated(p) PROVE OperationTypes' /\ Fits(task[p])'
    <2>1. CASE Goto(p, "confirm") /\ UNCHANGED result
      BY <1>6, <2>1, OwnLast
    <2>2. CASE Goto(p, "sweep") /\ UNCHANGED result
      BY <1>6, <2>2, OwnLast
    <2>3. CASE Return(p, Verdict(task[p]), task[p].retained, "shared")
      BY <1>1, <1>6, <2>3, OwnReturn DEF Gated
    <2> QED
      BY <1>6, <2>1, <2>2, <2>3 DEF Gated
  <1>7. ASSUME Confirm(p) PROVE OperationTypes' /\ Fits(task[p])'
    <2>1. CASE UNCHANGED result
      BY <1>7, <2>1, OwnLast
    <2>2. CASE Return(p, Verdict(task[p]), task[p].retained \cup owned, "occupied")
      BY <1>1, <1>7, <2>2, OwnReturn DEF Confirm
    <2> QED
      BY <1>7, <2>1, <2>2 DEF Confirm, StillOwned
  <1>8. ASSUME Sweep(p) \/ DeleteRgd(p) PROVE OperationTypes' /\ Fits(task[p])'
    BY <1>8, OwnLast DEF Sweep, DeleteRgd
  <1>9. ASSUME AwaitRgd(p) PROVE OperationTypes' /\ Fits(task[p])'
    BY <1>1, <1>9, OwnReturn DEF AwaitRgd
  <1> QED
    BY <1>2, <1>3, <1>4, <1>5, <1>6, <1>7, <1>8, <1>9, OwnLookup, OwnGone, OwnWaits, OwnList,
       OwnGate, OwnDeleteNs
    DEF Deleting

\* The steps that no one is told of
LEMMA Unannounced ==
  ASSUME TeardownInv, NEW p \in Processes,
         \/ \E i \in Instances : StartDeploy(p, i) \/ StartDelete(p, i)
         \/ Deleting(p) \/ Interrupt(p)
         \/ Deploying(p) /\ ~DeployCr(p) /\ ~HoistPatch(p) /\ \A n \in Namespaces : ~Hoist(p, n)
  PROVE  /\ \A q \in Processes \ {p} : task'[q] = task[q]
         /\ \A i \in Instances : Exists(i)' => Exists(i)
         /\ owned' = owned
  <1>0. /\ task \in [Processes -> Tasks]
        /\ cr \in [Instances -> {"absent", "posted", "managed", "terminating"}]
    BY TypeParts DEF TeardownInv, OperationTypes, ClusterTypes
  <1>1. ASSUME NEW t, Set(p, t) PROVE \A q \in Processes \ {p} : task'[q] = task[q]
    BY <1>0, <1>1 DEF Set
  <1>2. ASSUME NEW i \in Instances, StartDeploy(p, i) \/ StartDelete(p, i)
        PROVE  (\E t : Set(p, t)) /\ cr' = cr /\ owned' = owned
    BY <1>2 DEF StartDeploy, StartDelete, cluster
  <1>3. ASSUME Check(p) \/ DeployRgd(p) \/ DeployCrd(p) \/ DeployHome(p) \/ HoistRead(p)
               \/ Hoisted(p) \/ DeployFails(p)
        PROVE  (\E t : Set(p, t)) /\ cr' = cr /\ owned' = owned
    BY <1>3 DEF Check, DeployRgd, DeployCrd, DeployHome, HoistRead, Hoisted, DeployFails,
      EndDeploy, Return, Goto, cluster
  <1>4. ASSUME Lookup(p) \/ ProveCrd(p) \/ ProveRgd(p) \/ ReadCr(p) \/ AwaitCr(p)
               \/ AwaitChildren(p) \/ DeleteJobs(p) \/ ListInstances(p) \/ ListFails(p)
        PROVE  (\E t : Set(p, t)) /\ cr' = cr /\ owned' = owned
    BY <1>4 DEF Lookup, ProveCrd, ProveRgd, ReadCr, AwaitCr, AwaitChildren, DeleteJobs,
      ListInstances, ListFails, Return, Goto, cluster
  <1>5. ASSUME \/ \E n \in Namespaces : GateRead(p, n) \/ GateFails(p, n)
               \/ DeleteNs(p) \/ AwaitNs(p) \/ Gated(p) \/ Sweep(p)
        PROVE  (\E t : Set(p, t)) /\ cr' = cr /\ owned' = owned
    BY <1>5 DEF GateRead, GateFails, DeleteNs, AwaitNs, Gated, Sweep, Return, Goto, cluster
  <1>6. ASSUME Confirm(p) \/ DeleteRgd(p) \/ AwaitRgd(p) \/ DeleteStops(p) \/ Interrupt(p)
        PROVE  (\E t : Set(p, t)) /\ cr' = cr /\ owned' = owned
    BY <1>6 DEF Confirm, DeleteRgd, AwaitRgd, DeleteStops, Interrupt, GiveUp, Return, Goto,
      cluster
  <1>7. ASSUME DeleteCr(p)
        PROVE  (\E t : Set(p, t)) /\ owned' = owned /\ \A i \in Instances : Exists(i)' => Exists(i)
    <2>1. cr' = [cr EXCEPT ![task[p].inst] = CrDeleted(@)] /\ owned' = owned
      BY <1>7 DEF DeleteCr
    <2>2. \A i \in Instances : cr'[i] = cr[i] \/ cr'[i] = CrDeleted(cr[i])
      BY <1>0, <2>1
    <2>3. CrDeleted("absent") = "absent"
      BY DEF CrDeleted
    <2> QED
      BY <1>7, <2>1, <2>2, <2>3 DEF DeleteCr, Goto, Exists
  <1>8. cr' = cr => \A i \in Instances : Exists(i)' => Exists(i)
    BY DEF Exists
  <1> QED
    BY <1>1, <1>2, <1>3, <1>4, <1>5, <1>6, <1>7, <1>8 DEF Deploying, Deleting

LEMMA ClusterFrame ==
  ASSUME TeardownInv, Cluster
  PROVE  /\ UNCHANGED <<task, knows, result, deploys, faults>>
         /\ \A i \in Instances : Exists(i)' => Exists(i)
         /\ owned' \subseteq owned
  <1>0. cr \in [Instances -> {"absent", "posted", "managed", "terminating"}]
    BY TypeParts DEF TeardownInv, ClusterTypes
  <1>1. UNCHANGED <<task, knows, result, deploys, faults>> /\ owned' \subseteq owned
    BY DEF Cluster, KroServe, KroRgdGone, CollectCrd, KroManage, KroCreate, KroFinalize,
      ChildGone, PodsGone, NsEvict, NsGone, Occupy, Vacate
  <1>2. ASSUME NEW i \in Instances, KroManage(i) \/ KroFinalize(i) \/ NsEvict(i)
        PROVE  \A j \in Instances : Exists(j)' => Exists(j)
    <2>1. cr[i] # "absent" /\ \E v : cr' = [cr EXCEPT ![i] = v]
      BY <1>2 DEF KroManage, KroFinalize, NsEvict
    <2> QED
      BY <1>0, <2>1 DEF Exists
  <1>3. CASE cr' = cr
    BY <1>1, <1>3 DEF Exists
  <1>4. \/ cr' = cr
        \/ \E i \in Instances : KroManage(i) \/ KroFinalize(i) \/ NsEvict(i)
    BY DEF Cluster, KroServe, KroRgdGone, CollectCrd, KroCreate, ChildGone, PodsGone, NsGone,
      Occupy, Vacate
  <1> QED
    BY <1>1, <1>2, <1>3, <1>4

\* Whoever acts, every operation keeps what it knows.
LEMMA OperationsStep ==
  ASSUME TeardownInv, Next
  PROVE  OperationTypes' /\ Announced /\ \A p \in Processes : Fits(task[p])'
  <1>0. OperationTypes /\ task \in [Processes -> Tasks] /\ \A q \in Processes : Fits(task[q])
    BY TypeParts DEF TeardownInv, OperationTypes
  <1>1. ASSUME NEW p \in Processes, OperationTypes', Fits(task[p])', Announced,
               \A q \in Processes \ {p} : Same(task[q], task'[q])
        PROVE  OperationTypes' /\ Announced /\ \A q \in Processes : Fits(task[q])'
    BY <1>0, <1>1, SameKeeps
  <1>2. ASSUME NEW p \in Processes, OperationTypes', Fits(task[p])',
               \A q \in Processes \ {p} : task'[q] = task[q],
               \A i \in Instances : Exists(i)' => Exists(i), owned' = owned
        PROVE  OperationTypes' /\ Announced /\ \A q \in Processes : Fits(task[q])'
    <2>1. Announced
      BY <1>2, NothingNew
    <2>2. \A q \in Processes \ {p} : Same(task[q], task'[q])
      BY <1>0, <1>2, SameItself
    <2> QED
      BY <1>1, <1>2, <2>1, <2>2
  <1>3. ASSUME NEW p \in Processes, Deploying(p)
        PROVE  OperationTypes' /\ Announced /\ \A q \in Processes : Fits(task[q])'
    <2>1. CASE DeployCr(p)
      BY <1>1, <2>1, DeployCrStep
    <2>2. CASE HoistPatch(p)
      BY <1>1, <2>2, HoistPatchStep
    <2>3. CASE \E n \in Namespaces : Hoist(p, n)
      BY <1>1, <2>3, HoistStep
    <2>4. CASE ~DeployCr(p) /\ ~HoistPatch(p) /\ \A n \in Namespaces : ~Hoist(p, n)
      BY <1>2, <1>3, <2>4, OwnDeploying, Unannounced
    <2> QED
      BY <2>1, <2>2, <2>3, <2>4
  <1>4. ASSUME NEW p \in Processes, Deleting(p) \/ Interrupt(p)
        PROVE  OperationTypes' /\ Announced /\ \A q \in Processes : Fits(task[q])'
    BY <1>2, <1>4, OwnDeleting, Unannounced
  <1>5. ASSUME NEW p \in Processes, NEW i \in Instances, StartDeploy(p, i) \/ StartDelete(p, i)
        PROVE  OperationTypes' /\ Announced /\ \A q \in Processes : Fits(task[q])'
    BY <1>2, <1>5, OwnStart, Unannounced
  <1>6. ASSUME UNCHANGED task, OperationTypes', \A i \in Instances : Exists(i)' => Exists(i),
               owned' \subseteq owned
        PROVE  OperationTypes' /\ Announced /\ \A q \in Processes : Fits(task[q])'
    <2>1. Announced
      BY <1>6, NothingNew
    <2>2. \A q \in Processes : Same(task[q], task'[q])
      BY <1>0, <1>6, SameItself
    <2> QED
      BY <1>0, <1>6, <2>1, <2>2, SameKeeps
  <1>7. ASSUME NEW p \in Processes, Forget(p)
        PROVE  OperationTypes' /\ Announced /\ \A q \in Processes : Fits(task[q])'
    <2>1. OperationTypes'
      BY <1>0, <1>7, FaultType DEF Forget, OperationTypes
    <2>2. UNCHANGED <<task, cr, owned>>
      BY <1>7 DEF Forget, cluster
    <2> QED
      BY <1>6, <2>1, <2>2 DEF Exists
  <1>8. CASE Cluster
    <2>1. OperationTypes'
      BY <1>0, <1>8, ClusterFrame DEF OperationTypes
    <2> QED
      BY <1>6, <1>8, <2>1, ClusterFrame
  <1> QED
    BY <1>3, <1>4, <1>5, <1>7, <1>8 DEF Next

-----------------------------------------------------------------------------
(***************************************************************************)
(* What a step does to the cluster                                         *)
(***************************************************************************)

\* the steps of processes that change the cluster
Touches(p) ==
    \/ DeployRgd(p) \/ DeployHome(p) \/ HoistPatch(p) \/ DeployCr(p)
    \/ \E n \in Namespaces : Hoist(p, n)
    \/ DeleteCr(p) \/ DeleteJobs(p) \/ DeleteNs(p) \/ DeleteRgd(p)

LEMMA OthersLeaveTheCluster ==
  ASSUME Next
  PROVE  UNCHANGED cluster \/ Cluster \/ \E p \in Processes : Touches(p)
  <1>1. ASSUME NEW p \in Processes, NEW i \in Instances, StartDeploy(p, i) \/ StartDelete(p, i)
        PROVE  UNCHANGED cluster
    BY <1>1 DEF StartDeploy, StartDelete
  <1>2. ASSUME NEW p \in Processes, Deploying(p) PROVE UNCHANGED cluster \/ Touches(p)
    BY <1>2 DEF Deploying, Touches, Check, DeployCrd, HoistRead, Hoisted, DeployFails
  <1>3. ASSUME NEW p \in Processes,
               \/ Lookup(p) \/ ProveCrd(p) \/ ProveRgd(p) \/ ReadCr(p) \/ AwaitCr(p)
               \/ AwaitChildren(p) \/ ListInstances(p) \/ ListFails(p)
               \/ \E n \in Namespaces : GateRead(p, n) \/ GateFails(p, n)
               \/ AwaitNs(p) \/ Gated(p) \/ Sweep(p) \/ Confirm(p) \/ AwaitRgd(p)
        PROVE  UNCHANGED cluster
    BY <1>3 DEF Lookup, ProveCrd, ProveRgd, ReadCr, AwaitCr, AwaitChildren, ListInstances,
      ListFails, GateRead, GateFails, AwaitNs, Gated, Sweep, Confirm, AwaitRgd
  <1>4. ASSUME NEW p \in Processes, DeleteStops(p) \/ Interrupt(p) \/ Forget(p)
        PROVE  UNCHANGED cluster
    BY <1>4 DEF DeleteStops, Interrupt, Forget, GiveUp
  <1> QED
    BY <1>1, <1>2, <1>3, <1>4 DEF Next, Deleting, Touches

LEMMA TouchedTypes ==
  ASSUME TeardownInv, NEW p \in Processes, Touches(p)
  PROVE  ClusterTypes' /\ NamespaceTypes'
  <1>0. ClusterTypes /\ NamespaceTypes /\ Knowing(task[p])
    BY TypeParts DEF TeardownInv, Fits
  <1>1. CASE DeployRgd(p) \/ DeleteRgd(p)
    BY <1>0, <1>1 DEF DeployRgd, DeleteRgd, ClusterTypes, NamespaceTypes
  <1>2. ASSUME UNCHANGED <<rgd, crd, cr, record, child, pods, foreign>>,
               NEW n \in Namespaces, NEW s \in ObjectStates, ns' = [ns EXCEPT ![n] = s],
               s = "absent" => ns[n] = "absent", owned' \subseteq owned \cup {n},
               n \in owned' \ owned => s # "absent"
        PROVE  ClusterTypes' /\ NamespaceTypes'
    <2>1. ns' \in [Namespaces -> ObjectStates] /\ owned' \subseteq Namespaces
      BY <1>0, <1>2 DEF NamespaceTypes
    <2>2. \A m \in Namespaces : ns'[m] = IF m = n THEN s ELSE ns[m]
      BY <1>0, <1>2 DEF NamespaceTypes
    <2>3. \A m \in owned' \cup foreign' : ns'[m] # "absent"
      BY <1>0, <1>2, <2>1, <2>2 DEF NamespaceTypes
    <2> QED
      BY <1>0, <1>2, <2>1, <2>3 DEF ClusterTypes, NamespaceTypes
  <1>3. CASE DeployHome(p)
    <2>1. PICK n \in Namespaces : n = Home[task[p].inst]
      BY <1>0, <1>3 DEF DeployHome, At, Knowing
    <2>2. ns' = [ns EXCEPT ![n] = "live"]
      BY <1>3, <2>1 DEF DeployHome
    <2>3. UNCHANGED <<rgd, crd, cr, record, child, pods, foreign, owned>>
      BY <1>3 DEF DeployHome
    <2>4. "live" \in ObjectStates
      BY DEF ObjectStates
    <2> QED
      BY <1>2, <2>2, <2>3, <2>4
  <1>4. CASE HoistPatch(p)
    <2>1. PICK n \in Namespaces : n = task[p].cur
      BY <1>0, <1>4 DEF HoistPatch, At, Knowing
    <2>2. PICK s \in ObjectStates : s = IF ns[n] = "absent" THEN "live" ELSE ns[n]
      BY <1>0 DEF ObjectStates, NamespaceTypes
    <2>3. ns' = [ns EXCEPT ![n] = s] /\ s # "absent"
      BY <1>4, <2>1, <2>2 DEF HoistPatch
    <2>4. UNCHANGED <<rgd, crd, cr, record, child, pods, foreign>> /\ owned' \subseteq owned \cup {n}
      BY <1>4, <2>1 DEF HoistPatch
    <2> QED
      BY <1>2, <2>3, <2>4
  <1>5. ASSUME NEW n \in Namespaces, Hoist(p, n) PROVE ClusterTypes' /\ NamespaceTypes'
    <2>1. UNCHANGED <<rgd, crd, cr, record, child, pods, foreign>>
      BY <1>5 DEF Hoist
    <2>2. CASE ns[n] = "absent"
      <3>1. ns' = [ns EXCEPT ![n] = "live"] /\ owned' = owned \cup {n}
        BY <1>5, <2>2 DEF Hoist
      <3>2. "live" \in ObjectStates
        BY DEF ObjectStates
      <3> QED
        BY <1>2, <2>1, <3>1, <3>2
    <2>3. CASE ns[n] # "absent"
      BY <1>0, <1>5, <2>1, <2>3 DEF Hoist, ClusterTypes, NamespaceTypes
    <2> QED
      BY <2>2, <2>3
  <1>6. CASE DeployCr(p)
    <2>1. UNCHANGED <<rgd, crd, child, pods, ns, owned, foreign>>
      BY <1>6 DEF DeployCr
    <2>2. \/ UNCHANGED <<cr, record>>
          \/ /\ cr' = [cr EXCEPT ![task[p].inst] = IF @ = "absent" THEN "posted" ELSE @]
             /\ record' = [record EXCEPT ![task[p].inst] = TRUE]
      BY <1>6 DEF DeployCr
    <2>3. cr' \in [Instances -> {"absent", "posted", "managed", "terminating"}]
      BY <1>0, <2>2 DEF ClusterTypes
    <2>4. record' \in [Instances -> BOOLEAN]
      BY <1>0, <2>2 DEF ClusterTypes
    <2> QED
      BY <1>0, <2>1, <2>3, <2>4 DEF ClusterTypes, NamespaceTypes
  <1>7. CASE DeleteCr(p)
    <2>1. UNCHANGED <<rgd, crd, record, child, pods, ns, owned, foreign>>
      BY <1>7 DEF DeleteCr
    <2>2. cr' = [cr EXCEPT ![task[p].inst] = CrDeleted(@)]
      BY <1>7 DEF DeleteCr
    <2>3. cr' \in [Instances -> {"absent", "posted", "managed", "terminating"}]
      BY <1>0, <2>2 DEF ClusterTypes, CrDeleted
    <2> QED
      BY <1>0, <2>1, <2>3 DEF ClusterTypes, NamespaceTypes
  <1>8. CASE DeleteJobs(p)
    BY <1>0, <1>8 DEF DeleteJobs, ClusterTypes, NamespaceTypes
  <1>9. CASE DeleteNs(p)
    <2>1. PICK n \in Namespaces : n = task[p].cur
      BY <1>0, <1>9 DEF DeleteNs, At, Knowing
    <2>2. PICK s \in ObjectStates : s = IF ns[n] = "live" THEN "terminating" ELSE ns[n]
      BY <1>0 DEF ObjectStates, NamespaceTypes
    <2>3. ns' = [ns EXCEPT ![n] = s] /\ (s = "absent" => ns[n] = "absent")
      BY <1>9, <2>1, <2>2 DEF DeleteNs
    <2>4. UNCHANGED <<rgd, crd, cr, record, child, pods, foreign, owned>>
      BY <1>9 DEF DeleteNs
    <2> QED
      BY <1>2, <2>3, <2>4
  <1> QED
    BY <1>1, <1>3, <1>4, <1>5, <1>6, <1>7, <1>8, <1>9 DEF Touches

LEMMA ControllerTypes ==
  ASSUME ClusterTypes, NamespaceTypes, Cluster
  PROVE  ClusterTypes' /\ NamespaceTypes'
  <1>1. CASE KroServe \/ KroRgdGone \/ CollectCrd
    BY <1>1 DEF KroServe, KroRgdGone, CollectCrd, ClusterTypes, NamespaceTypes
  <1>2. ASSUME NEW i \in Instances, KroManage(i) \/ KroCreate(i) \/ ChildGone(i) \/ PodsGone(i)
        PROVE  ClusterTypes' /\ NamespaceTypes'
    <2>1. CASE KroManage(i)
      BY <2>1 DEF KroManage, ClusterTypes, NamespaceTypes
    <2>2. CASE KroCreate(i)
      <3>1. child' = [child EXCEPT ![i] = "live"] /\ pods' \subseteq pods \cup {i}
        BY <2>2 DEF KroCreate
      <3>2. UNCHANGED <<rgd, crd, cr, record, ns, owned, foreign>>
        BY <2>2 DEF KroCreate
      <3> QED
        BY <1>2, <3>1, <3>2 DEF ClusterTypes, NamespaceTypes, ObjectStates
    <2>3. CASE ChildGone(i)
      BY <2>3 DEF ChildGone, ClusterTypes, NamespaceTypes, ObjectStates
    <2>4. CASE PodsGone(i)
      BY <2>4 DEF PodsGone, ClusterTypes, NamespaceTypes
    <2> QED
      BY <1>2, <2>1, <2>2, <2>3, <2>4
  <1>3. ASSUME NEW i \in Instances, KroFinalize(i) \/ NsEvict(i)
        PROVE  ClusterTypes' /\ NamespaceTypes'
    <2>1. CASE KroFinalize(i)
      <3>1. /\ cr' = [cr EXCEPT ![i] = "absent"]
            /\ child' = [child EXCEPT ![i] = IF @ = "live" THEN "terminating" ELSE @]
            /\ UNCHANGED <<rgd, crd, record, pods, ns, owned, foreign>>
        BY <2>1 DEF KroFinalize
      <3>2. child' \in [Instances -> ObjectStates]
        BY <3>1 DEF ClusterTypes, ObjectStates
      <3> QED
        BY <3>1, <3>2 DEF ClusterTypes, NamespaceTypes
    <2>2. CASE NsEvict(i)
      BY <2>2 DEF NsEvict, CrDeleted, ClusterTypes, NamespaceTypes
    <2> QED
      BY <1>3, <2>1, <2>2
  <1>4. ASSUME NEW n \in Namespaces, NsGone(n) PROVE ClusterTypes' /\ NamespaceTypes'
    <2>1. /\ ns' = [ns EXCEPT ![n] = "absent"] /\ owned' = owned \ {n}
          /\ foreign' = foreign \ {n} /\ pods' \subseteq pods
          /\ child' = [i \in Instances |-> IF i \in {j \in Instances : Home[j] = n}
                                           THEN "absent" ELSE child[i]]
          /\ UNCHANGED <<rgd, crd, cr, record>>
      BY <1>4 DEF NsGone
    <2>2. child' \in [Instances -> ObjectStates]
      BY <2>1 DEF ClusterTypes, ObjectStates
    <2>3. NamespaceTypes'
      BY <1>4, <2>1 DEF NamespaceTypes, ObjectStates
    <2> QED
      BY <2>1, <2>2, <2>3 DEF ClusterTypes
  <1>5. ASSUME NEW n \in Namespaces, Occupy(n) \/ Vacate(n) PROVE ClusterTypes' /\ NamespaceTypes'
    BY <1>5 DEF Occupy, Vacate, ClusterTypes, NamespaceTypes
  <1> QED
    BY <1>1, <1>2, <1>3, <1>4, <1>5 DEF Cluster

LEMMA ClusterStep ==
  ASSUME TeardownInv, Next
  PROVE  ClusterTypes' /\ NamespaceTypes'
  <1>0. ClusterTypes /\ NamespaceTypes
    BY TypeParts DEF TeardownInv
  <1>1. CASE UNCHANGED cluster
    BY <1>0, <1>1 DEF cluster, ClusterTypes, NamespaceTypes
  <1> QED
    BY <1>0, <1>1, OthersLeaveTheCluster, TouchedTypes, ControllerTypes

\* A CR appears only where deploy posts it, which the CRD has to serve
LEMMA ServedStep ==
  ASSUME TeardownInv, Next
  PROVE  Served'
  <1>0. Served /\ ClusterTypes
    BY TypeParts DEF TeardownInv
  <1>1. CASE UNCHANGED cluster
    BY <1>0, <1>1 DEF cluster, Served, Exists
  <1>2. CASE Cluster
    <2>1. CASE CollectCrd
      BY <2>1 DEF CollectCrd, Served, Exists
    <2>2. CASE crd' = crd \/ crd' = TRUE
      BY <1>0, <1>2, <2>2, ClusterFrame DEF Served
    <2>3. CollectCrd \/ crd' = crd \/ crd' = TRUE
      BY <1>2 DEF Cluster, KroServe, KroRgdGone, KroManage, KroCreate, KroFinalize, ChildGone,
        PodsGone, NsEvict, NsGone, Occupy, Vacate
    <2> QED
      BY <2>1, <2>2, <2>3
  <1>3. ASSUME NEW p \in Processes, Touches(p) PROVE Served'
    <2>1. crd' = crd
      BY <1>3 DEF Touches, DeployRgd, DeployHome, HoistPatch, DeployCr, Hoist, DeleteCr,
        DeleteJobs, DeleteNs, DeleteRgd
    <2>2. CASE DeployCr(p)
      <3>1. crd \/ cr' = cr
        BY <2>2 DEF DeployCr
      <3> QED
        BY <1>0, <2>1, <3>1 DEF Served, Exists
    <2>3. CASE DeleteCr(p)
      BY <1>0, <2>1, <2>3, Unannounced DEF Deleting, Served
    <2>4. CASE ~DeployCr(p) /\ ~DeleteCr(p)
      <3>1. cr' = cr
        BY <1>3, <2>4 DEF Touches, DeployRgd, DeployHome, HoistPatch, Hoist, DeleteJobs,
          DeleteNs, DeleteRgd
      <3> QED
        BY <1>0, <2>1, <3>1 DEF Served, Exists
    <2> QED
      BY <2>2, <2>3, <2>4
  <1> QED
    BY <1>1, <1>2, <1>3, OthersLeaveTheCluster

-----------------------------------------------------------------------------
(***************************************************************************)
(* Deletions with no deployment between                                    *)
(***************************************************************************)
Quiescent(t) == t.pc \notin DeploySteps /\ t.lateCrs = {} /\ t.lateNs = {}

\* A deletion that is complete has found its instance gone; and it has
\* seen another instance, or left an occupied Namespace, or the RGD is gone
Outcome(i) ==
    \/ result'[i] = result[i] \/ result'[i].status # "complete"
    \/ /\ ~Exists(i)
       /\ \/ rgd = "absent" \/ result'[i].rgd = "occupied"
          \/ \E q \in Processes : task[q].inst = i /\ task[q].rest

QuietStep(p) ==
    /\ Quiescent(task'[p])
    /\ task'[p].rest => \/ task[p].rest /\ task'[p].inst = task[p].inst
                        \/ \E j \in Instances : Exists(j)'
    /\ \A i \in Instances : Outcome(i)

\* An operation goes on, or ends
LEMMA QuietGoesOn ==
  ASSUME TeardownInv, NEW p \in Processes, Quiescent(task[p]), UNCHANGED result,
         NEW u, Set(p, u), u.pc \notin DeploySteps, u.inst = task[p].inst,
         u.rest = task[p].rest, u.lateCrs = task[p].lateCrs \/ u.lateCrs = {},
         u.lateNs = task[p].lateNs \/ u.lateNs = {}
  PROVE  QuietStep(p)
  <1>1. task \in [Processes -> Tasks]
    BY TypeParts DEF TeardownInv, OperationTypes
  <1>2. task'[p] = u
    BY <1>1 DEF Set
  <1> QED
    BY <1>2 DEF QuietStep, Quiescent, Outcome

LEMMA QuietEnds ==
  ASSUME TeardownInv, NEW p \in Processes, task[p].pc # "idle", NEW status \in Statuses,
         NEW keep \in SUBSET Namespaces, NEW policy \in {"none", "shared", "occupied"},
         Return(p, status, keep, policy),
         status = "complete" =>
             /\ ~Exists(task[p].inst)
             /\ rgd = "absent" \/ policy = "occupied" \/ task[p].rest
  PROVE  QuietStep(p)
  <1>1. OperationTypes
    BY TypeParts DEF TeardownInv
  <1>2. Quiescent(Idle)
    BY IdleType DEF Quiescent, DeploySteps
  <1>3. \A i \in Instances : Outcome(i)
    BY <1>1, ReturnType DEF Outcome
  <1> QED
    BY <1>1, <1>2, <1>3, ReturnType, IdleType DEF QuietStep

LEMMA QuietGoto ==
  ASSUME TeardownInv, NEW p \in Processes, Quiescent(task[p]), UNCHANGED result,
         NEW pc \in DeleteSteps, Goto(p, pc)
  PROVE  QuietStep(p)
  <1>1. PICK t \in Tasks : t = task[p]
    BY TypeParts DEF TeardownInv, OperationTypes
  <1>2. PICK u : u = [t EXCEPT !.pc = pc]
    OBVIOUS
  <1>3. /\ u.pc = pc /\ u.inst = t.inst /\ u.rest = t.rest /\ u.lateCrs = t.lateCrs
        /\ u.lateNs = t.lateNs
    BY <1>2 DEF Tasks
  <1>4. pc \notin DeploySteps
    BY DEF DeploySteps, DeleteSteps, AfterCr
  <1>5. Set(p, u)
    BY <1>1, <1>2 DEF Goto
  <1> QED
    BY <1>1, <1>3, <1>4, <1>5, QuietGoesOn

\* deleteInstance up to the list of instances
LEMMA QuietStart ==
  ASSUME TeardownInv, NEW p \in Processes, NEW i \in Instances, StartDelete(p, i)
  PROVE  QuietStep(p)
  <1>1. OperationTypes
    BY TypeParts DEF TeardownInv
  <1>2. "lookup" \in PCs /\ "lookup" \notin DeploySteps
    BY DEF PCs, DeleteSteps, DeploySteps
  <1>3. task'[p] = NewTask(i, "lookup")
    BY <1>1 DEF StartDelete, Set, OperationTypes
  <1>4. result' = [result EXCEPT ![i] = NoResult]
    BY DEF StartDelete
  <1>5. \A j \in Instances : Outcome(j)
    BY <1>1, <1>4, NoResultType DEF OperationTypes, Outcome
  <1>6. PICK t : t = NewTask(i, "lookup")
    OBVIOUS
  <1>7. t.pc = "lookup" /\ t.rest = FALSE /\ t.lateCrs = {} /\ t.lateNs = {}
    BY <1>6 DEF NewTask
  <1> QED
    BY <1>2, <1>3, <1>5, <1>6, <1>7 DEF QuietStep, Quiescent

LEMMA QuietBeforeList ==
  ASSUME TeardownInv, NEW p \in Processes, Quiescent(task[p]),
         \/ Lookup(p) \/ ProveCrd(p) \/ ProveRgd(p) \/ ReadCr(p) \/ DeleteCr(p) \/ AwaitCr(p)
         \/ AwaitChildren(p) \/ DeleteJobs(p)
  PROVE  QuietStep(p)
  <1>0. PICK t \in Tasks : t = task[p]
    BY TypeParts DEF TeardownInv, OperationTypes
  <1>1. /\ {"failed", "blocked"} \subseteq Statuses /\ {} \in SUBSET Namespaces
        /\ {"read", "proveCrd", "proveRgd", "sweep", "deleteCr", "awaitCr", "children", "jobs",
            "list"} \subseteq DeleteSteps \ DeploySteps
    BY DEF Statuses, DeleteSteps, AfterCr, DeploySteps
  <1>2. CASE Lookup(p) \/ DeleteCr(p) \/ AwaitChildren(p) \/ DeleteJobs(p)
    <2>1. UNCHANGED result
      BY <1>2 DEF Lookup, DeleteCr, AwaitChildren, DeleteJobs
    <2>2. PICK pc \in {"read", "proveCrd", "awaitCr", "jobs", "list"} : Goto(p, pc)
      BY <1>2 DEF Lookup, DeleteCr, AwaitChildren, DeleteJobs
    <2>3. pc \in DeleteSteps
      BY <1>1
    <2> QED
      BY <2>1, <2>2, <2>3, QuietGoto
  <1>3. CASE ProveCrd(p)
    <2>1. CASE crd
      BY <1>1, <1>3, <2>1, QuietEnds DEF ProveCrd, At
    <2>2. CASE ~crd
      <3>1. PICK u : u = [t EXCEPT !.pc = "proveRgd", !.lateCrs = {}]
        OBVIOUS
      <3>2. /\ u.pc = "proveRgd" /\ u.inst = t.inst /\ u.rest = t.rest /\ u.lateCrs = {}
            /\ u.lateNs = t.lateNs
        BY <3>1 DEF Tasks
      <3>3. Set(p, u) /\ UNCHANGED result
        BY <1>0, <1>3, <2>2, <3>1 DEF ProveCrd
      <3> QED
        BY <1>0, <1>1, <3>2, <3>3, QuietGoesOn
    <2> QED
      BY <2>1, <2>2
  <1>4. CASE ProveRgd(p)
    <2>1. CASE rgd # "absent"
      BY <1>1, <1>4, <2>1, QuietEnds DEF ProveRgd, At
    <2>2. CASE rgd = "absent"
      BY <1>1, <1>4, <2>2, QuietGoto DEF ProveRgd
    <2> QED
      BY <2>1, <2>2
  <1>5. CASE ReadCr(p)
    <2>1. UNCHANGED result
      BY <1>5 DEF ReadCr
    <2>2. CASE Goto(p, "deleteCr")
      BY <1>1, <2>1, <2>2, QuietGoto
    <2>3. CASE ~Goto(p, "deleteCr")
      <3>1. PICK S, b : Set(p, [t EXCEPT !.pc = "deleteCr", !.spec = TRUE, !.names = S,
                                         !.jobs = b])
        BY <1>0, <1>5, <2>3 DEF ReadCr
      <3>2. PICK u : u = [t EXCEPT !.pc = "deleteCr", !.spec = TRUE, !.names = S, !.jobs = b]
        OBVIOUS
      <3>3. /\ u.pc = "deleteCr" /\ u.inst = t.inst /\ u.rest = t.rest
            /\ u.lateCrs = t.lateCrs /\ u.lateNs = t.lateNs
        BY <3>2 DEF Tasks
      <3> QED
        BY <1>0, <1>1, <2>1, <3>1, <3>2, <3>3, QuietGoesOn
    <2> QED
      BY <2>2, <2>3
  <1>6. CASE AwaitCr(p)
    <2>1. PICK pc \in {"children", "list"} : Set(p, [t EXCEPT !.lateCrs = {}, !.pc = pc])
      BY <1>0, <1>6 DEF AwaitCr
    <2>2. PICK u : u = [t EXCEPT !.lateCrs = {}, !.pc = pc]
      OBVIOUS
    <2>3. /\ u.pc = pc /\ u.inst = t.inst /\ u.rest = t.rest /\ u.lateCrs = {}
          /\ u.lateNs = t.lateNs
      BY <2>2 DEF Tasks
    <2>4. UNCHANGED result
      BY <1>6 DEF AwaitCr
    <2> QED
      BY <1>0, <1>1, <2>1, <2>2, <2>3, <2>4, QuietGoesOn
  <1> QED
    BY <1>2, <1>3, <1>4, <1>5, <1>6

\* deleteInstance from the list on
LEMMA QuietCleaning ==
  ASSUME TeardownInv, NEW p \in Processes, Quiescent(task[p]),
         \/ ListInstances(p) \/ DeleteNs(p) \/ AwaitNs(p)
         \/ \E n \in Namespaces : GateRead(p, n) \/ GateFails(p, n)
  PROVE  QuietStep(p)
  <1>0. PICK t \in Tasks : t = task[p]
    BY TypeParts DEF TeardownInv, OperationTypes
  <1>1. {"gate", "deleteNs", "awaitNs"} \subseteq DeleteSteps \ DeploySteps
    BY DEF DeleteSteps, AfterCr, DeploySteps
  <1>2. CASE ListInstances(p)
    <2>1. PICK L, b : L = Remaining(t.inst) /\ b = (L # {})
      OBVIOUS
    <2>2. PICK s : s = [t EXCEPT !.pc = "gate", !.phase = "own",
                                 !.lateCrs = @ \cap {t.inst}, !.rest = b]
      OBVIOUS
    <2>3. \/ Set(p, [s EXCEPT !.retained = t.names, !.blocked = {Unproven}])
          \/ Set(p, [s EXCEPT !.retained = Shared(t), !.todo = t.names \ Shared(t)])
      BY <1>0, <1>2, <2>1, <2>2 DEF ListInstances
    <2>4. PICK u : /\ Set(p, u)
                   /\ \/ u = [s EXCEPT !.retained = t.names, !.blocked = {Unproven}]
                      \/ u = [s EXCEPT !.retained = Shared(t), !.todo = t.names \ Shared(t)]
      BY <2>3
    <2>5. /\ s.pc = "gate" /\ s.inst = t.inst /\ s.rest = b
          /\ s.lateCrs = t.lateCrs \cap {t.inst} /\ s.lateNs = t.lateNs
      BY <2>2 DEF Tasks
    <2>6. /\ u.pc = "gate" /\ u.rest = b /\ u.lateCrs = t.lateCrs \cap {t.inst}
          /\ u.lateNs = t.lateNs
      BY <2>2, <2>4 DEF Tasks
    <2>7. cr' = cr /\ result' = result
      BY <1>2 DEF ListInstances, cluster
    <2>8. b => \E j \in Instances : Exists(j)'
      BY <2>1, <2>7 DEF Remaining, Exists
    <2>9. task'[p] = u
      BY <2>4, TypeParts DEF TeardownInv, OperationTypes, Set
    <2> QED
      BY <1>0, <1>1, <2>6, <2>7, <2>8, <2>9 DEF QuietStep, Quiescent, Outcome
  <1>3. CASE DeleteNs(p)
    BY <1>1, <1>3, QuietGoto DEF DeleteNs
  <1>4. ASSUME NEW n
        PROVE  /\ Deleted(t, n).pc = "gate" /\ Retained(t, n).pc = t.pc
               /\ Deleted(t, n).inst = t.inst /\ Retained(t, n).inst = t.inst
               /\ Deleted(t, n).rest = t.rest /\ Retained(t, n).rest = t.rest
               /\ Deleted(t, n).lateCrs = t.lateCrs /\ Retained(t, n).lateCrs = t.lateCrs
               /\ Deleted(t, n).lateNs = t.lateNs /\ Retained(t, n).lateNs = t.lateNs
    BY DEF Deleted, Retained, Tasks
  <1>5. CASE AwaitNs(p)
    <2>1. Set(p, Deleted(t, t.cur)) /\ UNCHANGED result
      BY <1>0, <1>5 DEF AwaitNs
    <2>2. PICK u : u = Deleted(t, t.cur)
      OBVIOUS
    <2> QED
      BY <1>0, <1>1, <1>4, <2>1, <2>2, QuietGoesOn
  <1>6. ASSUME NEW n \in Namespaces, GateRead(p, n) \/ GateFails(p, n) PROVE QuietStep(p)
    <2>1. t.pc = "gate" /\ UNCHANGED result
      BY <1>0, <1>6 DEF GateRead, GateFails, At
    <2>2. PICK r : r = Retained(t, n)
      OBVIOUS
    <2>3. r \in Tasks
      BY <1>6, <2>2, GateTasks
    <2>4. /\ r.pc = "gate" /\ r.inst = t.inst /\ r.rest = t.rest /\ r.lateCrs = t.lateCrs
          /\ r.lateNs = t.lateNs
      BY <1>4, <2>1, <2>2
    <2>5. PICK K, B : \/ Set(p, Deleted(t, n)) \/ Set(p, r)
                     \/ Set(p, [r EXCEPT !.kept = K]) \/ Set(p, [r EXCEPT !.blocked = B])
                     \/ Set(p, [t EXCEPT !.pc = "deleteNs", !.cur = n])
      BY <1>0, <1>6, <2>2 DEF GateRead, GateFails
    <2>6. ASSUME NEW u, u = [r EXCEPT !.kept = K] \/ u = [r EXCEPT !.blocked = B]
          PROVE  /\ u.pc = "gate" /\ u.inst = t.inst /\ u.rest = t.rest
                 /\ u.lateCrs = t.lateCrs /\ u.lateNs = t.lateNs
      BY <2>3, <2>4, <2>6 DEF Tasks
    <2>7. ASSUME NEW u, u = [t EXCEPT !.pc = "deleteNs", !.cur = n]
          PROVE  /\ u.pc = "deleteNs" /\ u.inst = t.inst /\ u.rest = t.rest
                 /\ u.lateCrs = t.lateCrs /\ u.lateNs = t.lateNs
      BY <2>7 DEF Tasks
    <2>8. PICK u : Set(p, u) /\ (\/ u = Deleted(t, n) \/ u = r
                                 \/ u = [r EXCEPT !.kept = K]
                                 \/ u = [r EXCEPT !.blocked = B]
                                 \/ u = [t EXCEPT !.pc = "deleteNs", !.cur = n])
      BY <2>5
    <2>9. /\ u.pc \in {"gate", "deleteNs"} /\ u.inst = t.inst /\ u.rest = t.rest
          /\ u.lateCrs = t.lateCrs /\ u.lateNs = t.lateNs
      BY <1>4, <2>4, <2>6, <2>7, <2>8
    <2> QED
      BY <1>0, <1>1, <2>1, <2>8, <2>9, QuietGoesOn
  <1> QED
    BY <1>2, <1>3, <1>5, <1>6

LEMMA QuietLast ==
  ASSUME TeardownInv, NEW p \in Processes, Quiescent(task[p]),
         \/ ListFails(p) \/ Gated(p) \/ Sweep(p) \/ Confirm(p) \/ DeleteRgd(p) \/ AwaitRgd(p)
         \/ DeleteStops(p) \/ Interrupt(p)
  PROVE  QuietStep(p)
  <1>0. PICK t \in Tasks : t = task[p]
    BY TypeParts DEF TeardownInv, OperationTypes
  <1>1. /\ Statuses = {"none", "complete", "progressing", "blocked", "failed"}
        /\ t.retained \in SUBSET Namespaces /\ t.names \in SUBSET Namespaces
        /\ t.retained \cup owned \in SUBSET Namespaces /\ Verdict(t) \in Statuses
    BY <1>0, TaskFields, TypeParts DEF TeardownInv, NamespaceTypes, Statuses, Verdict
  <1>2. {"sweep", "confirm", "awaitRgd", "gate", "deleteRgd"} \subseteq DeleteSteps \ DeploySteps
    BY DEF DeleteSteps, AfterCr, DeploySteps
  <1>3. t.pc \in AfterCr => ~Exists(t.inst)
    BY <1>0 DEF TeardownInv, Fits, Told, Quiescent
  <1>4. t.pc \in DeleteSteps => t.pc # "idle"
    BY DEF DeleteSteps, AfterCr
  <1>5. CASE DeleteStops(p) \/ Interrupt(p)
    <2>1. PICK status \in {"failed", "blocked", "progressing"} : GiveUp(p, status)
      BY <1>5 DEF DeleteStops, Interrupt
    <2>2. t.pc # "idle"
      BY <1>0, <1>4, <1>5 DEF DeleteStops, Interrupt
    <2>3. Return(p, status, t.retained, "none")
      BY <1>0, <2>1 DEF GiveUp
    <2> QED
      BY <1>0, <1>1, <2>1, <2>2, <2>3, QuietEnds
  <1>6. CASE ListFails(p)
    BY <1>0, <1>1, <1>6, QuietEnds DEF ListFails, At
  <1>7. CASE Gated(p)
    <2>1. t.pc = "gate" /\ t.pc \in AfterCr
      BY <1>0, <1>7 DEF Gated, At, AfterCr
    <2>2. CASE UNCHANGED result /\ \E pc \in {"confirm", "sweep"} : Goto(p, pc)
      BY <1>2, <2>2, QuietGoto
    <2>3. CASE Return(p, Verdict(t), t.retained, "shared") /\ t.rest
      BY <1>0, <1>1, <1>3, <2>1, <2>3, QuietEnds
    <2>4. t.phase # "own" \/ (t.phase = "own" /\ Last(t)) \/ t.rest
      BY DEF Last
    <2> QED
      BY <1>0, <1>7, <2>2, <2>3, <2>4 DEF Gated
  <1>8. CASE Sweep(p)
    <2>1. PICK O : O = owned
      OBVIOUS
    <2>2. PICK u : u = [t EXCEPT !.pc = "gate", !.phase = "sweep", !.todo = O]
      OBVIOUS
    <2>3. /\ u.pc = "gate" /\ u.inst = t.inst /\ u.rest = t.rest /\ u.lateCrs = t.lateCrs
          /\ u.lateNs = t.lateNs
      BY <2>2 DEF Tasks
    <2>4. Set(p, u) /\ UNCHANGED result
      BY <1>0, <1>8, <2>1, <2>2 DEF Sweep
    <2> QED
      BY <1>0, <1>2, <2>3, <2>4, QuietGoesOn
  <1>9. CASE DeleteRgd(p)
    BY <1>2, <1>9, QuietGoto DEF DeleteRgd
  <1>10. CASE AwaitRgd(p)
    <2>1. t.pc = "awaitRgd" /\ t.pc \in AfterCr /\ rgd = "absent"
      BY <1>0, <1>10 DEF AwaitRgd, At, AfterCr
    <2> QED
      BY <1>0, <1>1, <1>3, <1>10, <2>1, QuietEnds DEF AwaitRgd
  <1>11. CASE Confirm(p)
    <2>1. t.pc = "confirm" /\ t.pc \in AfterCr
      BY <1>0, <1>11 DEF Confirm, At, AfterCr
    <2>2. CASE UNCHANGED result /\ Set(p, [t EXCEPT !.pc = "deleteRgd", !.lateNs = {}])
      <3>1. PICK u : u = [t EXCEPT !.pc = "deleteRgd", !.lateNs = {}]
        OBVIOUS
      <3>2. /\ u.pc = "deleteRgd" /\ u.inst = t.inst /\ u.rest = t.rest
            /\ u.lateCrs = t.lateCrs /\ u.lateNs = {}
        BY <3>1 DEF Tasks
      <3> QED
        BY <1>0, <1>2, <2>2, <3>1, <3>2, QuietGoesOn
    <2>3. CASE /\ UNCHANGED result
               /\ Set(p, [t EXCEPT !.pc = "gate", !.phase = "drain",
                             !.todo = owned \ t.kept, !.drains = @ + 1])
      <3>1. PICK O, d : O = owned \ t.kept /\ d = t.drains + 1
        OBVIOUS
      <3>2. PICK u : u = [t EXCEPT !.pc = "gate", !.phase = "drain", !.todo = O, !.drains = d]
        OBVIOUS
      <3>3. /\ u.pc = "gate" /\ u.inst = t.inst /\ u.rest = t.rest
            /\ u.lateCrs = t.lateCrs /\ u.lateNs = t.lateNs
        BY <3>2 DEF Tasks
      <3>4. Set(p, u)
        BY <2>3, <3>1, <3>2
      <3> QED
        BY <1>0, <1>2, <2>3, <3>3, <3>4, QuietGoesOn
    <2>4. CASE Return(p, Verdict(t), t.retained \cup owned, "occupied")
      BY <1>0, <1>1, <1>3, <2>1, <2>4, QuietEnds
    <2> QED
      BY <1>0, <1>11, <2>2, <2>3, <2>4 DEF Confirm, StillOwned
  <1> QED
    BY <1>5, <1>6, <1>7, <1>8, <1>9, <1>10, <1>11

\* With no deployment between, no process deploys.
LEMMA NoDeployment ==
  ASSUME TeardownInv, Next, deploys' = 0
  PROVE  /\ deploys = 0 /\ Calm /\ \A p \in Processes : ~Deploying(p)
         /\ \/ Cluster
            \/ \E p \in Processes :
                  \/ \E i \in Instances : StartDelete(p, i)
                  \/ Deleting(p) \/ Interrupt(p) \/ Forget(p)
  <1>1. deploys \in Nat
    BY TypeParts, TeardownBounds DEF TeardownInv, OperationTypes
  <1>2. ASSUME NEW p \in Processes, NEW i \in Instances, StartDeploy(p, i) PROVE FALSE
    BY <1>1, <1>2 DEF StartDeploy
  <1>3. ASSUME NEW p \in Processes, Deploying(p)
        PROVE  deploys' = deploys /\ task[p].pc \in DeploySteps
    BY <1>3 DEF Deploying, Check, DeployRgd, DeployCrd, DeployHome, Hoist, HoistRead, HoistPatch,
      Hoisted, DeployCr, DeployFails, At, DeploySteps
  <1>4. ASSUME NEW p \in Processes, Deleting(p) \/ Interrupt(p) \/ Forget(p)
        PROVE  deploys' = deploys
    BY <1>4 DEF Deleting, Interrupt, Forget, GiveUp, Lookup, ProveCrd, ProveRgd, ReadCr, DeleteCr,
      AwaitCr, AwaitChildren, DeleteJobs, ListInstances, ListFails, GateRead, GateFails,
      DeleteNs, AwaitNs, Gated, Sweep, Confirm, DeleteRgd, AwaitRgd, DeleteStops
  <1>5. ASSUME NEW p \in Processes, NEW i \in Instances, StartDelete(p, i) PROVE deploys' = deploys
    BY <1>5 DEF StartDelete
  <1>6. Cluster => deploys' = deploys
    BY ClusterFrame
  <1>7. deploys = 0
    BY <1>2, <1>3, <1>4, <1>5, <1>6 DEF Next
  <1>8. Calm
    BY <1>7 DEF TeardownInv
  <1>9. \A p \in Processes : ~Deploying(p)
    BY <1>3, <1>8 DEF Calm
  <1> QED
    BY <1>2, <1>7, <1>8, <1>9 DEF Next

\* Then the cluster only loses CRs and stamps, and the RGD goes last.
LEMMA CalmCluster ==
  ASSUME TeardownInv, Next, deploys' = 0
  PROVE  /\ \A i \in Instances : Exists(i)' => Exists(i)
         /\ owned' \subseteq owned
         /\ rgd' # "absent" => rgd # "absent"
         /\ rgd' # "active" => rgd # "active" \/ owned = {}
  <1>1. Calm /\ \A p \in Processes : ~Deploying(p)
    BY NoDeployment
  <1>2. /\ \A i \in Instances : Exists(i)' => Exists(i)
        /\ owned' \subseteq owned
    <2>1. CASE Cluster
      BY <2>1, ClusterFrame
    <2>2. ASSUME NEW p \in Processes, Forget(p) PROVE cr' = cr /\ owned' = owned
      BY <2>2 DEF Forget, cluster
    <2>3. cr' = cr => \A i \in Instances : Exists(i)' => Exists(i)
      BY DEF Exists
    <2> QED
      BY <2>1, <2>2, <2>3, NoDeployment, Unannounced
  <1>3. rgd' = rgd \/ KroRgdGone \/ \E p \in Processes : DeleteRgd(p)
    <2>1. Cluster => rgd' = rgd \/ KroRgdGone
      BY DEF Cluster, KroServe, CollectCrd, KroManage, KroCreate, KroFinalize, ChildGone,
        PodsGone, NsEvict, NsGone, Occupy, Vacate
    <2>2. ASSUME NEW p \in Processes, Touches(p) PROVE rgd' = rgd \/ DeleteRgd(p)
      BY <1>1, <2>2 DEF Touches, Deploying, DeleteCr, DeleteJobs, DeleteNs
    <2>3. UNCHANGED cluster => rgd' = rgd
      BY DEF cluster
    <2> QED
      BY <2>1, <2>2, <2>3, OthersLeaveTheCluster
  <1>4. ASSUME NEW p \in Processes, DeleteRgd(p)
        PROVE  owned = {} /\ (rgd' = rgd \/ (rgd = "active" /\ rgd' = "terminating"))
    <2>1. task[p].pc = "deleteRgd" /\ (rgd' = rgd \/ (rgd = "active" /\ rgd' = "terminating"))
      BY <1>4 DEF DeleteRgd, At
    <2>2. owned \subseteq task[p].lateNs
      BY <2>1 DEF TeardownInv, Fits, Told
    <2>3. task[p].lateNs = {}
      BY <1>1 DEF Calm
    <2> QED
      BY <2>1, <2>2, <2>3
  <1>5. KroRgdGone => rgd = "terminating" /\ rgd' = "absent"
    BY DEF KroRgdGone
  <1> QED
    BY <1>2, <1>3, <1>4, <1>5

\* And the operations tell no more than what they have seen.
LEMMA CalmOperations ==
  ASSUME TeardownInv, Next, deploys' = 0
  PROVE  /\ \A q \in Processes :
               /\ Quiescent(task'[q])
               /\ task'[q].rest => \/ task[q].rest /\ task'[q].inst = task[q].inst
                                   \/ \E j \in Instances : Exists(j)'
         /\ \A i \in Instances : Outcome(i)
  <1>1. \A q \in Processes : Quiescent(task[q])
    BY NoDeployment DEF Calm, Quiescent
  <1>2. CASE UNCHANGED <<task, result>>
    BY <1>1, <1>2 DEF Outcome
  <1>3. ASSUME NEW p \in Processes,
               \/ \E i \in Instances : StartDelete(p, i)
               \/ Deleting(p) \/ Interrupt(p)
        PROVE  QuietStep(p) /\ \A q \in Processes \ {p} : task'[q] = task[q]
    <2>1. QuietStep(p)
      BY <1>1, <1>3, QuietStart, QuietBeforeList, QuietCleaning, QuietLast DEF Deleting
    <2> QED
      BY <1>3, <2>1, Unannounced
  <1>4. ASSUME NEW p \in Processes, QuietStep(p), \A q \in Processes \ {p} : task'[q] = task[q]
        PROVE  /\ \A q \in Processes :
                     /\ Quiescent(task'[q])
                     /\ task'[q].rest => \/ task[q].rest /\ task'[q].inst = task[q].inst
                                         \/ \E j \in Instances : Exists(j)'
               /\ \A i \in Instances : Outcome(i)
    BY <1>1, <1>4 DEF QuietStep
  <1>5. Cluster \/ (\E p \in Processes : Forget(p)) => UNCHANGED <<task, result>>
    BY ClusterFrame DEF Forget
  <1> QED
    BY <1>2, <1>3, <1>4, <1>5, NoDeployment

LEMMA CalmStep ==
  ASSUME TeardownInv, Next, deploys' = 0
  PROVE  Calm'
  <1>0. Calm /\ \A q \in Processes : Told(task[q]) /\ Knowing(task[q])
    BY NoDeployment DEF TeardownInv, Fits
  <1>1. \A p \in Processes :
            task'[p].pc \notin DeploySteps /\ task'[p].lateCrs = {} /\ task'[p].lateNs = {}
    BY CalmOperations DEF Quiescent
  <1>2. \A i \in Instances : Exists(i) => result'[i].status # "complete"
    BY <1>0, CalmOperations DEF Calm, Outcome
  <1>3. \A i \in Instances : Exists(i)' => result'[i].status # "complete"
    BY <1>2, CalmCluster
  <1>4. rgd' # "active" => owned' = {}
    BY <1>0, CalmCluster DEF Calm
  <1>5. ASSUME rgd' # "absent", \A i \in Instances : ~Exists(i)'
        PROVE  \E i \in Instances : LastOne(i)'
    <2>1. rgd # "absent"
      BY <1>5, CalmCluster
    <2>2. ASSUME NEW i \in Instances,
                 result'[i].status = "complete" => result'[i].rgd = "occupied",
                 \A p \in Processes : task[p].inst = i => ~task[p].rest
          PROVE  LastOne(i)'
      <3>1. \A p \in Processes : task'[p].inst = i => ~task'[p].rest
        BY <1>5, <2>2, CalmOperations
      <3> QED
        BY <2>2, <3>1 DEF LastOne
    <2>3. CASE \A i \in Instances : ~Exists(i)
      <3>1. PICK i \in Instances : LastOne(i)
        BY <1>0, <2>1, <2>3 DEF Calm
      <3>2. result'[i].status = "complete" => result'[i].rgd = "occupied"
        BY <2>1, <3>1, CalmOperations DEF Outcome, LastOne
      <3> QED
        BY <2>2, <3>1, <3>2 DEF LastOne
    <2>4. ASSUME NEW i \in Instances, Exists(i) PROVE \E j \in Instances : LastOne(j)'
      <3>1. ASSUME NEW p \in Processes, task[p].inst = i, task[p].rest PROVE FALSE
        <4>1. task[p].pc \in AfterCr
          BY <1>0, <3>1 DEF Knowing, Cleaning, AfterCr
        <4>2. i \in task[p].lateCrs
          BY <1>0, <2>4, <3>1, <4>1 DEF Told
        <4> QED
          BY <1>0, <4>2 DEF Calm
      <3> QED
        BY <1>2, <2>2, <2>4, <3>1
    <2> QED
      BY <2>3, <2>4
  <1> QED
    BY <1>1, <1>3, <1>4, <1>5 DEF Calm

-----------------------------------------------------------------------------
(***************************************************************************)
(* The invariant, and the theorems                                         *)
(***************************************************************************)
LEMMA InitialInvariant == ASSUME Init PROVE TeardownInv
  <1> DEFINE Marked(up, old) == UNION {HoistedBy[i] : i \in up \ old}
             There(up, old) == Marked(up, old) \cup UNION {HoistedBy[i] : i \in old}
                                   \cup ({Home[i] : i \in up} \ {Elsewhere})
             Start(up, old) ==
                 /\ rgd = IF up = {} THEN "absent" ELSE "active"
                 /\ crd = (up # {})
                 /\ cr = [i \in Instances |-> IF i \in up THEN "managed" ELSE "absent"]
                 /\ record = [i \in Instances |-> i \in up \ old]
                 /\ child = [i \in Instances |-> IF i \in up THEN "live" ELSE "absent"]
                 /\ pods = {i \in up : Descent[i] # "nothing"}
                 /\ ns = [n \in Namespaces |->
                             IF n \in There(up, old) THEN "live" ELSE "absent"]
                 /\ owned = Marked(up, old) /\ foreign = {}
                 /\ task = [p \in Processes |-> Idle]
                 /\ knows = [p \in Processes |-> FALSE]
                 /\ result = [i \in Instances |-> NoResult]
                 /\ deploys = 0 /\ faults = 0
  <1>0. PICK up \in SUBSET Instances : \E old \in SUBSET (up \cap Legacy) : Start(up, old)
    BY DEF Init
  <1>1. PICK old \in SUBSET (up \cap Legacy) : Start(up, old)
    BY <1>0
  <1>2. owned \subseteq There(up, old)
    BY <1>1
  <1>3. ClusterTypes
    BY <1>1 DEF ClusterTypes, ObjectStates
  <1>4. owned \subseteq Namespaces
    BY <1>1, InstancesAssumption
  <1>5. NamespaceTypes
    BY <1>1, <1>2, <1>4 DEF NamespaceTypes, ObjectStates
  <1>6. OperationTypes
    <2>1. task \in [Processes -> Tasks] /\ knows \in [Processes -> BOOLEAN]
      BY <1>1, IdleType
    <2>2. result \in [Instances -> Results]
      BY <1>1, NoResultType
    <2>3. deploys \in 0..MaxDeploys /\ faults \in 0..MaxFaults
      BY <1>1, TeardownBounds
    <2> QED
      BY <2>1, <2>2, <2>3 DEF OperationTypes
  <1>7. \A p \in Processes : Fits(task[p])
    <2>1. \A p \in Processes : task[p] = Idle
      BY <1>1
    <2>2. Fits(Idle)
      BY IdleType DEF Fits, Knowing, Told, Unshared, BeforeList, Cleaning, AfterList, AfterCr
    <2> QED
      BY <2>1, <2>2
  <1>8. Served
    BY <1>1 DEF Served, Exists
  <1>9. Calm
    <2>1. \A p \in Processes :
              task[p].pc \notin DeploySteps /\ task[p].lateCrs = {} /\ task[p].lateNs = {}
      BY <1>1, IdleType DEF DeploySteps
    <2>2. \A i \in Instances : result[i].status # "complete"
      BY <1>1, NoResultType
    <2>3. up # {} => \E i \in Instances : Exists(i)
      BY <1>1 DEF Exists
    <2>4. rgd # "active" => owned = {}
      BY <1>1
    <2> QED
      BY <1>1, <2>1, <2>2, <2>3, <2>4 DEF Calm
  <1> QED
    BY <1>3, <1>5, <1>6, <1>7, <1>8, <1>9, TypeParts DEF TeardownInv

LEMMA Invariance == Spec => []TeardownInv
  <1>1. Init => TeardownInv
    BY InitialInvariant
  <1>2. TeardownInv /\ [Next]_vars => TeardownInv'
    <2> SUFFICES ASSUME TeardownInv, [Next]_vars PROVE TeardownInv'
      OBVIOUS
    <2>1. CASE Next
      <3>1. ClusterTypes' /\ NamespaceTypes'
        BY <2>1, ClusterStep
      <3>2. OperationTypes' /\ (\A p \in Processes : Fits(task[p])')
        BY <2>1, OperationsStep
      <3>3. Served'
        BY <2>1, ServedStep
      <3>4. deploys' = 0 => Calm'
        BY <2>1, CalmStep
      <3>5. TypeOK'
        BY <3>1, <3>2 DEF TypeOK, ClusterTypes, NamespaceTypes, OperationTypes
      <3> QED
        BY <3>2, <3>3, <3>4, <3>5 DEF TeardownInv
    <2>2. CASE UNCHANGED vars
      BY <2>2 DEF vars, cluster, TeardownInv, TypeOK, Fits, Knowing, Told, Unshared, Exists,
        Served, Calm, LastOne
    <2> QED
      BY <2>1, <2>2
  <1> QED
    BY <1>1, <1>2, PTL DEF Spec

\* The states of all variables: every step of deploy, of deleteInstance and
\* of the cluster's controllers keeps them.
THEOREM TypeCorrect == Spec => []TypeOK
  <1>1. TeardownInv => TypeOK
    BY DEF TeardownInv
  <1> QED
    BY <1>1, Invariance, PTL

\* A deletion deletes the RGD only when every instance that is there was
\* posted after it looked, and every stamp was put on after it looked.
THEOREM RgdIsLast == Spec => RgdGoesLast
  <1>1. ASSUME TeardownInv
        PROVE  \A p \in Processes :
                  At(p, "deleteRgd") /\ rgd = "active" /\ rgd' = "terminating"
                  => /\ \A i \in Instances : Exists(i) => i \in task[p].lateCrs
                     /\ owned \subseteq task[p].lateNs
    <2>1. SUFFICES ASSUME NEW p \in Processes, task[p].pc = "deleteRgd"
                   PROVE  /\ \A i \in Instances : Exists(i) => i \in task[p].lateCrs
                          /\ owned \subseteq task[p].lateNs
      BY DEF At
    <2>2. Knowing(task[p]) /\ Told(task[p])
      BY <1>1 DEF TeardownInv, Fits
    <2>3. task[p].pc \in AfterList /\ ~task[p].rest
      BY <2>1, <2>2 DEF Knowing, AfterList, AfterCr, Cleaning
    <2> QED
      BY <2>1, <2>2, <2>3 DEF Told
  <1> QED
    BY <1>1, Invariance, PTL DEF RgdGoesLast

\* A deletion never deletes a Namespace that an instance it has listed
\* hoists or lives in, with or without a record.
THEOREM SharedNamespacesStay == Spec => SharedNamespaceKept
  <1>1. ASSUME TeardownInv
        PROVE  \A p \in Processes, n \in Namespaces, i \in Instances :
                  /\ At(p, "deleteNs") /\ task[p].cur = n
                  /\ ns[n] = "live" /\ ns'[n] = "terminating"
                  /\ Exists(i) /\ n \in HoistedBy[i] \cup {Home[i]}
                  => i \in task[p].lateCrs
    BY <1>1 DEF TeardownInv, Fits, Unshared, At
  <1> QED
    BY <1>1, Invariance, PTL DEF SharedNamespaceKept

\* When the deletions of all instances are complete, however they overlapped
\* and were retried, the RGD is gone or one of them said why it stays.
THEOREM OneDeletionIsTheLast == Spec => []LastDeletionSettles
  <1>1. TeardownInv => LastDeletionSettles
    BY DEF TeardownInv, Calm, LastOne, LastDeletionSettles
  <1> QED
    BY <1>1, Invariance, PTL

\* Without deployments, the RGD does not go before the stamped Namespaces.
THEOREM NamespacesStayFindable == Spec => []NoOrphanedNamespace
  <1>1. TeardownInv => NoOrphanedNamespace
    BY DEF TeardownInv, Calm, NoOrphanedNamespace
  <1> QED
    BY <1>1, Invariance, PTL
=============================================================================
