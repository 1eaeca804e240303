---------------------------- MODULE KroTeardown ----------------------------
(***************************************************************************)
(* The KRO factory: deploy and deleteInstance of the instances of one      *)
(* ResourceGraphDefinition (RGD), by processes that run at the same time   *)
(* and may be interrupted.                                                 *)
(*                                                                         *)
(* The instances share the RGD and may share Namespaces, which the factory *)
(* applies outside the RGD and tears down itself.  Nothing locks anything: *)
(* the deletion of an instance deletes its custom resource (CR), waits for *)
(* KRO, lists the instances that are left, deletes the Namespaces nobody   *)
(* else records and, when no instance is left, sweeps the Namespaces that  *)
(* carry the RGD's stamp and deletes the RGD last.                         *)
(*                                                                         *)
(* Abstractions: an instance has one child, which lives with the CR in     *)
(* Home[i]; ownership and emptiness of a Namespace are read in one step    *)
(* (NamespaceGate has the details); an apply of the RGD and the CR is one  *)
(* step (DirectDeployment has the details); the readiness wait that ends a *)
(* deployment changes nothing and is left out; a call that fails and one   *)
(* that times out both spend one of MaxFaults.                             *)
(***************************************************************************)
EXTENDS Naturals, FiniteSets

CONSTANTS
    Instances,    \* instances of the RGD
    Processes,    \* processes that use the factory
    Namespaces,   \* names of Namespaces
    HoistedBy,    \* HoistedBy[i]: the Namespaces that instance i owns
    Home,         \* Home[i]: where the CR and the child of i live
    Descent,      \* Descent[i]: what the child of i leaves behind
    Legacy,       \* instances that may have been deployed without a record
    Busy,         \* Namespaces that others may put objects into
    CrdCollected, \* may an administrator remove the retired CRD?
    MaxDeploys,   \* bound: deployments that are started
    MaxFaults,    \* bound: failed calls, timeouts and interruptions
    MaxDrains     \* bound: rounds of the wait for draining Namespaces

None == "none"
Elsewhere == "elsewhere"   \* a Namespace that nobody deletes
Unproven == "unproven"     \* the blocker that names no Namespace

\* the kinds in childTargets: no controller, a Job, another kind of
\* DESCENDANT_PRODUCING_KINDS
Descents == {"nothing", "job", "controller"}

ASSUME InstancesAssumption ==
    /\ IsFiniteSet(Instances) /\ IsFiniteSet(Namespaces)
    /\ None \notin Instances
    /\ {None, Elsewhere, Unproven} \cap Namespaces = {}
    /\ HoistedBy \in [Instances -> SUBSET Namespaces]
    /\ Home \in [Instances -> Namespaces \cup {Elsewhere}]
    /\ Descent \in [Instances -> Descents]
    /\ Legacy \subseteq Instances /\ Busy \subseteq Namespaces

ASSUME TeardownBounds ==
    /\ CrdCollected \in BOOLEAN
    /\ MaxDeploys \in Nat /\ MaxFaults \in Nat /\ MaxDrains \in Nat

VARIABLES
    rgd,      \* the RGD: absent, active or terminating
    crd,      \* is the generated CRD served?
    cr,       \* cr[i]: the CR; KRO has put its finalizer on a managed one
    record,   \* record[i]: does the CR carry a hoisted-namespaces record?
    child,    \* child[i]: the child that KRO creates for the CR
    pods,     \* instances whose child has descendants in the cluster
    ns,       \* ns[n]: the Namespace
    owned,    \* Namespaces that carry the RGD's stamp
    foreign,  \* Namespaces that contain objects of others
    task,     \* task[p]: the operation process p is in
    knows,    \* knows[p]: has the factory of p cached the CRD's plural?
    result,   \* result[i]: what the last deletion of i returned
    deploys, faults

cluster == <<rgd, crd, cr, record, child, pods, ns, owned, foreign>>
vars == <<cluster, task, knows, result, deploys, faults>>

-----------------------------------------------------------------------------
(* State and types                                                         *)

ObjectStates == {"absent", "live", "terminating"}
Statuses == {"none", "complete", "progressing", "blocked", "failed"}

\* the steps of deployDirect and of deleteInstance
DeploySteps ==
    {"check", "rgd", "crd", "home", "hoist", "hoistRead", "hoistPatch", "cr"}
\* the own CR is known to be gone
AfterCr ==
    {"proveRgd", "children", "jobs", "list", "gate", "deleteNs", "awaitNs",
     "sweep", "confirm", "deleteRgd", "awaitRgd"}
DeleteSteps ==
    {"lookup", "proveCrd", "read", "deleteCr", "awaitCr"} \cup AfterCr

Tasks ==
    [pc       : DeploySteps \cup DeleteSteps \cup {"idle"},
     inst     : Instances \cup {None},
     spec     : BOOLEAN,                \* crSpec was read
     jobs     : BOOLEAN,                \* capturedDescendants is not empty
     names    : SUBSET Namespaces,      \* declaredHoistedNamespaceNames
     rest     : BOOLEAN,                \* hasRemainingInstances
     phase    : {"own", "sweep", "drain"},
     todo     : SUBSET Namespaces,      \* what the loop has left
     cur      : Namespaces \cup {None}, \* its current Namespace
     mine     : BOOLEAN,                \* decision.owned of a deployment
     blocked  : SUBSET (Namespaces \cup {Unproven}),  \* deletion.blockers
     kept     : SUBSET Namespaces,      \* permanentlyRetainedOwnedNamespaces
     retained : SUBSET Namespaces,      \* deletion.retained
     drains   : 0..MaxDrains,
     \* history: CRs posted since the list of instances, the own one since
     \* it was gone; Namespaces stamped since the list that found none
     lateCrs  : SUBSET Instances,
     lateNs   : SUBSET Namespaces]

NewTask(i, pc) ==
    [pc |-> pc, inst |-> i, spec |-> FALSE, jobs |-> FALSE, names |-> {},
     rest |-> FALSE, phase |-> "own", todo |-> {}, cur |-> None,
     mine |-> FALSE, blocked |-> {}, kept |-> {}, retained |-> {},
     drains |-> 0, lateCrs |-> {}, lateNs |-> {}]
Idle == NewTask(None, "idle")

\* retained: the Namespaces in deletion.retained, and the policy under which
\* the RGD is there (none: it is gone or nothing was said)
Results ==
    [status : Statuses, retained : SUBSET Namespaces,
     rgd : {"none", "shared", "occupied"}]
NoResult == [status |-> "none", retained |-> {}, rgd |-> "none"]

(* The states of all variables. *)
TypeOK ==
    /\ rgd \in {"absent", "active", "terminating"} /\ crd \in BOOLEAN
    /\ cr \in [Instances -> {"absent", "posted", "managed", "terminating"}]
    /\ record \in [Instances -> BOOLEAN]
    /\ child \in [Instances -> ObjectStates] /\ pods \subseteq Instances
    /\ ns \in [Namespaces -> ObjectStates]
    /\ owned \subseteq Namespaces /\ foreign \subseteq Namespaces
    /\ \A n \in owned \cup foreign : ns[n] # "absent"
    /\ task \in [Processes -> Tasks] /\ knows \in [Processes -> BOOLEAN]
    /\ result \in [Instances -> Results]
    /\ deploys \in 0..MaxDeploys /\ faults \in 0..MaxFaults

Exists(i) == cr[i] # "absent"

\* classifyNamespaceEmptiness: something besides the defaults lives in n
Occupied(n) ==
    \/ n \in foreign
    \/ \E i \in Instances :
          Home[i] = n /\ (Exists(i) \/ child[i] # "absent" \/ i \in pods)

\* a Namespace in which objects can be created
Open(n) == n = Elsewhere \/ ns[n] = "live"

(* Any set of instances may be deployed, each with its Namespaces; the     *)
(* legacy ones with or without a record, and then without a stamp.         *)
Init ==
    \E up \in SUBSET Instances : \E old \in SUBSET (up \cap Legacy) :
        LET Marked == UNION {HoistedBy[i] : i \in up \ old}
            There == Marked \cup UNION {HoistedBy[i] : i \in old}
                             \cup ({Home[i] : i \in up} \ {Elsewhere})
        IN  /\ rgd = IF up = {} THEN "absent" ELSE "active"
            /\ crd = (up # {})
            /\ cr = [i \in Instances |-> IF i \in up THEN "managed" ELSE "absent"]
            /\ record = [i \in Instances |-> i \in up \ old]
            /\ child = [i \in Instances |-> IF i \in up THEN "live" ELSE "absent"]
            /\ pods = {i \in up : Descent[i] # "nothing"}
            /\ ns = [n \in Namespaces |-> IF n \in There THEN "live" ELSE "absent"]
            /\ owned = Marked /\ foreign = {}
            /\ task = [p \in Processes |-> Idle]
            /\ knows = [p \in Processes |-> FALSE]
            /\ result = [i \in Instances |-> NoResult]
            /\ deploys = 0 /\ faults = 0

-----------------------------------------------------------------------------
(* Steps of a process                                                      *)

At(p, pc) == task[p].pc = pc
Set(p, t) == task' = [task EXCEPT ![p] = t]
Goto(p, pc) == Set(p, [task[p] EXCEPT !.pc = pc])

\* a call fails or a wait times out
Fault == faults < MaxFaults /\ faults' = faults + 1

Return(p, status, keep, policy) ==
    /\ Set(p, Idle)
    /\ result' = [result EXCEPT ![task[p].inst] =
                     [status |-> status, retained |-> keep, rgd |-> policy]]

\* the operation ends early and leaves the cluster as it is
GiveUp(p, status) ==
    /\ Fault /\ Return(p, status, task[p].retained, "none")
    /\ UNCHANGED <<cluster, knows, deploys>>

\* the tasks, after the CR of i was posted or Namespace n was stamped
Posted(t, i) ==
    [q \in Processes |-> IF t[q].pc \in AfterCr
                         THEN [t[q] EXCEPT !.lateCrs = @ \cup {i}] ELSE t[q]]
Stamped(t, n) ==
    [q \in Processes |-> IF t[q].pc = "deleteRgd"
                         THEN [t[q] EXCEPT !.lateNs = @ \cup {n}] ELSE t[q]]

-----------------------------------------------------------------------------
(* deploy                                                                  *)

StartDeploy(p, i) ==
    /\ At(p, "idle") /\ deploys < MaxDeploys
    /\ Set(p, NewTask(i, "check"))
    /\ result' = [result EXCEPT ![i] = NoResult]
    /\ deploys' = deploys + 1
    /\ UNCHANGED <<cluster, knows, faults>>

\* a deployment ends; what it throws depends on nothing that follows
EndDeploy(p) == Return(p, "none", {}, "none")

(* assertNoPreHoistNamespaceConflict: refuses when the RGD hoists and some *)
(* instance has no record of its own, or when a list fails.                *)
Check(p) ==
    /\ At(p, "check")
    /\ IF /\ \E i \in Instances : HoistedBy[i] # {}
          /\ crd /\ \E i \in Instances : Exists(i) /\ ~record[i]
       THEN EndDeploy(p)
       ELSE Goto(p, "rgd") /\ UNCHANGED result
    /\ UNCHANGED <<cluster, knows, deploys, faults>>

(* ensureRGDDeployed: an RGD that is being deleted is patched and goes.    *)
DeployRgd(p) ==
    /\ At(p, "rgd") /\ Goto(p, "crd")
    /\ rgd' = IF rgd = "absent" THEN "active" ELSE rgd
    /\ UNCHANGED <<crd, cr, record, child, pods, ns, owned, foreign, knows,
                   result, deploys, faults>>

DeployCrd(p) ==
    /\ At(p, "crd") /\ crd
    /\ LET i == task[p].inst
           next == IF Home[i] \in Namespaces \ HoistedBy[i]
                   THEN "home" ELSE "hoist"
       IN  Set(p, [task[p] EXCEPT !.pc = next, !.todo = HoistedBy[i]])
    /\ knows' = [knows EXCEPT ![p] = TRUE]
    /\ UNCHANGED <<cluster, result, deploys, faults>>

(* ensureTargetNamespace waits while the Namespace is being deleted, and   *)
(* creates it without a stamp.                                             *)
DeployHome(p) ==
    LET n == Home[task[p].inst]
    IN  /\ At(p, "home") /\ ns[n] # "terminating" /\ Goto(p, "hoist")
        /\ ns' = [ns EXCEPT ![n] = "live"]
        /\ UNCHANGED <<rgd, crd, cr, record, child, pods, owned, foreign,
                       knows, result, deploys, faults>>

(* applyRetainedHoistedNamespace: the create succeeds and lands the stamp, *)
(* or conflicts with the Namespace that is there, also a terminating one.  *)
Hoist(p, n) ==
    /\ At(p, "hoist") /\ n \in task[p].todo
    /\ LET t == [task[p] EXCEPT !.todo = @ \ {n}]
       IN  IF ns[n] = "absent"
           THEN /\ ns' = [ns EXCEPT ![n] = "live"]
                /\ owned' = owned \cup {n}
                /\ task' = Stamped([task EXCEPT ![p] = t], n)
           ELSE /\ Set(p, [t EXCEPT !.pc = "hoistRead", !.cur = n])
                /\ UNCHANGED <<ns, owned>>
    /\ UNCHANGED <<rgd, crd, cr, record, child, pods, foreign, knows, result,
                   deploys, faults>>

\* the read that decides ownership; a Namespace that is gone is an error
HoistRead(p) ==
    LET n == task[p].cur
    IN  /\ At(p, "hoistRead")
        /\ IF ns[n] = "absent" THEN EndDeploy(p)
           ELSE /\ Set(p, [task[p] EXCEPT !.pc = "hoistPatch",
                                          !.mine = (n \in owned)])
                /\ UNCHANGED result
        /\ UNCHANGED <<cluster, knows, deploys, faults>>

\* the server-side apply creates a Namespace that is gone by now
HoistPatch(p) ==
    LET n == task[p].cur
        t == [task EXCEPT ![p].pc = "hoist", ![p].cur = None]
    IN  /\ At(p, "hoistPatch")
        /\ ns' = [ns EXCEPT ![n] = IF @ = "absent" THEN "live" ELSE @]
        /\ owned' = IF task[p].mine THEN owned \cup {n} ELSE owned
        /\ task' = IF task[p].mine /\ n \notin owned THEN Stamped(t, n) ELSE t
        /\ UNCHANGED <<rgd, crd, cr, record, child, pods, foreign, knows,
                       result, deploys, faults>>

Hoisted(p) ==
    /\ At(p, "hoist") /\ task[p].todo = {} /\ Goto(p, "cr")
    /\ UNCHANGED <<cluster, knows, result, deploys, faults>>

(* The CR is created, or patched, with its record; the server refuses it   *)
(* in a Namespace that is not there or is being deleted.                   *)
DeployCr(p) ==
    LET i == task[p].inst
    IN  /\ At(p, "cr")
        /\ IF crd /\ (Exists(i) \/ Open(Home[i]))
           THEN /\ cr' = [cr EXCEPT ![i] = IF @ = "absent" THEN "posted" ELSE @]
                /\ record' = [record EXCEPT ![i] = TRUE]
                /\ task' = LET t == [task EXCEPT ![p] = Idle]
                           IN  IF Exists(i) THEN t ELSE Posted(t, i)
           ELSE Set(p, Idle) /\ UNCHANGED <<cr, record>>
        /\ result' = [result EXCEPT ![i] = NoResult]
        /\ UNCHANGED <<rgd, crd, child, pods, ns, owned, foreign, knows,
                       deploys, faults>>

DeployFails(p) ==
    /\ task[p].pc \in DeploySteps
    /\ Fault /\ EndDeploy(p) /\ UNCHANGED <<cluster, knows, deploys>>

(* The order is that of deployDirect.  A composition with a semantic       *)
(* capture is deployed as a bundle of artifacts, which ensures the home    *)
(* Namespace before the RGD and takes the rest in the order of the bundle. *)
Deploying(p) ==
    \/ Check(p) \/ DeployRgd(p) \/ DeployCrd(p) \/ DeployHome(p)
    \/ \E n \in Namespaces : Hoist(p, n)
    \/ HoistRead(p) \/ HoistPatch(p) \/ Hoisted(p)
    \/ DeployCr(p) \/ DeployFails(p)

-----------------------------------------------------------------------------
(* deleteInstance: the instance                                            *)

\* the caller asks again until it is told that the deletion is complete
StartDelete(p, i) ==
    /\ At(p, "idle") /\ result[i].status # "complete"
    /\ Set(p, NewTask(i, "lookup"))
    /\ result' = [result EXCEPT ![i] = NoResult]
    /\ UNCHANGED <<cluster, knows, deploys, faults>>

(* requireCRDPluralForCleanup: the plural is cached for the life of the    *)
(* factory; a lookup that fails reads like a CRD that is absent.           *)
Lookup(p) ==
    /\ At(p, "lookup")
    /\ \/ /\ knows[p] \/ crd
          /\ Goto(p, "read") /\ knows' = [knows EXCEPT ![p] = TRUE]
          /\ UNCHANGED faults
       \/ /\ ~knows[p] /\ (IF crd THEN Fault ELSE UNCHANGED faults)
          /\ Goto(p, "proveCrd") /\ UNCHANGED knows
    /\ UNCHANGED <<cluster, result, deploys>>

(* kroDefinitionsAreAbsent: the CRD, then the RGD.  With both absent there *)
(* is no instance, and the retry goes on to the owned Namespaces.          *)
ProveCrd(p) ==
    /\ At(p, "proveCrd")
    /\ IF crd THEN Return(p, "failed", {}, "none")
       ELSE /\ Set(p, [task[p] EXCEPT !.pc = "proveRgd", !.lateCrs = {}])
            /\ UNCHANGED result
    /\ UNCHANGED <<cluster, knows, deploys, faults>>

ProveRgd(p) ==
    /\ At(p, "proveRgd")
    /\ IF rgd # "absent" THEN Return(p, "failed", {}, "none")
       ELSE Goto(p, "sweep") /\ UNCHANGED result
    /\ UNCHANGED <<cluster, knows, deploys, faults>>

(* The CR is the only source of the spec and of the recorded Namespaces,   *)
(* which equal those derived from the spec.  One that is gone, or that     *)
(* cannot be read, yields neither.                                         *)
ReadCr(p) ==
    LET i == task[p].inst
    IN  /\ At(p, "read")
        /\ \/ /\ Exists(i) /\ UNCHANGED faults
              /\ Set(p, [task[p] EXCEPT !.pc = "deleteCr", !.spec = TRUE,
                            !.names = HoistedBy[i],
                            !.jobs = (Descent[i] = "job" /\ i \in pods)])
           \/ /\ IF Exists(i) THEN Fault ELSE UNCHANGED faults
              /\ Goto(p, "deleteCr")
        /\ UNCHANGED <<cluster, knows, result, deploys>>

\* KRO's finalizer keeps a CR that it manages
CrDeleted(s) == CASE s = "posted" -> "absent"
                  [] s = "managed" -> "terminating"
                  [] OTHER -> s

DeleteCr(p) ==
    /\ At(p, "deleteCr") /\ Goto(p, "awaitCr")
    /\ cr' = [cr EXCEPT ![task[p].inst] = CrDeleted(@)]
    /\ UNCHANGED <<rgd, crd, record, child, pods, ns, owned, foreign, knows,
                   result, deploys, faults>>

ListAtOnce(p) ==
    /\ At(p, "awaitCr") /\ Goto(p, "list")
    /\ UNCHANGED <<cluster, knows, result, deploys, faults>>
AwaitCr(p) ==
    /\ At(p, "awaitCr") /\ ~Exists(task[p].inst)
    /\ Set(p, [task[p] EXCEPT !.lateCrs = {},
                  !.pc = IF task[p].spec THEN "children" ELSE "list"])
    /\ UNCHANGED <<cluster, knows, result, deploys, faults>>

AwaitChildren(p) ==
    /\ At(p, "children") /\ child[task[p].inst] = "absent"
    /\ Goto(p, IF task[p].jobs THEN "jobs" ELSE "list")
    /\ UNCHANGED <<cluster, knows, result, deploys, faults>>

\* the descendants captured before the deletion are deleted by name
DeleteJobs(p) ==
    /\ At(p, "jobs") /\ Goto(p, "list")
    /\ pods' = pods \ {task[p].inst}
    /\ UNCHANGED <<rgd, crd, cr, record, child, ns, owned, foreign, knows,
                   result, deploys, faults>>

\* the instances that are left, without the one that was deleted
Remaining(i) == {j \in Instances \ {i} : Exists(j)}

\* the Namespaces that one of them records
NoneShared(t) == {}
Shared(t) == t.names \cap UNION {HoistedBy[j] : j \in Remaining(t.inst)}

(* listInstancesForCleanup, shouldPreserveRgd and the exclusion: what the  *)
(* other instances record is kept, and everything is when one of them has  *)
(* no record.                                                              *)
ListInstances(p) ==
    LET t == task[p]
        Left == Remaining(t.inst)
        unclear == t.names # {} /\ \E j \in Left : ~record[j]
        s == [t EXCEPT !.pc = "gate", !.phase = "own",
                       !.lateCrs = @ \cap {t.inst},
                       !.rest = (Left # {})]
    IN  /\ At(p, "list") /\ crd
        /\ Set(p, IF unclear
                  THEN [s EXCEPT !.retained = t.names, !.blocked = {Unproven}]
                  ELSE [s EXCEPT !.retained = Shared(t),
                                 !.todo = t.names \ Shared(t)])
        /\ UNCHANGED <<cluster, knows, result, deploys, faults>>

(* The list of instances fails, always when the CRD is gone: every         *)
(* Namespace is kept.                                                      *)
ListFails(p) ==
    /\ At(p, "list") /\ (IF crd THEN Fault ELSE UNCHANGED faults)
    /\ Return(p, "blocked", task[p].names, "none")
    /\ UNCHANGED <<cluster, knows, deploys>>

-----------------------------------------------------------------------------
(* deleteInstance: the Namespaces                                          *)

\* recordNamespaceDeletionOutcome, and the next Namespace
Deleted(t, n) == [t EXCEPT !.pc = "gate", !.cur = None, !.todo = @ \ {n},
                           !.retained = @ \ {n}, !.blocked = @ \ {n}]
Retained(t, n) == [t EXCEPT !.todo = @ \ {n}, !.retained = @ \cup {n}]

\* graphMayHaveDrainingDescendants
Draining(t) == t.spec /\ Descent[t.inst] # "nothing"

(* deleteNamespaceIfEmpty up to the deletion: absent, not owned, occupied, *)
(* or to be deleted.  Occupied by descendants is not final.                *)
GateRead(p, n) ==
    LET t == task[p]
    IN  /\ At(p, "gate") /\ n \in t.todo
        /\ Set(p, CASE ns[n] = "absent" -> Deleted(t, n)
                    [] ns[n] # "absent" /\ n \notin owned -> Retained(t, n)
                    [] n \in owned /\ Occupied(n) ->
                          [Retained(t, n) EXCEPT !.kept =
                              IF Draining(t) THEN @ ELSE @ \cup {n}]
                    [] OTHER -> [t EXCEPT !.pc = "deleteNs", !.cur = n])
        /\ UNCHANGED <<cluster, knows, result, deploys, faults>>

\* ownership or emptiness cannot be read
GateFails(p, n) ==
    LET t == task[p]
    IN  /\ At(p, "gate") /\ n \in t.todo /\ Fault
        /\ Set(p, [Retained(t, n) EXCEPT !.blocked = @ \cup {n}])
        /\ UNCHANGED <<cluster, knows, result, deploys>>

DeleteNs(p) ==
    /\ At(p, "deleteNs") /\ Goto(p, "awaitNs")
    /\ ns' = [ns EXCEPT ![task[p].cur] =
                 IF @ = "live" THEN "terminating" ELSE @]
    /\ UNCHANGED <<rgd, crd, cr, record, child, pods, owned, foreign, knows,
                   result, deploys, faults>>

AwaitNs(p) ==
    /\ At(p, "awaitNs") /\ ns[task[p].cur] = "absent"
    /\ Set(p, Deleted(task[p], task[p].cur))
    /\ UNCHANGED <<cluster, knows, result, deploys, faults>>

BlockedIfRetained(t) == IF t.retained = {} THEN "complete" ELSE "blocked"
Verdict(t) == IF t.blocked = {} THEN "complete" ELSE "blocked"

AlwaysLast(t) == TRUE
Last(t) == ~t.rest

(* The Namespaces of a phase are done: with other instances left the RGD   *)
(* stays and the operation ends.                                           *)
Gated(p) ==
    LET t == task[p]
    IN  /\ At(p, "gate") /\ t.todo = {}
        /\ CASE t.phase # "own" -> Goto(p, "confirm") /\ UNCHANGED result
             [] t.phase = "own" /\ Last(t) -> Goto(p, "sweep") /\ UNCHANGED result
             [] OTHER -> Return(p, Verdict(t), t.retained, "shared")
        /\ UNCHANGED <<cluster, knows, deploys, faults>>

\* listNamespacesOwnedByRgd, for the last instance
Sweep(p) ==
    /\ At(p, "sweep")
    /\ Set(p, [task[p] EXCEPT !.pc = "gate", !.phase = "sweep", !.todo = owned])
    /\ UNCHANGED <<cluster, knows, result, deploys, faults>>

\* listNamespacesOwnedByRgd once more
Unlisted(t) == {}
OwnNames(t) == owned \cap t.names
StillOwned(t) == owned

\* namespacesStillDraining, until the deadline
WaitsForEver(t) == t.spec /\ StillOwned(t) \ t.kept # {}
Waits(t) == t.spec /\ StillOwned(t) \ t.kept # {} /\ t.drains < MaxDrains

(* The second list: the RGD is deleted only when no owned Namespace is     *)
(* left.  With a spec at hand the deletion waits a while for those that    *)
(* still drain, and tries them again.                                      *)
Confirm(p) ==
    LET t == task[p]
        Left == StillOwned(t)
    IN  /\ At(p, "confirm")
        /\ \/ /\ Left = {}
              /\ Set(p, [t EXCEPT !.pc = "deleteRgd", !.lateNs = {}])
              /\ UNCHANGED result
           \/ /\ Waits(t)
              /\ Set(p, [t EXCEPT !.pc = "gate", !.phase = "drain",
                            !.todo = Left \ t.kept, !.drains = @ + 1])
              /\ UNCHANGED result
           \/ /\ Left # {} /\ ~Waits(t)
              /\ Return(p, Verdict(t), t.retained \cup Left, "occupied")
        /\ UNCHANGED <<cluster, knows, deploys, faults>>

DeleteRgd(p) ==
    /\ At(p, "deleteRgd") /\ Goto(p, "awaitRgd")
    /\ rgd' = IF rgd = "active" THEN "terminating" ELSE rgd
    /\ UNCHANGED <<crd, cr, record, child, pods, ns, owned, foreign, knows,
                   result, deploys, faults>>

AwaitRgd(p) ==
    /\ At(p, "awaitRgd") /\ rgd = "absent"
    /\ Return(p, "complete", task[p].retained, "none")
    /\ UNCHANGED <<cluster, knows, deploys, faults>>

(* Calls that fail and waits that time out: the definitions and everything *)
(* not yet deleted stay for a retry.                                       *)
DeleteStops(p) ==
    \/ task[p].pc \in {"proveCrd", "proveRgd"} /\ GiveUp(p, "failed")
    \/ task[p].pc \in {"deleteCr", "sweep", "confirm", "deleteRgd"}
          /\ GiveUp(p, "blocked")
    \/ task[p].pc \in {"awaitCr", "children", "jobs", "awaitNs", "awaitRgd"}
          /\ GiveUp(p, "progressing")

Deleting(p) ==
    \/ Lookup(p) \/ ProveCrd(p) \/ ProveRgd(p) \/ ReadCr(p) \/ DeleteCr(p)
    \/ AwaitCr(p) \/ AwaitChildren(p) \/ DeleteJobs(p)
    \/ ListInstances(p) \/ ListFails(p)
    \/ \E n \in Namespaces : GateRead(p, n) \/ GateFails(p, n)
    \/ DeleteNs(p) \/ AwaitNs(p) \/ Gated(p)
    \/ Sweep(p) \/ Confirm(p) \/ DeleteRgd(p) \/ AwaitRgd(p)
    \/ DeleteStops(p)

(* An abort ends a deletion anywhere; a crash also forgets the plural.     *)
Interrupt(p) ==
    /\ task[p].pc \in DeleteSteps /\ GiveUp(p, "failed")
Forget(p) ==
    /\ At(p, "idle") /\ knows[p] /\ Fault
    /\ knows' = [knows EXCEPT ![p] = FALSE]
    /\ UNCHANGED <<cluster, task, result, deploys>>

-----------------------------------------------------------------------------
(* KRO, the cluster's controllers and others                               *)

\* KRO serves the RGD: the CRD, the finalizer of a CR, its child
KroServe ==
    /\ rgd = "active" /\ ~crd /\ crd' = TRUE
    /\ UNCHANGED <<rgd, cr, record, child, pods, ns, owned, foreign, task,
                   knows, result, deploys, faults>>

KroManage(i) ==
    /\ rgd = "active" /\ cr[i] = "posted"
    /\ cr' = [cr EXCEPT ![i] = "managed"]
    /\ UNCHANGED <<rgd, crd, record, child, pods, ns, owned, foreign, task,
                   knows, result, deploys, faults>>

KroCreate(i) ==
    /\ rgd = "active" /\ cr[i] = "managed" /\ child[i] = "absent"
    /\ Open(Home[i])
    /\ child' = [child EXCEPT ![i] = "live"]
    /\ pods' = IF Descent[i] = "nothing" THEN pods ELSE pods \cup {i}
    /\ UNCHANGED <<rgd, crd, cr, record, ns, owned, foreign, task, knows,
                   result, deploys, faults>>

\* KRO issues the deletion of the child and lets the CR go
KroFinalize(i) ==
    /\ rgd # "absent" /\ cr[i] = "terminating"
    /\ cr' = [cr EXCEPT ![i] = "absent"]
    /\ child' = [child EXCEPT ![i] = IF @ = "live" THEN "terminating" ELSE @]
    /\ UNCHANGED <<rgd, crd, record, pods, ns, owned, foreign, task, knows,
                   result, deploys, faults>>

KroRgdGone ==
    /\ rgd = "terminating" /\ rgd' = "absent"
    /\ UNCHANGED <<crd, cr, record, child, pods, ns, owned, foreign, task,
                   knows, result, deploys, faults>>

ChildGone(i) ==
    /\ child[i] = "terminating" /\ child' = [child EXCEPT ![i] = "absent"]
    /\ UNCHANGED <<rgd, crd, cr, record, pods, ns, owned, foreign, task,
                   knows, result, deploys, faults>>

\* garbage collection; the Pod of a Job may be orphaned and stay
PodsGone(i) ==
    /\ i \in pods /\ child[i] = "absent" /\ pods' = pods \ {i}
    /\ UNCHANGED <<rgd, crd, cr, record, child, ns, owned, foreign, task,
                   knows, result, deploys, faults>>

\* the Namespace controller deletes what lives in n, then n
NsEvict(i) ==
    /\ Home[i] # Elsewhere /\ ns[Home[i]] = "terminating"
    /\ cr[i] \in {"posted", "managed"}
    /\ cr' = [cr EXCEPT ![i] = CrDeleted(@)]
    /\ UNCHANGED <<rgd, crd, record, child, pods, ns, owned, foreign, task,
                   knows, result, deploys, faults>>

NsGone(n) ==
    LET There == {i \in Instances : Home[i] = n}
    IN  /\ ns[n] = "terminating" /\ \A i \in There : ~Exists(i)
        /\ ns' = [ns EXCEPT ![n] = "absent"]
        /\ owned' = owned \ {n} /\ foreign' = foreign \ {n}
        /\ pods' = pods \ There
        /\ child' = [i \in Instances |->
                        IF i \in There THEN "absent" ELSE child[i]]
        /\ UNCHANGED <<rgd, crd, cr, record, task, knows, result, deploys,
                       faults>>

\* others put objects into a Namespace, and remove them
Occupy(n) ==
    /\ n \in Busy /\ ns[n] = "live" /\ foreign' = foreign \cup {n}
    /\ UNCHANGED <<rgd, crd, cr, record, child, pods, ns, owned, task, knows,
                   result, deploys, faults>>
Vacate(n) ==
    /\ n \in foreign /\ foreign' = foreign \ {n}
    /\ UNCHANGED <<rgd, crd, cr, record, child, pods, ns, owned, task, knows,
                   result, deploys, faults>>

\* an administrator removes a CRD that no RGD and no instance needs
CollectCrd ==
    /\ CrdCollected /\ crd /\ rgd = "absent" /\ \A i \in Instances : ~Exists(i)
    /\ crd' = FALSE
    /\ UNCHANGED <<rgd, cr, record, child, pods, ns, owned, foreign, task,
                   knows, result, deploys, faults>>

Cluster ==
    \/ KroServe \/ KroRgdGone \/ CollectCrd
    \/ \E i \in Instances : \/ KroManage(i) \/ KroCreate(i) \/ KroFinalize(i)
                            \/ ChildGone(i) \/ PodsGone(i) \/ NsEvict(i)
    \/ \E n \in Namespaces : NsGone(n) \/ Occupy(n) \/ Vacate(n)

Next ==
    \/ \E p \in Processes :
          \/ \E i \in Instances : StartDeploy(p, i) \/ StartDelete(p, i)
          \/ Deploying(p) \/ Deleting(p) \/ Interrupt(p) \/ Forget(p)
    \/ Cluster
Spec == Init /\ [][Next]_vars

(* The steps of an operation and of the controllers are taken; orphaned    *)
(* Pods of a Job and objects of others may stay for ever.  The caller of a *)
(* deletion gets a turn again and again until it is complete.              *)
FairSpec ==
    /\ Spec
    /\ \A p \in Processes : WF_vars(Deploying(p)) /\ WF_vars(Deleting(p))
    /\ \A i \in Instances :
          /\ SF_vars(\E p \in Processes : StartDelete(p, i))
          /\ WF_vars(KroManage(i)) /\ WF_vars(KroCreate(i))
          /\ WF_vars(KroFinalize(i)) /\ WF_vars(ChildGone(i))
          /\ WF_vars(Descent[i] = "controller" /\ PodsGone(i))
          /\ WF_vars(NsEvict(i))
    /\ WF_vars(KroServe) /\ WF_vars(KroRgdGone)
    /\ \A n \in Namespaces : WF_vars(NsGone(n))

-----------------------------------------------------------------------------
(* Properties                                                              *)

(* When a deletion deletes the RGD, no instance is there but those whose   *)
(* CR was posted after the deletion listed the instances, or its own       *)
(* instance posted anew: KRO keeps its controller for all others, also for *)
(* those it is finalizing.  And no Namespace carries the RGD's stamp but   *)
(* those stamped after the deletion confirmed that there was none.  (The   *)
(* wait for the own CR, then the list of instances, then the Namespaces,   *)
(* then the RGD.)                                                          *)
RgdGoesLast ==
    [][\A p \in Processes :
          At(p, "deleteRgd") /\ rgd = "active" /\ rgd' = "terminating"
          => /\ \A i \in Instances : Exists(i) => i \in task[p].lateCrs
             /\ owned \subseteq task[p].lateNs]_vars

(* A deletion never deletes a Namespace that another instance hoists, with *)
(* or without a record of it, unless the CR of that instance was posted    *)
(* after the deletion listed the instances, or it is its own posted anew.  *)
SharedNamespaceKept ==
    [][\A p \in Processes, n \in Namespaces, i \in Instances :
          /\ At(p, "deleteNs") /\ task[p].cur = n
          /\ ns[n] = "live" /\ ns'[n] = "terminating"
          /\ Exists(i) /\ n \in HoistedBy[i] \cup {Home[i]}
          => i \in task[p].lateCrs]_vars

Quiet == \A p \in Processes : At(p, "idle")

(* However the deletions of the instances overlap, fail and are retried,   *)
(* with no deployment between: when all are complete, one of them was the  *)
(* last, and it removed the RGD or said that an occupied Namespace keeps   *)
(* it.                                                                     *)
LastDeletionSettles ==
    /\ deploys = 0 /\ Quiet
    /\ \A i \in Instances : ~Exists(i) /\ result[i].status = "complete"
    => rgd = "absent" \/ \E i \in Instances : result[i].rgd = "occupied"

(* Without deployments, the RGD does not go while a stamped Namespace is   *)
(* there: also after crashes, the Namespaces can be found and cleaned.     *)
NoOrphanedNamespace == deploys = 0 /\ rgd # "active" => owned = {}

(* Deletions that are retried are complete in the end, each of them.       *)
DeletionsComplete ==
    \A i \in Instances : <>[](result[i].status = "complete")
=============================================================================
