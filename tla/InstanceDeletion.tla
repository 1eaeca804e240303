-------------------------- MODULE InstanceDeletion --------------------------
(***************************************************************************)
(* The direct factory: deploy and deleteInstance of instances that may     *)
(* share resources, by processes that may crash, in a cluster that others  *)
(* write to.                                                               *)
(*                                                                         *)
(* There is no store besides the cluster.  A process that deployed an      *)
(* instance remembers its record (deployedInstances and the engine's       *)
(* deploymentState); any other process, or the same one after a restart,   *)
(* finds the instance by the labels on the objects, kind by kind.  Either  *)
(* way rollbackRecord deletes what it was given, dependents first, and a   *)
(* second phase empties and awaits the Namespaces.                         *)
(*                                                                         *)
(* Abstractions: every object has a kind of its own, so one list finds one *)
(* object; a deployment applies all resources of its instance, in the      *)
(* order of their dependencies, without rollback (DirectDeployment has the *)
(* details); a Namespace has at most one PersistentVolumeClaim, named the  *)
(* same in every incarnation of the Namespace.  A request for scopes asks  *)
(* for one scope, which every scoped object has.  Every apply is answered  *)
(* with the object and every list returns objects, so a record never lacks *)
(* a UID and deleteDeployedResource has no occasion to read one.           *)
(***************************************************************************)
EXTENDS Naturals, FiniteSets

CONSTANTS
    Objects,      \* names of objects in the cluster
    Instances,    \* instance names of the factory
    Processes,    \* processes that use the factory
    PartOf,       \* PartOf[i]: the objects of instance i
    Deps,         \* Deps[o]: the objects that o depends on
    Scoped,       \* objects with an effective scope
    Namespaces,   \* objects of kind Namespace
    DeployTargets,\* the targetScopes deploy may be called with
    Requests,     \* the options deleteInstance may be called with
    ListErrors,   \* may a list of one kind fail?
    MaxUid,       \* bound: incarnations of an object
    MaxDeploys,   \* bound: deployments that are started
    MaxCrashes    \* bound: crashes of processes

\* targetScopes: undefined, ['cluster'], []; scopes and
\* includeUnscopedResources: [] and true, ['cluster'] and true,
\* ['cluster'] and false
TargetKinds == {"everything", "scoped", "unscoped"}
RequestKinds == {"private", "all", "shared"}
Nobody == "nobody"

ASSUME ObjectsAssumption ==
    /\ IsFiniteSet(Objects) /\ IsFiniteSet(Processes)
    /\ Nobody \notin Instances
    /\ PartOf \in [Instances -> SUBSET Objects]
    /\ Deps \in [Objects -> SUBSET Objects]
    /\ Scoped \subseteq Objects /\ Namespaces \subseteq Objects

ASSUME DepsAcyclic ==
    \A S \in (SUBSET Objects) \ {{}} : \E o \in S : Deps[o] \cap S = {}

ASSUME DeletionBounds ==
    /\ DeployTargets \subseteq TargetKinds
    /\ Requests \subseteq RequestKinds /\ ListErrors \in BOOLEAN
    /\ MaxUid \in Nat /\ MaxDeploys \in Nat /\ MaxCrashes \in Nat

VARIABLES
    \* the cluster
    live,       \* live[o]: "absent", "live" or "terminating"
    uid,        \* uid[o]: the incarnation of o, 0 before the first
    tag,        \* tag[o]: the instance that o's labels name
    pvc,        \* pvc[n]: the incarnation of n whose claim exists, or 0
    \* the memory of each process
    tracked,    \* tracked[p]: the instances in deployedInstances
    record,     \* record[p][i][o]: uid of o in i's deployment record, or 0
    \* the call that each process is making
    pc,         \* where it is
    inst,       \* the instance it was called with
    request,    \* the options it was called with
    todo,       \* what is still to be applied, listed or deleted
    unread,     \* what the level at work applied and has not read back yet
    plan,       \* plan[p][o]: the uid of o in the record at work, or 0
    current,    \* the object, or Namespace, being polled or cleaned
    failed,     \* the rollback collected an error
    spaces,     \* the deleted Namespaces that are still to be completed
    snapshot,   \* the claim that the last list of claims returned, or 0
    answer,     \* what the last deleteInstance of the process returned
    \* bounds and history
    deploys, crashes,
    held,       \* the Namespaces whose incarnation in the cluster a deployment
                \* has applied or read back
    start       \* start[p]: what of the instance's objects, in the scopes asked
                \* for, was there at the call, with its uid and tag, and has
                \* not passed to another instance since

cluster == <<live, uid, tag, pvc>>
memory  == <<tracked, record>>
call    == <<pc, inst, request, todo, unread, plan, current, failed, spaces, snapshot,
             answer>>
bounds  == <<deploys, crashes>>
vars    == <<cluster, memory, call, bounds, held, start>>

Nothing == [o \in Objects |-> 0]

-----------------------------------------------------------------------------
\* scopesMatchDeployTarget
Selected(o, target) ==
    CASE target = "everything" -> TRUE
      [] target = "scoped"     -> o \in Scoped
      [] target = "unscoped"   -> o \notin Scoped

\* scopesMatchFilter
Targets(o, req) ==
    CASE req = "private" -> o \notin Scoped
      [] req = "all"     -> TRUE
      [] req = "shared"  -> o \in Scoped

Planned(p) == {o \in Objects : plan[p][o] # 0}

\* analyzeDeletionOrder: the last level of the graph of the targeted objects
\* first.  A level is all that what is left depends on nothing outside it
\* after the levels below; any order that keeps dependents first refines it.
BadNext(p, o) == \A t \in todo[p] : t \notin Deps[o]
NextToDelete(p, o) == \A t \in todo[p] : o \notin Deps[t]

\* the delete of a Namespace carries the UID of the record
BadLease(p, o) == TRUE
LeaseCurrent(p, o) == o \in Namespaces => uid[o] = plan[p][o]

Init ==
    /\ live = [o \in Objects |-> "absent"]
    /\ uid = Nothing
    /\ tag = [o \in Objects |-> Nobody]
    /\ pvc = [n \in Namespaces |-> 0]
    /\ tracked = [p \in Processes |-> {}]
    /\ record = [p \in Processes |-> [i \in Instances |-> Nothing]]
    /\ pc = [p \in Processes |-> "idle"]
    /\ inst = [p \in Processes |-> Nobody]
    /\ request = [p \in Processes |-> "private"]
    /\ todo = [p \in Processes |-> {}]
    /\ unread = [p \in Processes |-> {}]
    /\ plan = [p \in Processes |-> Nothing]
    /\ current = [p \in Processes |-> Nobody]
    /\ failed = [p \in Processes |-> FALSE]
    /\ spaces = [p \in Processes |-> {}]
    /\ snapshot = [p \in Processes |-> 0]
    /\ answer = [p \in Processes |-> "none"]
    /\ deploys = 0 /\ crashes = 0 /\ held = {}
    /\ start = [p \in Processes |-> {}]

\* A call returns, or is lost in a crash: its locals are gone
Return(p, result) ==
    /\ pc' = [pc EXCEPT ![p] = "idle"]
    /\ request' = [request EXCEPT ![p] = "private"]
    /\ todo' = [todo EXCEPT ![p] = {}]
    /\ unread' = [unread EXCEPT ![p] = {}]
    /\ plan' = [plan EXCEPT ![p] = Nothing]
    /\ current' = [current EXCEPT ![p] = Nobody]
    /\ failed' = [failed EXCEPT ![p] = FALSE]
    /\ spaces' = [spaces EXCEPT ![p] = {}]
    /\ snapshot' = [snapshot EXCEPT ![p] = 0]
    /\ answer' = [answer EXCEPT ![p] = result]
    /\ inst' = [inst EXCEPT ![p] = IF result = "complete" THEN @ ELSE Nobody]
    /\ start' = [start EXCEPT ![p] = IF result = "complete" THEN @ ELSE {}]

-----------------------------------------------------------------------------
(***************************************************************************)
(* deploy: what is selected is applied, dependencies first, or the         *)
(* deployment fails on the way.  At the end of a level every object that   *)
(* was applied is read back by its name, and what stands there now is what *)
(* the record will hold.  Only a successful deployment is remembered;      *)
(* after a failed one the process still remembers the one before it.       *)
(***************************************************************************)
StartDeploy(p, i, target) ==
    /\ pc[p] = "idle"
    /\ deploys < MaxDeploys
    /\ deploys' = deploys + 1
    /\ pc' = [pc EXCEPT ![p] = "apply"]
    /\ inst' = [inst EXCEPT ![p] = i]
    /\ todo' = [todo EXCEPT ![p] = {o \in PartOf[i] : Selected(o, target)}]
    /\ answer' = [answer EXCEPT ![p] = "none"]
    /\ start' = [start EXCEPT ![p] = {}]
    /\ UNCHANGED <<cluster, memory, request, unread, plan, current, failed, spaces,
                   snapshot, crashes, held>>

\* The level at work: what depends on nothing that is not yet read back
InLevel(p, o) == o \in todo[p] /\ Deps[o] \cap (todo[p] \cup unread[p]) = {}

\* An absent object is created and an existing one patched, both with the
\* tags, or an existing one is taken as it is (existingResource 'warn')
Apply(p, o) ==
    /\ pc[p] = "apply" /\ InLevel(p, o)
    /\ \/ live[o] # "absent" /\ UNCHANGED <<live, uid>>
       \/ /\ live[o] = "absent" /\ uid[o] < MaxUid
          /\ live' = [live EXCEPT ![o] = "live"]
          /\ uid' = [uid EXCEPT ![o] = @ + 1]
    /\ \/ /\ tag' = [tag EXCEPT ![o] = inst[p]]
          /\ start' = [q \in Processes |->
                          {s \in start[q] : s.name = o => s.tag = inst[p]}]
       \/ live[o] # "absent" /\ UNCHANGED <<tag, start>>
    /\ todo' = [todo EXCEPT ![p] = @ \ {o}]
    /\ unread' = [unread EXCEPT ![p] = @ \cup {o}]
    /\ plan' = [plan EXCEPT ![p][o] = uid'[o]]
    /\ held' = held \cup ({o} \cap Namespaces)
    /\ UNCHANGED <<pvc, memory, pc, inst, request, current, failed, spaces,
                   snapshot, answer, bounds>>

\* The results of a level are folded when all of it is settled: a read by name
\* replaces the liveManifest of the apply; one that fails leaves it
ReadBack(p, o) ==
    /\ \/ pc[p] = "fold"
       \/ pc[p] = "apply" /\ \A t \in todo[p] : ~InLevel(p, t)
    /\ o \in unread[p]
    /\ \/ /\ live[o] # "absent"
          /\ plan' = [plan EXCEPT ![p][o] = uid[o]]
          /\ held' = held \cup ({o} \cap Namespaces)
       \/ UNCHANGED <<plan, held>>
    /\ unread' = [unread EXCEPT ![p] = @ \ {o}]
    /\ pc' = [pc EXCEPT ![p] = IF unread[p] = {o} THEN "apply" ELSE "fold"]
    /\ UNCHANGED <<cluster, memory, inst, request, todo, current, failed, spaces,
                   snapshot, answer, bounds, start>>

DeploySucceeds(p) ==
    /\ pc[p] = "apply" /\ todo[p] = {} /\ unread[p] = {}
    /\ tracked' = [tracked EXCEPT ![p] = @ \cup {inst[p]}]
    /\ record' = [record EXCEPT ![p][inst[p]] = plan[p]]
    /\ Return(p, "none")
    /\ UNCHANGED <<cluster, bounds, held>>

DeployFails(p) ==
    /\ pc[p] \in {"apply", "fold"}
    /\ Return(p, "none")
    /\ UNCHANGED <<cluster, memory, bounds, held>>

-----------------------------------------------------------------------------
(***************************************************************************)
(* deleteInstance: find the record.                                        *)
(***************************************************************************)
Remembers(p, i) == i \in tracked[p] /\ record[p][i] # Nothing

StartDelete(p, i, req) ==
    /\ pc[p] = "idle"
    /\ inst' = [inst EXCEPT ![p] = i]
    /\ request' = [request EXCEPT ![p] = req]
    /\ answer' = [answer EXCEPT ![p] = "none"]
    /\ start' = [start EXCEPT ![p] =
                    {[name |-> o, uid |-> uid[o], tag |-> tag[o]] : o \in {q \in PartOf[i] :
                        Targets(q, req) /\ live[q] # "absent"}}]
    /\ IF Remembers(p, i)
       THEN /\ pc' = [pc EXCEPT ![p] = "delete"]
            /\ plan' = [plan EXCEPT ![p] = record[p][i]]
            /\ todo' = [todo EXCEPT ![p] = {o \in Objects :
                            record[p][i][o] # 0 /\ Targets(o, req)}]
       ELSE /\ pc' = [pc EXCEPT ![p] = "list"]
            /\ plan' = plan
            /\ todo' = [todo EXCEPT ![p] = Objects]
    /\ UNCHANGED <<cluster, memory, unread, current, failed, spaces, snapshot, bounds,
                   held>>

\* The label selector, and the annotation that confirms it
BadListed(p, o) == live[o] = "live" /\ tag[o] = inst[p]
Listed(p, o) == live[o] # "absent" /\ tag[o] = inst[p]

\* One list by label, of the kind of o; a list that fails returns nothing
List(p, o) ==
    /\ pc[p] = "list" /\ o \in todo[p]
    /\ todo' = [todo EXCEPT ![p] = @ \ {o}]
    /\ \/ plan' = [plan EXCEPT ![p][o] =
                      IF Listed(p, o) THEN uid[o] ELSE 0]
       \/ ListErrors /\ plan' = plan
    /\ UNCHANGED <<cluster, memory, pc, inst, request, unread, current, failed,
                   spaces, snapshot, answer, bounds, held, start>>

\* INSTANCE_NOT_FOUND: "deletion is already complete"
NotFound(p) ==
    /\ pc[p] = "list" /\ todo[p] = {} /\ plan[p] = Nothing
    /\ Return(p, "complete")
    /\ UNCHANGED <<cluster, memory, bounds, held>>

Found(p) ==
    /\ pc[p] = "list" /\ todo[p] = {} /\ plan[p] # Nothing
    /\ pc' = [pc EXCEPT ![p] = "delete"]
    /\ todo' = [todo EXCEPT ![p] = {o \in Planned(p) : Targets(o, request[p])}]
    /\ UNCHANGED <<cluster, memory, inst, request, unread, plan, current, failed,
                   spaces, snapshot, answer, bounds, held, start>>

-----------------------------------------------------------------------------
(***************************************************************************)
(* rollbackRecord: delete, and poll everything but a Namespace.            *)
(***************************************************************************)
deleteFrame == <<uid, tag, pvc, memory, inst, request, unread, plan, snapshot, answer,
                 bounds, held, start>>

Delete(p, o) ==
    /\ pc[p] = "delete" /\ o \in todo[p] /\ NextToDelete(p, o)
    /\ live[o] # "absent" /\ LeaseCurrent(p, o)
    /\ todo' = [todo EXCEPT ![p] = @ \ {o}]
    /\ live' = [live EXCEPT ![o] = "terminating"]
    /\ IF o \in Namespaces
       THEN spaces' = [spaces EXCEPT ![p] = @ \cup {o}] /\ UNCHANGED <<pc, current>>
       ELSE /\ spaces' = spaces
            /\ pc' = [pc EXCEPT ![p] = "poll"]
            /\ current' = [current EXCEPT ![p] = o]
    /\ UNCHANGED <<failed, deleteFrame>>

\* 404: counted as deleted
DeleteAbsent(p, o) ==
    /\ pc[p] = "delete" /\ o \in todo[p] /\ NextToDelete(p, o)
    /\ live[o] = "absent"
    /\ todo' = [todo EXCEPT ![p] = @ \ {o}]
    /\ spaces' = IF o \in Namespaces THEN [spaces EXCEPT ![p] = @ \cup {o}] ELSE spaces
    /\ UNCHANGED <<live, pc, current, failed, deleteFrame>>

\* A lost lease, or an API error
DeleteRefused(p, o) ==
    /\ pc[p] = "delete" /\ o \in todo[p] /\ NextToDelete(p, o)
    /\ todo' = [todo EXCEPT ![p] = @ \ {o}]
    /\ failed' = [failed EXCEPT ![p] = TRUE]
    /\ UNCHANGED <<live, pc, current, spaces, deleteFrame>>

PollGone(p) ==
    /\ pc[p] = "poll" /\ live[current[p]] = "absent"
    /\ pc' = [pc EXCEPT ![p] = "delete"]
    /\ current' = [current EXCEPT ![p] = Nobody]
    /\ UNCHANGED <<live, todo, failed, spaces, deleteFrame>>

\* timeout, read error
PollFails(p) ==
    /\ pc[p] = "poll"
    /\ pc' = [pc EXCEPT ![p] = "delete"]
    /\ current' = [current EXCEPT ![p] = Nobody]
    /\ failed' = [failed EXCEPT ![p] = TRUE]
    /\ UNCHANGED <<live, todo, spaces, deleteFrame>>

\* The end of rollbackRecord: the record is forgotten, whatever happened
BadForget(p) == IF failed[p] THEN record ELSE [record EXCEPT ![p][inst[p]] = Nothing]
WrongForget(p) == [record EXCEPT ![p] = Nothing]
Forget(p) == [record EXCEPT ![p][inst[p]] = Nothing]

\* deleteInstance after a rollback with errors
Blocked(p) ==
    /\ pc[p] = "delete" /\ todo[p] = {} /\ failed[p]
    /\ record' = Forget(p)
    /\ Return(p, "blocked")
    /\ UNCHANGED <<cluster, tracked, bounds, held>>

RolledBack(p) ==
    /\ pc[p] = "delete" /\ todo[p] = {} /\ ~failed[p]
    /\ record' = Forget(p)
    /\ pc' = [pc EXCEPT ![p] = "spaces"]
    /\ todo' = [todo EXCEPT ![p] = spaces[p]]
    /\ UNCHANGED <<cluster, tracked, inst, request, unread, plan, current, failed,
                   spaces, snapshot, answer, bounds, held, start>>

-----------------------------------------------------------------------------
(***************************************************************************)
(* completeNamespaceDeletion: delete the claims of every Namespace that    *)
(* the rollback deleted, then await each.  The UID of the record is a      *)
(* lease: it is read again before the list and before the delete of the    *)
(* claim, and the delete carries the UID of the listed claim.              *)
(***************************************************************************)
BadStillLeased(p, n) == live[n] # "absent"
StillLeased(p, n) == live[n] # "absent" /\ uid[n] = plan[p][n]

BadGone(p, n) == live[n] # "live"
Gone(p, n) == ~StillLeased(p, n)

spacesFrame == <<live, uid, tag, memory, inst, request, unread, plan, failed, spaces,
                 bounds, held, start>>

CheckLease(p, n) ==
    /\ pc[p] = "spaces" /\ n \in todo[p]
    /\ todo' = [todo EXCEPT ![p] = @ \ {n}]
    /\ IF StillLeased(p, n)
       THEN pc' = [pc EXCEPT ![p] = "claims"] /\ current' = [current EXCEPT ![p] = n]
       ELSE UNCHANGED <<pc, current>>
    /\ UNCHANGED <<pvc, snapshot, answer, spacesFrame>>

ListClaims(p) ==
    /\ pc[p] = "claims"
    /\ snapshot' = [snapshot EXCEPT ![p] = pvc[current[p]]]
    /\ pc' = [pc EXCEPT ![p] = IF pvc[current[p]] = 0 THEN "spaces" ELSE "recheck"]
    /\ UNCHANGED <<pvc, todo, current, answer, spacesFrame>>

RecheckLease(p) ==
    /\ pc[p] = "recheck"
    /\ pc' = [pc EXCEPT ![p] =
                 IF StillLeased(p, current[p]) THEN "deleteClaim" ELSE "spaces"]
    /\ UNCHANGED <<pvc, todo, current, snapshot, answer, spacesFrame>>

\* the precondition of the delete; without it the name decides
BadClaimMatches(p) == TRUE
ClaimMatches(p) == pvc[current[p]] = snapshot[p]

\* 404 is as good as a delete
DeleteClaim(p) ==
    /\ pc[p] = "deleteClaim"
    /\ LET n == current[p] IN
       \/ pvc[n] = 0 /\ pvc' = pvc
       \/ pvc[n] # 0 /\ ClaimMatches(p) /\ pvc' = [pvc EXCEPT ![n] = 0]
    /\ pc' = [pc EXCEPT ![p] = "spaces"]
    /\ snapshot' = [snapshot EXCEPT ![p] = 0]
    /\ UNCHANGED <<todo, current, answer, spacesFrame>>

AwaitSpaces(p) ==
    /\ pc[p] = "spaces" /\ todo[p] = {}
    /\ pc' = [pc EXCEPT ![p] = "await"]
    /\ todo' = [todo EXCEPT ![p] = spaces[p]]
    /\ UNCHANGED <<pvc, current, snapshot, answer, spacesFrame>>

SpaceGone(p, n) ==
    /\ pc[p] = "await" /\ n \in todo[p] /\ Gone(p, n)
    /\ todo' = [todo EXCEPT ![p] = @ \ {n}]
    /\ UNCHANGED <<pvc, pc, current, snapshot, answer, spacesFrame>>

\* An API error, a conflict on the claim, or the timeout of a Namespace
SpacesBlocked(p) ==
    /\ \/ pc[p] \in {"claims", "recheck", "deleteClaim"}
       \/ pc[p] \in {"spaces", "await"} /\ todo[p] # {}
    /\ Return(p, "blocked")
    /\ UNCHANGED <<cluster, memory, bounds, held>>

Complete(p) ==
    /\ pc[p] = "await" /\ todo[p] = {}
    /\ tracked' = [tracked EXCEPT ![p] = @ \ {inst[p]}]
    /\ Return(p, "complete")
    /\ UNCHANGED <<cluster, record, bounds, held>>

-----------------------------------------------------------------------------
(***************************************************************************)
(* A crash loses the memory of a process and the call it was making.       *)
(***************************************************************************)
Crash(p) ==
    /\ crashes < MaxCrashes
    /\ crashes' = crashes + 1
    /\ tracked' = [tracked EXCEPT ![p] = {}]
    /\ record' = [record EXCEPT ![p] = [i \in Instances |-> Nothing]]
    /\ Return(p, "none")
    /\ UNCHANGED <<cluster, deploys, held>>

-----------------------------------------------------------------------------
(***************************************************************************)
(* The cluster: other writers, finalizers, controllers.                    *)
(***************************************************************************)
OtherCreates(o) ==
    /\ live[o] = "absent" /\ uid[o] < MaxUid
    /\ live' = [live EXCEPT ![o] = "live"]
    /\ uid' = [uid EXCEPT ![o] = @ + 1]
    /\ tag' = [tag EXCEPT ![o] = Nobody]
    /\ held' = held \ {o}
    /\ UNCHANGED <<pvc, memory, call, bounds, start>>

OtherDeletes(o) ==
    /\ live[o] = "live"
    /\ live' = [live EXCEPT ![o] = "terminating"]
    /\ UNCHANGED <<uid, tag, pvc, memory, call, bounds, held, start>>

\* A Namespace goes when its claim is gone
Finalize(o) ==
    /\ live[o] = "terminating"
    /\ o \in Namespaces => pvc[o] = 0
    /\ live' = [live EXCEPT ![o] = "absent"]
    /\ UNCHANGED <<uid, tag, pvc, memory, call, bounds, held, start>>

\* A terminating Namespace admits no new claim
ClaimCreated(n) ==
    /\ live[n] = "live" /\ pvc[n] = 0
    /\ pvc' = [pvc EXCEPT ![n] = uid[n]]
    /\ UNCHANGED <<live, uid, tag, memory, call, bounds, held, start>>

ClaimRemoved(n) ==
    /\ pvc[n] # 0
    /\ pvc' = [pvc EXCEPT ![n] = 0]
    /\ UNCHANGED <<live, uid, tag, memory, call, bounds, held, start>>

-----------------------------------------------------------------------------
Deployment(p) ==
    \/ \E i \in Instances, target \in DeployTargets : StartDeploy(p, i, target)
    \/ \E o \in Objects : Apply(p, o) \/ ReadBack(p, o)
    \/ DeploySucceeds(p) \/ DeployFails(p)

Rollback(p) ==
    \/ \E o \in Objects : Delete(p, o) \/ DeleteAbsent(p, o) \/ DeleteRefused(p, o)
    \/ PollGone(p) \/ PollFails(p) \/ Blocked(p) \/ RolledBack(p)

Completion(p) ==
    \/ \E n \in Namespaces : CheckLease(p, n) \/ SpaceGone(p, n)
    \/ ListClaims(p) \/ RecheckLease(p) \/ DeleteClaim(p)
    \/ AwaitSpaces(p) \/ SpacesBlocked(p) \/ Complete(p)

Discovery(p) ==
    \/ \E o \in Objects : List(p, o)
    \/ NotFound(p) \/ Found(p)

Process(p) ==
    \/ Deployment(p)
    \/ \E i \in Instances, req \in Requests : StartDelete(p, i, req)
    \/ Discovery(p) \/ Rollback(p) \/ Completion(p) \/ Crash(p)

Cluster ==
    \/ \E o \in Objects : OtherCreates(o) \/ OtherDeletes(o) \/ Finalize(o)
    \/ \E n \in Namespaces : ClaimCreated(n) \/ ClaimRemoved(n)

Next == (\E p \in Processes : Process(p)) \/ Cluster

Spec == Init /\ [][Next]_vars

(***************************************************************************)
(* A process that is in a call goes on, its user tries again, finalizers   *)
(* come to an end, and the API server does not refuse for ever: a request  *)
(* that is made again and again is answered.  Nothing but the factory is   *)
(* sure to remove a claim.                                                 *)
(***************************************************************************)
Fairness ==
    /\ \A p \in Processes :
        /\ WF_vars(Process(p) /\ pc[p] # "idle")
        /\ WF_vars(\E i \in Instances, req \in Requests : StartDelete(p, i, req))
        /\ \A o \in Objects : SF_vars(Delete(p, o))
        /\ \A n \in Namespaces : SF_vars(CheckLease(p, n))
        /\ SF_vars(ListClaims(p)) /\ SF_vars(RecheckLease(p)) /\ SF_vars(DeleteClaim(p))
    /\ \A o \in Objects : WF_vars(Finalize(o))

FairSpec == Spec /\ Fairness

-----------------------------------------------------------------------------
Uid == 0 .. MaxUid

ClusterTypes ==
    /\ live \in [Objects -> {"absent", "live", "terminating"}]
    /\ uid \in [Objects -> Uid]
    /\ tag \in [Objects -> Instances \cup {Nobody}]
    /\ pvc \in [Namespaces -> Uid]
    /\ \A n \in Namespaces : pvc[n] # 0 => pvc[n] = uid[n] /\ live[n] # "absent"
    /\ held \subseteq Namespaces

MemoryTypes ==
    /\ tracked \in [Processes -> SUBSET Instances]
    /\ record \in [Processes -> [Instances -> [Objects -> Uid]]]

CallTypes ==
    /\ pc \in [Processes -> {"idle", "apply", "fold", "list", "delete", "poll", "spaces",
                             "claims", "recheck", "deleteClaim", "await"}]
    /\ inst \in [Processes -> Instances \cup {Nobody}]
    /\ request \in [Processes -> RequestKinds]
    /\ todo \in [Processes -> SUBSET Objects]
    /\ unread \in [Processes -> SUBSET Objects]
    /\ plan \in [Processes -> [Objects -> Uid]]
    /\ current \in [Processes -> Objects \cup {Nobody}]

ResultTypes ==
    /\ failed \in [Processes -> BOOLEAN]
    /\ spaces \in [Processes -> SUBSET Namespaces]
    /\ snapshot \in [Processes -> Uid]
    /\ answer \in [Processes -> {"none", "complete", "blocked"}]
    /\ deploys \in 0 .. MaxDeploys /\ crashes \in 0 .. MaxCrashes
    /\ start \in [Processes -> SUBSET [name : Objects, uid : Uid, tag : Instances \cup {Nobody}]]

\* Every variable has its type: records, plans and leases hold uids that
\* exist, and a claim belongs to the current incarnation of its Namespace.
TypeOK == ClusterTypes /\ MemoryTypes /\ CallTypes /\ ResultTypes

Present(o, u) == uid[o] = u /\ live[o] # "absent"

\* "complete" is proof: what the instance had in the cluster when it was
\* deleted, of the scopes asked for, is gone or has passed to another
\* instance; no crash, stale record or concurrent call makes it a guess.
CompleteMeansGone ==
    \A p \in Processes : answer[p] = "complete" =>
        \A s \in start[p] : s.tag = inst[p] => ~Present(s.name, s.uid)

\* The deletion of a resource is requested when every resource that depends
\* on it and is deleted in the same call is gone, unless an error was
\* recorded: finalizers of the dependents find what they depend on.
DependentsFirst ==
    [][\A p \in Processes, o \in Objects :
          (Delete(p, o) /\ ~failed[p]) =>
            \A d \in Planned(p) \ Namespaces :
                (o \in Deps[d] /\ Targets(d, request[p])) => ~Present(d, plan[p][d])]_vars

\* A Namespace is deleted only in an incarnation that a deployment applied
\* or read back at the end of the level: one that others create under the
\* name after that is left alone, however old the record that names it.  (One
\* that takes the name between the apply and the read-back is deleted.)
NamespaceLease ==
    [][\A p \in Processes, n \in Namespaces : Delete(p, n) => n \in held]_vars

\* A claim is deleted only in the incarnation of the Namespace that the
\* rollback deleted, though the name may be reused between any two of the
\* read of the Namespace, the list of the claims and the delete.
ClaimLease ==
    [][\A p \in Processes, n \in Namespaces :
          (DeleteClaim(p) /\ current[p] = n /\ pvc'[n] # pvc[n]) =>
              pvc[n] = plan[p][n]]_vars

\* Deletion that is tried again ends: whatever failed, crashed or was
\* forgotten before, nothing of an instance stays when nobody deploys it.
RetriesFinish ==
    \A o \in Objects : <>[](live[o] = "absent" \/ tag[o] = Nobody)
=============================================================================
