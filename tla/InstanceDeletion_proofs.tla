----------------------- MODULE InstanceDeletion_proofs -----------------------
(***************************************************************************)
(* Proofs about InstanceDeletion, for any objects, instances, processes,   *)
(* crashes and bounds: the leases of Namespaces and claims hold, dependents*)
(* are deleted before what they depend on, and, when lists do not fail and *)
(* deployments are whole, a deletion that is complete left nothing.        *)
(***************************************************************************)
EXTENDS InstanceDeletion, TLAPS

-----------------------------------------------------------------------------
\* A call knows its instance, and a Namespace while it looks for its claims
InCall ==
    \A p \in Processes :
        /\ pc[p] # "idle" => inst[p] \in Instances
        /\ pc[p] \in {"claims", "recheck", "deleteClaim"} => current[p] \in Namespaces

\* u is 0 or stands for an incarnation of o that has been there; if it is the
\* last one of a Namespace, a deployment applied or read it
Known(o, u) == u <= uid[o] /\ ((u = uid[o] /\ u # 0 /\ o \in Namespaces) => o \in held)

\* Records and plans name incarnations that a deployment applied or read back
\* or that a list found with the tags of the instance, which only a deployment
\* puts on; what is held stays held as long as it is the last incarnation.
UidsKnown ==
    /\ \A o \in Objects : live[o] # "absent" => uid[o] # 0
    /\ \A n \in Namespaces : tag[n] # Nobody => n \in held
    /\ \A p \in Processes, o \in Objects : Known(o, plan[p][o])
    /\ \A p \in Processes, i \in Instances, o \in Objects : Known(o, record[p][i][o])

\* What the process still knows of the Namespace that it cleans: uids only
\* grow, so a claim that is not older than the lease, in a Namespace that
\* is not younger, is a claim of the lease.
LeaseKept ==
    \A p \in Processes :
        LET n == current[p] IN
        /\ pc[p] \in {"claims", "recheck"} => uid[n] >= plan[p][n]
        /\ pc[p] = "recheck" => snapshot[p] >= plan[p][n] /\ snapshot[p] <= uid[n]
        /\ pc[p] = "deleteClaim" => snapshot[p] = plan[p][n]

LeaseInv == TypeOK /\ InCall /\ UidsKnown /\ LeaseKept

-----------------------------------------------------------------------------
(***************************************************************************)
(* Types                                                                   *)
(***************************************************************************)
LEMMA LeaseInit == Init => LeaseInv
  <1> SUFFICES ASSUME Init PROVE LeaseInv
    OBVIOUS
  <1> USE ObjectsAssumption, DeletionBounds DEF Init, Nothing
  <1>1. ClusterTypes
    BY DEF ClusterTypes, Uid
  <1>2. MemoryTypes
    BY DEF MemoryTypes, Uid
  <1>3. CallTypes
    BY DEF CallTypes, Uid, RequestKinds
  <1>4. ResultTypes
    BY DEF ResultTypes, Uid
  <1>5. InCall /\ LeaseKept
    BY DEF InCall, LeaseKept
  <1>6. UidsKnown
    BY DEF UidsKnown, Known
  <1> QED
    BY <1>1, <1>2, <1>3, <1>4, <1>5, <1>6 DEF LeaseInv, TypeOK

LEMMA ClusterStep == LeaseInv /\ [Next]_vars => ClusterTypes'
  <1> SUFFICES ASSUME LeaseInv, [Next]_vars PROVE ClusterTypes'
    OBVIOUS
  <1> USE ObjectsAssumption, DeletionBounds
      DEF LeaseInv, TypeOK, ClusterTypes, Uid, cluster
  <1>1. ASSUME NEW p \in Processes, NEW o \in Objects, Apply(p, o) PROVE ClusterTypes'
    <2>1. inst[p] \in Instances
      BY <1>1 DEF Apply, InLevel, InCall
    <2>2. tag' \in [Objects -> Instances \cup {Nobody}]
      BY <1>1, <2>1 DEF Apply
    <2>3. held' \subseteq Namespaces
      BY <1>1 DEF Apply
    <2> QED
      BY <1>1, <2>2, <2>3 DEF Apply
  <1>2. ASSUME NEW p \in Processes, Deployment(p),
               \A o \in Objects : ~Apply(p, o)
        PROVE  ClusterTypes'
    BY <1>2 DEF Deployment, StartDeploy, ReadBack, DeploySucceeds, DeployFails
  <1>3. ASSUME NEW p \in Processes,
               \/ \E i \in Instances, req \in Requests : StartDelete(p, i, req)
               \/ Discovery(p) \/ Crash(p)
        PROVE  ClusterTypes'
    BY <1>3 DEF StartDelete, Discovery, List, NotFound, Found, Crash
  <1>4. ASSUME NEW p \in Processes, Rollback(p) PROVE ClusterTypes'
    BY <1>4 DEF Rollback, Delete, DeleteAbsent, DeleteRefused, PollGone, PollFails, Blocked,
      RolledBack, deleteFrame
  <1>5. ASSUME NEW p \in Processes, DeleteClaim(p) PROVE ClusterTypes'
    BY <1>5 DEF DeleteClaim, spacesFrame
  <1>6. ASSUME NEW p \in Processes, Completion(p), ~DeleteClaim(p) PROVE ClusterTypes'
    BY <1>6 DEF Completion, CheckLease, SpaceGone, ListClaims, RecheckLease,
      AwaitSpaces, SpacesBlocked, Complete, spacesFrame
  <1>7. CASE Cluster
    BY <1>7 DEF Cluster, OtherCreates, OtherDeletes, Finalize, ClaimCreated, ClaimRemoved
  <1>8. CASE UNCHANGED vars
    BY <1>8 DEF vars
  <1> QED
    BY <1>1, <1>2, <1>3, <1>4, <1>5, <1>6, <1>7, <1>8 DEF Next, Process

\* The steps that leave the memory of every process alone
LEMMA MemoryFrame ==
  ASSUME NEW p \in Processes, Process(p), ~DeploySucceeds(p), ~Blocked(p), ~RolledBack(p),
         ~Complete(p), ~Crash(p)
  PROVE  UNCHANGED memory
  <1> USE DEF memory
  <1>1. ASSUME Deployment(p) PROVE UNCHANGED memory
    BY <1>1 DEF Deployment, StartDeploy, Apply, ReadBack, DeployFails
  <1>2. ASSUME \/ \E i \in Instances, req \in Requests : StartDelete(p, i, req)
               \/ Discovery(p)
        PROVE  UNCHANGED memory
    BY <1>2 DEF StartDelete, Discovery, List, NotFound, Found
  <1>3. ASSUME Rollback(p) PROVE UNCHANGED memory
    BY <1>3 DEF Rollback, Delete, DeleteAbsent, DeleteRefused, PollGone, PollFails, deleteFrame
  <1>4. ASSUME Completion(p) PROVE UNCHANGED memory
    BY <1>4 DEF Completion, CheckLease, SpaceGone, ListClaims, RecheckLease, DeleteClaim,
      AwaitSpaces, SpacesBlocked, spacesFrame
  <1> QED
    BY <1>1, <1>2, <1>3, <1>4 DEF Process

LEMMA MemoryStep == LeaseInv /\ [Next]_vars => MemoryTypes'
  <1> SUFFICES ASSUME LeaseInv, [Next]_vars PROVE MemoryTypes'
    OBVIOUS
  <1> USE DEF LeaseInv, TypeOK, MemoryTypes
  <1>0. Nothing \in [Objects -> Uid]
    BY DeletionBounds DEF Nothing, Uid
  <1>1. ASSUME NEW p \in Processes, DeploySucceeds(p) PROVE MemoryTypes'
    <2>1. inst[p] \in Instances /\ plan[p] \in [Objects -> Uid]
      BY <1>1 DEF DeploySucceeds, InCall, CallTypes
    <2>2. /\ tracked' = [tracked EXCEPT ![p] = @ \cup {inst[p]}]
          /\ record' = [record EXCEPT ![p] = [@ EXCEPT ![inst[p]] = plan[p]]]
      BY <1>1 DEF DeploySucceeds
    <2> QED
      BY <2>1, <2>2
  <1>2. ASSUME NEW p \in Processes, Blocked(p) \/ RolledBack(p) PROVE MemoryTypes'
    <2>1. /\ tracked' = tracked
          /\ record' = [record EXCEPT ![p] = [@ EXCEPT ![inst[p]] = Nothing]]
      BY <1>2 DEF Blocked, RolledBack, Forget
    <2> QED
      BY <1>0, <2>1
  <1>3. ASSUME NEW p \in Processes, Complete(p) PROVE MemoryTypes'
    BY <1>3 DEF Complete
  <1>4. ASSUME NEW p \in Processes, Crash(p) PROVE MemoryTypes'
    BY <1>0, <1>4 DEF Crash
  <1>5. CASE UNCHANGED memory
    BY <1>5 DEF memory
  <1>6. CASE Cluster
    BY <1>5, <1>6 DEF Cluster, OtherCreates, OtherDeletes, Finalize, ClaimCreated, ClaimRemoved
  <1>7. CASE UNCHANGED vars
    BY <1>5, <1>7 DEF vars
  <1>8. ASSUME NEW p \in Processes, Process(p) PROVE MemoryTypes'
    BY <1>1, <1>2, <1>3, <1>4, <1>5, <1>8, MemoryFrame
  <1> QED
    BY <1>6, <1>7, <1>8 DEF Next

LEMMA ReturnTypes ==
  ASSUME CallTypes, ResultTypes, NEW p \in Processes,
         NEW result \in {"none", "complete", "blocked"}, Return(p, result)
  PROVE  /\ CallTypes'
         /\ failed' \in [Processes -> BOOLEAN] /\ spaces' \in [Processes -> SUBSET Namespaces]
         /\ snapshot' \in [Processes -> Uid]
         /\ answer' \in [Processes -> {"none", "complete", "blocked"}]
         /\ start' \in [Processes -> SUBSET [name : Objects, uid : Uid,
                                             tag : Instances \cup {Nobody}]]
         /\ pc'[p] = "idle"
         /\ \A r \in Processes \ {p} : /\ pc'[r] = pc[r] /\ inst'[r] = inst[r]
                                       /\ current'[r] = current[r]
  <1>1. Nothing \in [Objects -> Uid] /\ 0 \in Uid
    BY DeletionBounds DEF Nothing, Uid
  <1>2. /\ pc' \in [Processes -> {"idle", "apply", "fold", "list", "delete", "poll",
                                  "spaces", "claims", "recheck", "deleteClaim", "await"}]
        /\ pc'[p] = "idle"
        /\ request' \in [Processes -> RequestKinds]
        /\ todo' \in [Processes -> SUBSET Objects]
        /\ unread' \in [Processes -> SUBSET Objects]
    BY DEF Return, CallTypes, RequestKinds
  <1>3. plan' \in [Processes -> [Objects -> Uid]]
    BY <1>1 DEF Return, CallTypes
  <1>4. /\ current' \in [Processes -> Objects \cup {Nobody}]
        /\ inst' \in [Processes -> Instances \cup {Nobody}]
    BY DEF Return, CallTypes
  <1>5. /\ failed' \in [Processes -> BOOLEAN] /\ spaces' \in [Processes -> SUBSET Namespaces]
        /\ snapshot' \in [Processes -> Uid]
        /\ answer' \in [Processes -> {"none", "complete", "blocked"}]
    BY <1>1 DEF Return, ResultTypes
  <1>6. start' \in [Processes -> SUBSET [name : Objects, uid : Uid,
                                         tag : Instances \cup {Nobody}]]
    BY DEF Return, ResultTypes
  <1>7. \A r \in Processes \ {p} : /\ pc'[r] = pc[r] /\ inst'[r] = inst[r]
                                   /\ current'[r] = current[r]
    BY DEF Return, CallTypes
  <1> QED
    BY <1>2, <1>3, <1>4, <1>5, <1>6, <1>7 DEF CallTypes

LEMMA CallStep == LeaseInv /\ [Next]_vars => CallTypes' /\ InCall'
  <1> SUFFICES ASSUME LeaseInv, [Next]_vars PROVE CallTypes' /\ InCall'
    OBVIOUS
  <1> USE DEF LeaseInv, TypeOK, InCall, call
  <1>1. ASSUME NEW p \in Processes, NEW i \in Instances, NEW target \in DeployTargets,
               StartDeploy(p, i, target)
        PROVE  CallTypes' /\ InCall'
    <2>1. PartOf[i] \subseteq Objects
      BY ObjectsAssumption
    <2> QED
      BY <1>1, <2>1 DEF StartDeploy, CallTypes
  <1>2. ASSUME NEW p \in Processes, NEW o \in Objects, Apply(p, o)
        PROVE  CallTypes' /\ InCall'
    <2>1. uid'[o] \in Uid
      BY ClusterStep DEF ClusterTypes
    <2>2. /\ plan' = [plan EXCEPT ![p] = [@ EXCEPT ![o] = uid'[o]]]
          /\ todo' = [todo EXCEPT ![p] = @ \ {o}]
          /\ unread' = [unread EXCEPT ![p] = @ \cup {o}]
          /\ UNCHANGED <<pc, inst, request, current>>
      BY <1>2 DEF Apply
    <2>3. plan' \in [Processes -> [Objects -> Uid]]
      BY <2>1, <2>2 DEF CallTypes
    <2>4. unread' \in [Processes -> SUBSET Objects]
      BY <2>2 DEF CallTypes
    <2>5. todo' \in [Processes -> SUBSET Objects]
      BY <2>2 DEF CallTypes
    <2>6. InCall'
      BY <2>2
    <2> QED
      BY <2>2, <2>3, <2>4, <2>5, <2>6 DEF CallTypes
  <1>2b. ASSUME NEW p \in Processes, NEW o \in Objects, ReadBack(p, o)
         PROVE  CallTypes' /\ InCall'
    <2>1. uid[o] \in Uid
      BY DEF ClusterTypes
    <2>2. plan' = plan \/ plan' = [plan EXCEPT ![p] = [@ EXCEPT ![o] = uid[o]]]
      BY <1>2b DEF ReadBack
    <2>3. plan' \in [Processes -> [Objects -> Uid]]
      <3>1. plan \in [Processes -> [Objects -> Uid]]
        BY DEF CallTypes
      <3>2. [plan[p] EXCEPT ![o] = uid[o]] \in [Objects -> Uid]
        BY <2>1, <3>1
      <3> QED
        BY <2>2, <3>1, <3>2
    <2>4. /\ unread' = [unread EXCEPT ![p] = @ \ {o}]
          /\ pc[p] # "idle"
          /\ \E next \in {"apply", "fold"} : pc' = [pc EXCEPT ![p] = next]
          /\ UNCHANGED <<todo, inst, request, current>>
      BY <1>2b DEF ReadBack
    <2> QED
      BY <2>3, <2>4 DEF CallTypes
  <1>3. ASSUME NEW p \in Processes, NEW result \in {"none", "complete", "blocked"},
               Return(p, result)
        PROVE  CallTypes' /\ InCall'
    BY <1>3, ReturnTypes
  <1>4. ASSUME NEW p \in Processes, NEW i \in Instances, NEW req \in Requests,
               StartDelete(p, i, req)
        PROVE  CallTypes' /\ InCall'
    <2>1. record[p][i] \in [Objects -> Uid] /\ req \in RequestKinds
      BY DeletionBounds DEF MemoryTypes
    <2>2. /\ inst' = [inst EXCEPT ![p] = i] /\ request' = [request EXCEPT ![p] = req]
          /\ current' = current /\ unread' = unread
      BY <1>4 DEF StartDelete
    <2>3. CASE Remembers(p, i)
      <3>1. /\ pc' = [pc EXCEPT ![p] = "delete"]
            /\ plan' = [plan EXCEPT ![p] = record[p][i]]
            /\ todo' = [todo EXCEPT ![p] = {o \in Objects :
                            record[p][i][o] # 0 /\ Targets(o, req)}]
        BY <1>4, <2>3 DEF StartDelete
      <3>2. plan' \in [Processes -> [Objects -> Uid]]
        BY <2>1, <3>1 DEF CallTypes
      <3>3. todo' \in [Processes -> SUBSET Objects]
        BY <3>1 DEF CallTypes
      <3> QED
        BY <2>1, <2>2, <3>1, <3>2, <3>3 DEF CallTypes
    <2>4. CASE ~Remembers(p, i)
      <3>1. /\ pc' = [pc EXCEPT ![p] = "list"] /\ plan' = plan
            /\ todo' = [todo EXCEPT ![p] = Objects]
        BY <1>4, <2>4 DEF StartDelete
      <3> QED
        BY <2>1, <2>2, <3>1 DEF CallTypes
    <2> QED
      BY <2>3, <2>4
  <1>5. ASSUME NEW p \in Processes, NEW o \in Objects, List(p, o)
        PROVE  CallTypes' /\ InCall'
    <2>1. uid[o] \in Uid /\ 0 \in Uid
      BY DeletionBounds DEF ClusterTypes, Uid
    <2> DEFINE u == IF Listed(p, o) THEN uid[o] ELSE 0
    <2>2. plan' = plan \/ plan' = [plan EXCEPT ![p] = [@ EXCEPT ![o] = u]]
      BY <1>5 DEF List
    <2>3. u \in Uid
      BY <2>1
    <2> HIDE DEF u
    <2>4. plan' \in [Processes -> [Objects -> Uid]]
      <3>1. plan \in [Processes -> [Objects -> Uid]]
        BY DEF CallTypes
      <3>2. [plan[p] EXCEPT ![o] = u] \in [Objects -> Uid]
        BY <2>3, <3>1
      <3> QED
        BY <2>2, <3>1, <3>2
    <2>5. /\ todo' = [todo EXCEPT ![p] = @ \ {o}]
          /\ UNCHANGED <<pc, inst, request, current, unread>>
      BY <1>5 DEF List
    <2> QED
      BY <2>4, <2>5 DEF CallTypes
  <1>6. ASSUME NEW p \in Processes, Found(p) PROVE CallTypes' /\ InCall'
    BY <1>6 DEF Found, Planned, CallTypes
  <1>7. ASSUME NEW p \in Processes, NEW o \in Objects,
               Delete(p, o) \/ DeleteAbsent(p, o) \/ DeleteRefused(p, o)
        PROVE  CallTypes' /\ InCall'
    <2>1. /\ todo' = [todo EXCEPT ![p] = @ \ {o}]
          /\ UNCHANGED <<inst, request, plan, unread>> /\ pc[p] = "delete"
          /\ \/ UNCHANGED <<pc, current>>
             \/ pc' = [pc EXCEPT ![p] = "poll"] /\ current' = [current EXCEPT ![p] = o]
      BY <1>7 DEF Delete, DeleteAbsent, DeleteRefused, deleteFrame
    <2>2. CASE UNCHANGED <<pc, current>>
      BY <2>1, <2>2 DEF CallTypes
    <2>3. CASE pc' = [pc EXCEPT ![p] = "poll"] /\ current' = [current EXCEPT ![p] = o]
      BY <2>1, <2>3 DEF CallTypes
    <2> QED
      BY <2>1, <2>2, <2>3
  <1>8. ASSUME NEW p \in Processes, PollGone(p) \/ PollFails(p) PROVE CallTypes' /\ InCall'
    BY <1>8 DEF PollGone, PollFails, deleteFrame, CallTypes
  <1>9. ASSUME NEW p \in Processes, RolledBack(p) PROVE CallTypes' /\ InCall'
    <2>1. spaces[p] \subseteq Objects
      BY ObjectsAssumption DEF ResultTypes
    <2> QED
      BY <1>9, <2>1 DEF RolledBack, CallTypes
  <1>10. ASSUME NEW p \in Processes, NEW n \in Namespaces, CheckLease(p, n) \/ SpaceGone(p, n)
         PROVE  CallTypes' /\ InCall'
    <2>1. /\ todo' = [todo EXCEPT ![p] = @ \ {n}]
          /\ UNCHANGED <<inst, request, plan, unread>> /\ pc[p] \in {"spaces", "await"}
          /\ \/ UNCHANGED <<pc, current>>
             \/ pc' = [pc EXCEPT ![p] = "claims"] /\ current' = [current EXCEPT ![p] = n]
      BY <1>10 DEF CheckLease, SpaceGone, spacesFrame
    <2>2. n \in Objects
      BY ObjectsAssumption
    <2> QED
      BY <2>1, <2>2 DEF CallTypes
  <1>11. ASSUME NEW p \in Processes, ListClaims(p) \/ RecheckLease(p) \/ DeleteClaim(p)
         PROVE  CallTypes' /\ InCall'
    <2>1. /\ UNCHANGED <<inst, request, plan, todo, unread, current>>
          /\ pc[p] \in {"claims", "recheck", "deleteClaim"}
          /\ \E next \in {"spaces", "recheck", "deleteClaim"} : pc' = [pc EXCEPT ![p] = next]
      BY <1>11 DEF ListClaims, RecheckLease, DeleteClaim, spacesFrame
    <2> QED
      BY <2>1 DEF CallTypes
  <1>12. ASSUME NEW p \in Processes, AwaitSpaces(p) PROVE CallTypes' /\ InCall'
    <2>1. spaces[p] \subseteq Objects
      BY ObjectsAssumption DEF ResultTypes
    <2> QED
      BY <1>12, <2>1 DEF AwaitSpaces, spacesFrame, CallTypes
  <1>13. CASE UNCHANGED call
    BY <1>13 DEF CallTypes
  <1>14. CASE Cluster
    BY <1>13, <1>14 DEF Cluster, OtherCreates, OtherDeletes, Finalize, ClaimCreated, ClaimRemoved
  <1>15. CASE UNCHANGED vars
    BY <1>13, <1>15 DEF vars
  <1>16. ASSUME NEW p \in Processes, Process(p) PROVE CallTypes' /\ InCall'
    <2>1. ASSUME DeploySucceeds(p) \/ DeployFails(p) \/ NotFound(p) \/ Crash(p)
                 \/ Blocked(p) \/ SpacesBlocked(p) \/ Complete(p)
          PROVE  CallTypes' /\ InCall'
      BY <1>3, <2>1 DEF DeploySucceeds, DeployFails, NotFound, Crash, Blocked,
        SpacesBlocked, Complete
    <2>2. ASSUME Deployment(p) \/ Discovery(p) PROVE CallTypes' /\ InCall'
      BY <1>1, <1>2, <1>5, <1>6, <1>2b, <2>1, <2>2 DEF Deployment, Discovery
    <2>3. ASSUME Rollback(p) PROVE CallTypes' /\ InCall'
      BY <1>7, <1>8, <1>9, <2>1, <2>3 DEF Rollback
    <2>4. ASSUME Completion(p) PROVE CallTypes' /\ InCall'
      BY <1>10, <1>11, <1>12, <2>1, <2>4 DEF Completion
    <2> QED
      BY <1>4, <1>16, <2>1, <2>2, <2>3, <2>4 DEF Process
  <1> QED
    BY <1>14, <1>15, <1>16 DEF Next

LEMMA ResultStep == LeaseInv /\ [Next]_vars => ResultTypes'
  <1> SUFFICES ASSUME LeaseInv, [Next]_vars PROVE ResultTypes'
    OBVIOUS
  <1> USE DEF LeaseInv, TypeOK, bounds
  <1>1. ASSUME NEW p \in Processes, NEW i \in Instances, NEW target \in DeployTargets,
               StartDeploy(p, i, target)
        PROVE  ResultTypes'
    <2>1. /\ deploys' \in 0 .. MaxDeploys /\ crashes' = crashes
      BY <1>1, DeletionBounds DEF StartDeploy, ResultTypes
    <2>2. /\ answer' = [answer EXCEPT ![p] = "none"] /\ start' = [start EXCEPT ![p] = {}]
          /\ UNCHANGED <<failed, spaces, snapshot>>
      BY <1>1 DEF StartDeploy
    <2> QED
      BY <2>1, <2>2 DEF ResultTypes
  <1>2. ASSUME NEW p \in Processes, NEW o \in Objects, Apply(p, o) PROVE ResultTypes'
    <2>1. UNCHANGED <<failed, spaces, snapshot, answer, deploys, crashes>>
      BY <1>2 DEF Apply
    <2>2. \/ start' = start
          \/ start' = [q \in Processes |->
                          {s \in start[q] : s.name = o => s.tag = inst[p]}]
      BY <1>2 DEF Apply
    <2> QED
      BY <2>1, <2>2 DEF ResultTypes
  <1>2b. ASSUME NEW p \in Processes, NEW o \in Objects, ReadBack(p, o) PROVE ResultTypes'
    BY <1>2b DEF ReadBack, ResultTypes
  <1>3. ASSUME NEW p \in Processes,
               DeploySucceeds(p) \/ DeployFails(p) \/ NotFound(p) \/ Crash(p)
               \/ Blocked(p) \/ SpacesBlocked(p) \/ Complete(p)
        PROVE  ResultTypes'
    <2>1. deploys' = deploys /\ crashes' \in 0 .. MaxCrashes
      BY <1>3, DeletionBounds DEF DeploySucceeds, DeployFails, NotFound, Crash, Blocked,
        SpacesBlocked, Complete, ResultTypes
    <2>2. \E result \in {"none", "complete", "blocked"} : Return(p, result)
      BY <1>3 DEF DeploySucceeds, DeployFails, NotFound, Crash, Blocked, SpacesBlocked, Complete
    <2> QED
      BY <2>1, <2>2, ReturnTypes DEF ResultTypes
  <1>4. ASSUME NEW p \in Processes, NEW i \in Instances, NEW req \in Requests,
               StartDelete(p, i, req)
        PROVE  ResultTypes'
    <2> DEFINE S == {[name |-> o, uid |-> uid[o], tag |-> tag[o]] : o \in {q \in PartOf[i] :
                        Targets(q, req) /\ live[q] # "absent"}}
    <2>1. S \subseteq [name : Objects, uid : Uid, tag : Instances \cup {Nobody}]
      BY ObjectsAssumption DEF ClusterTypes
    <2>2. start' = [start EXCEPT ![p] = S] /\ answer' = [answer EXCEPT ![p] = "none"]
      BY <1>4 DEF StartDelete
    <2>3. UNCHANGED <<failed, spaces, snapshot, deploys, crashes>>
      BY <1>4 DEF StartDelete
    <2> HIDE DEF S
    <2> QED
      BY <2>1, <2>2, <2>3 DEF ResultTypes
  <1>5. ASSUME NEW p \in Processes, Discovery(p), ~NotFound(p) PROVE ResultTypes'
    BY <1>5 DEF Discovery, List, Found, ResultTypes
  <1>6. ASSUME NEW p \in Processes, NEW o \in Objects,
               Delete(p, o) \/ DeleteAbsent(p, o) \/ DeleteRefused(p, o)
        PROVE  ResultTypes'
    <2>1. UNCHANGED <<snapshot, answer, deploys, crashes, start>>
      BY <1>6 DEF Delete, DeleteAbsent, DeleteRefused, deleteFrame
    <2>2. \/ failed' = failed \/ failed' = [failed EXCEPT ![p] = TRUE]
      BY <1>6 DEF Delete, DeleteAbsent, DeleteRefused
    <2>3. spaces' = spaces \/ (o \in Namespaces /\ spaces' = [spaces EXCEPT ![p] = @ \cup {o}])
      BY <1>6 DEF Delete, DeleteAbsent, DeleteRefused
    <2>4. failed' \in [Processes -> BOOLEAN]
      BY <2>2 DEF ResultTypes
    <2>5. spaces' \in [Processes -> SUBSET Namespaces]
      BY <2>3 DEF ResultTypes
    <2> QED
      BY <2>1, <2>4, <2>5 DEF ResultTypes
  <1>7. ASSUME NEW p \in Processes, PollGone(p) \/ PollFails(p) \/ RolledBack(p)
        PROVE  ResultTypes'
    BY <1>7 DEF PollGone, PollFails, RolledBack, deleteFrame, ResultTypes
  <1>8. ASSUME NEW p \in Processes, ListClaims(p) PROVE ResultTypes'
    BY <1>8 DEF ListClaims, spacesFrame, InCall, ClusterTypes, ResultTypes
  <1>9. ASSUME NEW p \in Processes, DeleteClaim(p) PROVE ResultTypes'
    <2>1. 0 \in Uid
      BY DeletionBounds DEF Uid
    <2> QED
      BY <1>9, <2>1 DEF DeleteClaim, spacesFrame, ResultTypes
  <1>10. ASSUME NEW p \in Processes,
                \/ \E n \in Namespaces : CheckLease(p, n) \/ SpaceGone(p, n)
                \/ RecheckLease(p) \/ AwaitSpaces(p)
         PROVE  ResultTypes'
    BY <1>10 DEF CheckLease, SpaceGone, RecheckLease, AwaitSpaces, spacesFrame, ResultTypes
  <1>11. CASE Cluster
    BY <1>11 DEF Cluster, OtherCreates, OtherDeletes, Finalize, ClaimCreated, ClaimRemoved,
      call, ResultTypes
  <1>12. CASE UNCHANGED vars
    BY <1>12 DEF vars, call, ResultTypes
  <1>13. ASSUME NEW p \in Processes, Process(p) PROVE ResultTypes'
    <2>1. ASSUME Deployment(p) \/ Discovery(p) PROVE ResultTypes'
      BY <1>1, <1>2, <1>3, <1>5, <1>2b, <2>1 DEF Deployment
    <2>2. ASSUME Rollback(p) PROVE ResultTypes'
      BY <1>3, <1>6, <1>7, <2>2 DEF Rollback
    <2>3. ASSUME Completion(p) PROVE ResultTypes'
      BY <1>3, <1>8, <1>9, <1>10, <2>3 DEF Completion
    <2> QED
      BY <1>3, <1>4, <1>13, <2>1, <2>2, <2>3 DEF Process
  <1> QED
    BY <1>11, <1>12, <1>13 DEF Next

-----------------------------------------------------------------------------
(***************************************************************************)
(* Uids                                                                    *)
(***************************************************************************)

\* What an action does to the cluster keeps the incarnations that are known:
\* uids grow, an object that is there has one, and a Namespace that is held
\* is let go of only with a new uid; one that carries tags is held.
Grows ==
    /\ \A o \in Objects : live'[o] # "absent" => uid'[o] # 0
    /\ \A o \in Objects : uid[o] <= uid'[o]
    /\ \A n \in Namespaces : (uid'[n] = uid[n] /\ n \in held) => n \in held'
    /\ \A n \in Namespaces : tag'[n] # Nobody => n \in held'

LEMMA KnownStays ==
  ASSUME LeaseInv, ClusterTypes', Grows, NEW o \in Objects, NEW u \in Uid, Known(o, u)
  PROVE  Known(o, u)'
  <1>1. uid[o] \in Nat /\ uid'[o] \in Nat /\ u \in Nat
    BY DeletionBounds DEF LeaseInv, TypeOK, ClusterTypes, Uid
  <1> QED
    BY <1>1 DEF Known, Grows

\* What a deployment does to an object
LEMMA AppliedObjects ==
  ASSUME NEW p, NEW o, Apply(p, o)
  PROVE  \/ UNCHANGED <<live, uid>>
         \/ /\ live' = [live EXCEPT ![o] = "live"]
            /\ uid' = [uid EXCEPT ![o] = @ + 1]
  BY DEF Apply

LEMMA ClusterGrows == LeaseInv /\ [Next]_vars => Grows
  <1> SUFFICES ASSUME LeaseInv, [Next]_vars PROVE Grows
    OBVIOUS
  <1> USE ObjectsAssumption, DeletionBounds
      DEF LeaseInv, TypeOK, ClusterTypes, UidsKnown, Grows, Uid, cluster
  <1>1. ASSUME NEW p \in Processes, NEW o \in Objects, Apply(p, o) PROVE Grows
    <2>1. held' = held \cup ({o} \cap Namespaces)
      BY <1>1 DEF Apply
    <2>2. \A n \in Namespaces : tag'[n] # Nobody => n \in held'
      <3>1. tag' = tag \/ tag' = [tag EXCEPT ![o] = inst[p]]
        BY <1>1 DEF Apply
      <3>2. ASSUME NEW n \in Namespaces, n # o PROVE tag'[n] = tag[n]
        BY <3>1, <3>2
      <3> QED
        BY <2>1, <3>2
    <2>3. \/ UNCHANGED <<live, uid>>
          \/ /\ live' = [live EXCEPT ![o] = "live"]
             /\ uid' = [uid EXCEPT ![o] = @ + 1]
      BY <1>1, AppliedObjects
    <2>4. ASSUME NEW x \in Objects
          PROVE  uid[x] <= uid'[x] /\ (live'[x] # "absent" => uid'[x] # 0)
      <3>1. uid[x] \in Nat /\ (live[x] # "absent" => uid[x] # 0)
        OBVIOUS
      <3>2. (uid'[x] = uid[x] /\ live'[x] = live[x]) \/ uid'[x] = uid[x] + 1
        BY <2>3
      <3> QED
        BY <3>1, <3>2
    <2> QED
      BY <2>1, <2>2, <2>4
  <1>2. ASSUME NEW p \in Processes, NEW o \in Objects, Delete(p, o) PROVE Grows
    BY <1>2 DEF Delete, deleteFrame
  <1>2b. ASSUME NEW p \in Processes, NEW o \in Objects, ReadBack(p, o) PROVE Grows
    BY <1>2b DEF ReadBack
  <1>3. ASSUME NEW p \in Processes, Process(p),
               \A o \in Objects : ~Apply(p, o) /\ ~Delete(p, o) /\ ~ReadBack(p, o)
        PROVE  UNCHANGED <<live, uid, tag, held>>
    <2>1. ASSUME Deployment(p) PROVE UNCHANGED <<live, uid, tag, held>>
      BY <1>3, <2>1 DEF Deployment, StartDeploy, DeploySucceeds, DeployFails
    <2>2. ASSUME Discovery(p) PROVE UNCHANGED <<live, uid, tag, held>>
      BY <2>2 DEF Discovery, List, NotFound, Found
    <2>3. ASSUME Rollback(p) PROVE UNCHANGED <<live, uid, tag, held>>
      BY <1>3, <2>3 DEF Rollback, DeleteAbsent, DeleteRefused, PollGone, PollFails, Blocked,
        RolledBack, deleteFrame
    <2>4. ASSUME Completion(p) PROVE UNCHANGED <<live, uid, tag, held>>
      BY <2>4 DEF Completion, CheckLease, SpaceGone, ListClaims, RecheckLease, DeleteClaim,
        AwaitSpaces, SpacesBlocked, Complete, spacesFrame
    <2>5. ASSUME \/ \E i \in Instances, req \in Requests : StartDelete(p, i, req)
                 \/ Crash(p)
          PROVE  UNCHANGED <<live, uid, tag, held>>
      BY <2>5 DEF StartDelete, Crash
    <2> QED
      BY <1>3, <2>1, <2>2, <2>3, <2>4, <2>5 DEF Process
  <1>4. CASE UNCHANGED <<live, uid, tag, held>>
    BY <1>4
  <1>5. CASE Cluster
    BY <1>5 DEF Cluster, OtherCreates, OtherDeletes, Finalize, ClaimCreated, ClaimRemoved
  <1>6. CASE UNCHANGED vars
    BY <1>4, <1>6 DEF vars
  <1> QED
    BY <1>1, <1>2, <1>3, <1>4, <1>5, <1>6, <1>2b DEF Next

\* A plan takes its uids from the cluster, a record, or the step before.
LEMMA PlanStep ==
  LeaseInv /\ [Next]_vars =>
      \A p \in Processes, o \in Objects :
          \/ plan'[p][o] \in {plan[p][o], 0}
          \/ \E i \in Instances : plan'[p][o] = record[p][i][o]
          \/ plan'[p][o] = uid'[o] /\ (o \in Namespaces => o \in held')
  <1> SUFFICES ASSUME LeaseInv, [Next]_vars, NEW p \in Processes, NEW o \in Objects
               PROVE  \/ plan'[p][o] \in {plan[p][o], 0}
                      \/ \E i \in Instances : plan'[p][o] = record[p][i][o]
                      \/ plan'[p][o] = uid'[o] /\ (o \in Namespaces => o \in held')
    OBVIOUS
  <1> DEFINE Goal == \/ plan'[p][o] \in {plan[p][o], 0}
                     \/ \E i \in Instances : plan'[p][o] = record[p][i][o]
                     \/ plan'[p][o] = uid'[o] /\ (o \in Namespaces => o \in held')
  <1> USE ObjectsAssumption DEF LeaseInv, TypeOK, CallTypes, call
  <1>1. ASSUME NEW r \in Processes, NEW x \in Objects, Apply(r, x) PROVE Goal
    <2>1. plan' = [plan EXCEPT ![r] = [@ EXCEPT ![x] = uid'[x]]]
      BY <1>1 DEF Apply
    <2>2. x \in Namespaces => x \in held'
      BY <1>1 DEF Apply
    <2>3. plan'[p][o] = plan[p][o] \/ (o = x /\ plan'[p][o] = uid'[x])
      BY <2>1
    <2> QED
      BY <2>2, <2>3
  <1>1b. ASSUME NEW r \in Processes, NEW x \in Objects, ReadBack(r, x) PROVE Goal
    <2>1. CASE UNCHANGED plan
      BY <2>1
    <2>2. CASE plan' = [plan EXCEPT ![r] = [@ EXCEPT ![x] = uid[x]]]
               /\ held' = held \cup ({x} \cap Namespaces)
      <3>1. uid' = uid
        BY <1>1b DEF ReadBack, cluster
      <3>2. plan'[p][o] = plan[p][o] \/ (o = x /\ plan'[p][o] = uid'[x])
        BY <2>2, <3>1
      <3> QED
        BY <2>2, <3>2
    <2> QED
      BY <1>1b, <2>1, <2>2 DEF ReadBack
  <1>2. ASSUME NEW r \in Processes, NEW x \in Objects, List(r, x) PROVE Goal
    <2>1. inst[r] \in Instances
      BY <1>2 DEF List, InCall
    <2>2. (Listed(r, x) /\ x \in Namespaces) => x \in held'
      BY <1>2, <2>1 DEF List, Listed, UidsKnown
    <2> QED
      BY <1>2, <2>2 DEF List, cluster
  <1>3. ASSUME NEW r \in Processes, NEW i \in Instances, NEW req \in Requests,
               StartDelete(r, i, req)
        PROVE  Goal
    BY <1>3 DEF StartDelete
  <1>4. ASSUME NEW r \in Processes,
               DeploySucceeds(r) \/ DeployFails(r) \/ NotFound(r) \/ Crash(r)
               \/ Blocked(r) \/ SpacesBlocked(r) \/ Complete(r)
        PROVE  Goal
    <2>1. plan' = [plan EXCEPT ![r] = Nothing]
      BY <1>4 DEF DeploySucceeds, DeployFails, NotFound, Crash, Blocked, SpacesBlocked,
        Complete, Return
    <2>2. plan'[p] = IF p = r THEN Nothing ELSE plan[p]
      BY <2>1
    <2> QED
      BY <2>2 DEF Nothing
  <1>5. ASSUME NEW r \in Processes,
               \/ \E i \in Instances, target \in DeployTargets : StartDeploy(r, i, target)
               \/ Found(r)
        PROVE  plan' = plan
    BY <1>5 DEF StartDeploy, Found
  <1>6. ASSUME NEW r \in Processes, Rollback(r), ~Blocked(r) PROVE plan' = plan
    BY <1>6 DEF Rollback, Delete, DeleteAbsent, DeleteRefused, PollGone, PollFails,
      RolledBack, deleteFrame
  <1>7. ASSUME NEW r \in Processes, Completion(r), ~SpacesBlocked(r), ~Complete(r)
        PROVE  plan' = plan
    BY <1>7 DEF Completion, CheckLease, SpaceGone, ListClaims, RecheckLease, DeleteClaim,
      AwaitSpaces, spacesFrame
  <1>8. ASSUME Cluster PROVE plan' = plan
    BY <1>8 DEF Cluster, OtherCreates, OtherDeletes, Finalize, ClaimCreated, ClaimRemoved
  <1>9. ASSUME UNCHANGED vars PROVE plan' = plan
    BY <1>9 DEF vars
  <1>10. ASSUME plan' = plan PROVE Goal
    BY <1>10
  <1> HIDE DEF Goal
  <1>11. ASSUME NEW r \in Processes, Deployment(r) \/ Discovery(r) PROVE Goal
    BY <1>1, <1>2, <1>4, <1>5, <1>10, <1>11, <1>1b DEF Deployment, Discovery
  <1>12. ASSUME NEW r \in Processes, Rollback(r) \/ Completion(r) \/ Crash(r) PROVE Goal
    BY <1>4, <1>6, <1>7, <1>10, <1>12
  <1>13. ASSUME NEW r \in Processes, Process(r) PROVE Goal
    BY <1>3, <1>11, <1>12, <1>13 DEF Process
  <1>14. Goal
    <2>1. \/ \E r \in Processes : Process(r)
          \/ Cluster
          \/ UNCHANGED vars
      BY DEF Next
    <2> QED
      BY <1>8, <1>9, <1>10, <1>13, <2>1
  <1> QED
    BY <1>14 DEF Goal

\* A record takes its uids from a plan.
LEMMA RecordStep ==
  LeaseInv /\ [Next]_vars =>
      \A p \in Processes, i \in Instances, o \in Objects :
          record'[p][i][o] \in {record[p][i][o], plan[p][o], 0}
  <1> SUFFICES ASSUME LeaseInv, [Next]_vars, NEW p \in Processes, NEW i \in Instances,
                      NEW o \in Objects
               PROVE  record'[p][i][o] \in {record[p][i][o], plan[p][o], 0}
    OBVIOUS
  <1> USE DEF LeaseInv, TypeOK, MemoryTypes, memory, Nothing
  <1>1. ASSUME NEW r \in Processes, DeploySucceeds(r)
        PROVE  record'[p][i][o] \in {record[p][i][o], plan[p][o], 0}
    BY <1>1 DEF DeploySucceeds
  <1>2. ASSUME NEW r \in Processes, Blocked(r) \/ RolledBack(r)
        PROVE  record'[p][i][o] \in {record[p][i][o], plan[p][o], 0}
    <2>1. record' = [record EXCEPT ![r] = [@ EXCEPT ![inst[r]] = Nothing]]
      BY <1>2 DEF Blocked, RolledBack, Forget
    <2>2. record'[p] \in {record[p], [record[p] EXCEPT ![inst[p]] = Nothing]}
      BY <2>1
    <2>3. record'[p][i] \in {record[p][i], Nothing}
      BY <2>2
    <2> QED
      BY <2>3
  <1>3. ASSUME NEW r \in Processes, Crash(r)
        PROVE  record'[p][i][o] \in {record[p][i][o], plan[p][o], 0}
    BY <1>3 DEF Crash
  <1>4. ASSUME NEW r \in Processes, Deployment(r), ~DeploySucceeds(r) PROVE record' = record
    BY <1>4 DEF Deployment, StartDeploy, Apply, ReadBack, DeployFails
  <1>5. ASSUME NEW r \in Processes,
               \/ \E j \in Instances, req \in Requests : StartDelete(r, j, req)
               \/ Discovery(r)
        PROVE  record' = record
    BY <1>5 DEF StartDelete, Discovery, List, NotFound, Found
  <1>6. ASSUME NEW r \in Processes, Rollback(r), ~Blocked(r), ~RolledBack(r)
        PROVE  record' = record
    BY <1>6 DEF Rollback, Delete, DeleteAbsent, DeleteRefused, PollGone, PollFails,
      deleteFrame
  <1>7. ASSUME NEW r \in Processes, Completion(r) PROVE record' = record
    BY <1>7 DEF Completion, CheckLease, SpaceGone, ListClaims, RecheckLease, DeleteClaim,
      AwaitSpaces, SpacesBlocked, Complete, spacesFrame
  <1>8. CASE Cluster
    BY <1>8 DEF Cluster, OtherCreates, OtherDeletes, Finalize, ClaimCreated, ClaimRemoved
  <1>9. CASE UNCHANGED vars
    BY <1>9 DEF vars
  <1> QED
    BY <1>1, <1>2, <1>3, <1>4, <1>5, <1>6, <1>7, <1>8, <1>9 DEF Next, Process

LEMMA UidsStep == LeaseInv /\ [Next]_vars => UidsKnown'
  <1> SUFFICES ASSUME LeaseInv, [Next]_vars PROVE UidsKnown'
    OBVIOUS
  <1>1. Grows /\ ClusterTypes'
    BY ClusterGrows, ClusterStep
  <1>2. \A o \in Objects : Known(o, 0)'
    BY <1>1, DeletionBounds DEF Known, ClusterTypes, Uid
  <1>3. ASSUME NEW p \in Processes, NEW o \in Objects PROVE Known(o, plan[p][o])'
    <2>1. Known(o, plan[p][o]) /\ plan[p][o] \in Uid
      BY DEF LeaseInv, UidsKnown, TypeOK, CallTypes
    <2>2. \A i \in Instances : Known(o, record[p][i][o]) /\ record[p][i][o] \in Uid
      BY DEF LeaseInv, UidsKnown, TypeOK, MemoryTypes
    <2>3. \A u \in Uid : Known(o, u) => Known(o, u)'
      BY <1>1, KnownStays DEF Known
    <2>4. uid'[o] \in Nat
      BY <1>1, DeletionBounds DEF ClusterTypes, Uid
    <2>5. 0 <= uid'[o]
      BY <2>4
    <2>6. uid'[o] <= uid'[o]
      BY <2>4
    <2>7. CASE plan'[p][o] \in {plan[p][o], 0}
      BY <2>1, <2>3, <2>5, <2>7 DEF Known
    <2>8. CASE \E i \in Instances : plan'[p][o] = record[p][i][o]
      BY <2>2, <2>3, <2>8 DEF Known
    <2>9. CASE plan'[p][o] = uid'[o] /\ (o \in Namespaces => o \in held')
      BY <2>6, <2>9 DEF Known
    <2> QED
      BY <2>7, <2>8, <2>9, PlanStep
  <1>4. ASSUME NEW p \in Processes, NEW i \in Instances, NEW o \in Objects
        PROVE  Known(o, record[p][i][o])'
    <2>1. Known(o, plan[p][o]) /\ plan[p][o] \in Uid
      BY DEF LeaseInv, UidsKnown, TypeOK, CallTypes
    <2>2. Known(o, record[p][i][o]) /\ record[p][i][o] \in Uid
      BY DEF LeaseInv, UidsKnown, TypeOK, MemoryTypes
    <2>3. \A u \in Uid : Known(o, u) => Known(o, u)'
      BY <1>1, KnownStays DEF Known
    <2>4. 0 <= uid'[o]
      BY <1>1, DeletionBounds DEF ClusterTypes, Uid
    <2>5. record'[p][i][o] \in {record[p][i][o], plan[p][o], 0}
      BY RecordStep
    <2> QED
      BY <2>1, <2>2, <2>3, <2>4, <2>5 DEF Known
  <1> QED
    BY <1>1, <1>3, <1>4 DEF UidsKnown, Grows

\* Two uids bounded by each other are one.
LEMMA Squeeze == ASSUME NEW a \in Nat, NEW b \in Nat, a >= b, a <= b PROVE a = b
  OBVIOUS

-----------------------------------------------------------------------------
(***************************************************************************)
(* Leases                                                                  *)
(***************************************************************************)
LEMMA KeptStep == LeaseInv /\ [Next]_vars => LeaseKept'
  <1> SUFFICES ASSUME LeaseInv, [Next]_vars, NEW p \in Processes
               PROVE  LET n == current'[p] IN
                      /\ pc'[p] \in {"claims", "recheck"} => uid'[n] >= plan'[p][n]
                      /\ pc'[p] = "recheck" =>
                            snapshot'[p] >= plan'[p][n] /\ snapshot'[p] <= uid'[n]
                      /\ pc'[p] = "deleteClaim" => snapshot'[p] = plan'[p][n]
    BY DEF LeaseKept
  <1> DEFINE Goal == LET n == current'[p] IN
                      /\ pc'[p] \in {"claims", "recheck"} => uid'[n] >= plan'[p][n]
                      /\ pc'[p] = "recheck" =>
                            snapshot'[p] >= plan'[p][n] /\ snapshot'[p] <= uid'[n]
                      /\ pc'[p] = "deleteClaim" => snapshot'[p] = plan'[p][n]
  <1> USE ObjectsAssumption
  <1>0. /\ \A o \in Objects : uid[o] \in Nat /\ uid'[o] \in Nat /\ uid[o] <= uid'[o]
        /\ \A o \in Objects, r \in Processes : plan[r][o] \in Nat
        /\ \A r \in Processes : snapshot[r] \in Nat
        /\ \A r \in Processes : pc[r] \in {"claims", "recheck", "deleteClaim"} =>
              current[r] \in Namespaces /\ current[r] \in Objects
    BY ClusterStep, ClusterGrows, DeletionBounds
    DEF LeaseInv, TypeOK, ClusterTypes, CallTypes, ResultTypes, InCall, Grows, Uid
  \* Whoever acts, a process that does not keeps its locals, and uids grow
  <1>1. ASSUME pc'[p] = pc[p], current'[p] = current[p], plan'[p] = plan[p],
               snapshot'[p] = snapshot[p]
        PROVE  Goal
    BY <1>0, <1>1 DEF LeaseInv, LeaseKept
  <1>2. ASSUME pc'[p] \notin {"claims", "recheck", "deleteClaim"} PROVE Goal
    BY <1>2
  <1> USE DEF LeaseInv, TypeOK, CallTypes, ResultTypes, call
  <1> HIDE DEF Goal
  <1>3. ASSUME NEW r \in Processes, Deployment(r) PROVE Goal
    <2>1. CASE r = p
      <3>1. pc'[p] \in {"apply", "fold", "idle"}
        BY <1>3, <2>1 DEF Deployment, StartDeploy, Apply, ReadBack, DeploySucceeds,
          DeployFails, Return
      <3> QED
        BY <3>1, <1>2
    <2>2. CASE r # p
      BY <1>1, <1>3, <2>2 DEF Deployment, StartDeploy, Apply, ReadBack, DeploySucceeds,
        DeployFails, Return
    <2> QED
      BY <2>1, <2>2
  <1>4. ASSUME NEW r \in Processes,
               \/ \E i \in Instances, req \in Requests : StartDelete(r, i, req)
               \/ Discovery(r) \/ Crash(r)
        PROVE  Goal
    <2>1. CASE r = p
      <3>1. pc'[p] \in {"list", "delete", "idle"}
        BY <1>4, <2>1 DEF StartDelete, Discovery, List, NotFound, Found, Crash, Return
      <3> QED
        BY <3>1, <1>2
    <2>2. CASE r # p
      BY <1>1, <1>4, <2>2 DEF StartDelete, Discovery, List, NotFound, Found, Crash, Return
    <2> QED
      BY <2>1, <2>2
  <1>5. ASSUME NEW r \in Processes, Rollback(r) PROVE Goal
    <2>1. CASE r = p
      <3>1. pc'[p] \in {"delete", "poll", "spaces", "idle"}
        BY <1>5, <2>1 DEF Rollback, Delete, DeleteAbsent, DeleteRefused, PollGone, PollFails,
          Blocked, RolledBack, Return, deleteFrame
      <3> QED
        BY <3>1, <1>2
    <2>2. CASE r # p
      BY <1>1, <1>5, <2>2 DEF Rollback, Delete, DeleteAbsent, DeleteRefused, PollGone,
        PollFails, Blocked, RolledBack, Return, deleteFrame
    <2> QED
      BY <2>1, <2>2
  <1>6. ASSUME NEW r \in Processes, Completion(r), r # p PROVE Goal
    BY <1>1, <1>6 DEF Completion, CheckLease, SpaceGone, ListClaims, RecheckLease, DeleteClaim,
      AwaitSpaces, SpacesBlocked, Complete, Return, spacesFrame
  <1>7. ASSUME NEW n \in Namespaces, CheckLease(p, n) PROVE Goal
    <2>1. CASE StillLeased(p, n)
      <3>1. pc'[p] = "claims" /\ current'[p] = n /\ uid'[n] = uid[n] /\ plan'[p][n] = plan[p][n]
        BY <1>7, <2>1 DEF CheckLease, spacesFrame
      <3>2. uid[n] = plan[p][n] /\ plan[p][n] \in Nat
        BY <1>0, <2>1 DEF StillLeased
      <3> QED
        BY <3>1, <3>2 DEF Goal
    <2>2. CASE ~StillLeased(p, n)
      BY <1>2, <1>7, <2>2 DEF CheckLease
    <2> QED
      BY <2>1, <2>2
  <1>8. ASSUME ListClaims(p) PROVE Goal
    <2> DEFINE n == current[p]
    <2>1. n \in Namespaces /\ n \in Objects /\ uid[n] >= plan[p][n]
      BY <1>0, <1>8 DEF ListClaims, LeaseKept
    <2>2. CASE pvc[n] = 0
      <3>1. pc'[p] = "spaces"
        BY <1>8, <2>2 DEF ListClaims
      <3> QED
        BY <3>1, <1>2
    <2>3. CASE pvc[n] # 0
      <3>1. pvc[n] = uid[n]
        BY <2>1, <2>3 DEF ClusterTypes
      <3>2. /\ pc'[p] = "recheck" /\ current'[p] = n /\ uid'[n] = uid[n]
            /\ plan'[p][n] = plan[p][n] /\ snapshot'[p] = pvc[n]
        BY <1>8, <2>3 DEF ListClaims, spacesFrame
      <3> QED
        BY <1>0, <2>1, <3>1, <3>2 DEF Goal
    <2> QED
      BY <2>2, <2>3
  <1>9. ASSUME RecheckLease(p) PROVE Goal
    <2> DEFINE n == current[p]
    <2>1. /\ n \in Objects /\ snapshot[p] >= plan[p][n] /\ snapshot[p] <= uid[n]
      BY <1>0, <1>9 DEF RecheckLease, LeaseKept
    <2>2. CASE StillLeased(p, n)
      <3>1. snapshot[p] = plan[p][n]
        <4>1. uid[n] = plan[p][n]
          BY <2>2 DEF StillLeased
        <4> QED
          BY <1>0, <2>1, <4>1, Squeeze
      <3>2. /\ pc'[p] = "deleteClaim" /\ current'[p] = n
            /\ plan'[p][n] = plan[p][n] /\ snapshot'[p] = snapshot[p]
        BY <1>9, <2>2 DEF RecheckLease, spacesFrame
      <3> QED
        BY <3>1, <3>2 DEF Goal
    <2>3. CASE ~StillLeased(p, n)
      <3>1. pc'[p] = "spaces"
        BY <1>9, <2>3 DEF RecheckLease
      <3> QED
        BY <3>1, <1>2
    <2> QED
      BY <2>2, <2>3
  <1>10. ASSUME \/ \E n \in Namespaces : SpaceGone(p, n)
                \/ DeleteClaim(p) \/ AwaitSpaces(p) \/ SpacesBlocked(p) \/ Complete(p)
         PROVE  Goal
    <2>1. pc'[p] \in {"spaces", "await", "idle"}
      BY <1>10 DEF SpaceGone, DeleteClaim, AwaitSpaces, SpacesBlocked, Complete, Return
    <2> QED
      BY <2>1, <1>2
  <1>11. ASSUME Cluster PROVE Goal
    BY <1>1, <1>11 DEF Cluster, OtherCreates, OtherDeletes, Finalize, ClaimCreated, ClaimRemoved
  <1>12. ASSUME UNCHANGED vars PROVE Goal
    BY <1>1, <1>12 DEF vars
  <1>13. ASSUME NEW r \in Processes, Completion(r) PROVE Goal
    BY <1>6, <1>7, <1>8, <1>9, <1>10, <1>13 DEF Completion
  <1>14. ASSUME NEW r \in Processes, Process(r) PROVE Goal
    BY <1>3, <1>4, <1>5, <1>13, <1>14 DEF Process
  <1>15. Goal
    <2>1. \/ \E r \in Processes : Process(r)
          \/ Cluster
          \/ UNCHANGED vars
      BY DEF Next
    <2> QED
      BY <1>11, <1>12, <1>14, <2>1
  <1> QED
    BY <1>15 DEF Goal

LEMMA LeaseInvStep == LeaseInv /\ [Next]_vars => LeaseInv'
  BY ClusterStep, MemoryStep, CallStep, ResultStep, UidsStep, KeptStep DEF LeaseInv, TypeOK

LEMMA LeaseInvariant == Spec => []LeaseInv
  BY LeaseInit, LeaseInvStep, PTL DEF Spec

-----------------------------------------------------------------------------
\* Every variable of the direct factory's protocol keeps its type, and a
\* claim always belongs to the current incarnation of its Namespace.
THEOREM TypeCorrect == Spec => []TypeOK
  <1>1. LeaseInv => TypeOK
    BY DEF LeaseInv
  <1> QED
    BY <1>1, LeaseInvariant, PTL

\* completeNamespaceDeletion deletes a claim only in the incarnation of the
\* Namespace that the rollback deleted, however often processes and other
\* writers delete and create the Namespace between its requests.
THEOREM ClaimsLeased == Spec => ClaimLease
  <1>1. ASSUME LeaseInv, [Next]_vars
        PROVE  [\A p \in Processes, n \in Namespaces :
                   (DeleteClaim(p) /\ current[p] = n /\ pvc'[n] # pvc[n]) =>
                       pvc[n] = plan[p][n]]_vars
    <2> SUFFICES ASSUME NEW p \in Processes, NEW n \in Namespaces,
                        DeleteClaim(p), current[p] = n, pvc'[n] # pvc[n]
                 PROVE  pvc[n] = plan[p][n]
      OBVIOUS
    <2>1. pvc[n] = snapshot[p]
      BY <1>1 DEF DeleteClaim, ClaimMatches
    <2>2. snapshot[p] = plan[p][n]
      BY <1>1 DEF DeleteClaim, LeaseInv, LeaseKept
    <2> QED
      BY <2>1, <2>2
  <1> QED
    BY <1>1, LeaseInvariant, PTL DEF Spec, ClaimLease

\* deleteDeployedResource deletes a Namespace only in an incarnation that a
\* deployment applied or read back at the end of the level: with the UID of a
\* record, however old, or of a list, one that others created under the name
\* after that is out of reach.
THEOREM NamespacesLeased == Spec => NamespaceLease
  <1>1. ASSUME LeaseInv, [Next]_vars
        PROVE  [\A p \in Processes, n \in Namespaces : Delete(p, n) => n \in held]_vars
    <2> SUFFICES ASSUME NEW p \in Processes, NEW n \in Namespaces, Delete(p, n)
                 PROVE  n \in held
      OBVIOUS
    <2>1. n \in Objects
      BY ObjectsAssumption
    <2>2. uid[n] = plan[p][n] /\ uid[n] # 0
      BY <1>1, <2>1 DEF Delete, LeaseCurrent, LeaseInv, UidsKnown
    <2> QED
      BY <1>1, <2>1, <2>2 DEF LeaseInv, UidsKnown, Known
  <1> QED
    BY <1>1, LeaseInvariant, PTL DEF Spec, NamespaceLease

-----------------------------------------------------------------------------
(***************************************************************************)
(* What a deletion still owes: the argument for CompleteMeansGone and for  *)
(* DependentsFirst.                                                        *)
(***************************************************************************)

\* Every list is answered and every deployment is of all resources.  A list
\* that fails is taken for an empty one, and the record of a deployment of
\* some scopes hides what another process deployed of the others: then
\* "complete" is a guess.
Whole == ListErrors = FALSE /\ DeployTargets \subseteq {"everything"}

\* what is at stake has kept its tag
Named(p) ==
    \A s \in start[p] :
        /\ s.uid <= uid[s.name]
        /\ Present(s.name, s.uid) => tag[s.name] = s.tag

InDelete == {"list", "delete", "poll", "spaces", "claims", "recheck", "deleteClaim",
             "await"}

Asked(p) ==
    pc[p] \in InDelete =>
        \A s \in start[p] : s.name \in PartOf[inst[p]] /\ Targets(s.name, request[p])

\* what is at stake is still to be listed, deleted or awaited, or an error
\* was recorded
Owing(p, n, u) ==
    /\ pc[p] = "list" => n \in todo[p] \/ plan[p][n] # 0
    /\ pc[p] \in {"delete", "poll"} =>
          \/ n \in todo[p] \/ failed[p] \/ (pc[p] = "poll" /\ n = current[p])
          \/ n \in spaces[p] /\ plan[p][n] = u
    /\ pc[p] \in {"spaces", "claims", "recheck", "deleteClaim"} =>
          n \in spaces[p] /\ plan[p][n] = u
    /\ pc[p] = "await" => n \in todo[p] /\ plan[p][n] = u
    /\ pc[p] = "idle" => answer[p] # "complete"

Owed(p) ==
    Whole => \A s \in start[p] :
        (s.tag = inst[p] /\ Present(s.name, s.uid)) => Owing(p, s.name, s.uid)

\* of what the deletion plans, only what is still to be deleted is there
Waiting(p) ==
    pc[p] \in {"delete", "poll"} =>
        \A d \in Objects \ Namespaces :
            (plan[p][d] # 0 /\ Targets(d, request[p]) /\ Present(d, plan[p][d])) =>
                d \in todo[p] \/ failed[p] \/ (pc[p] = "poll" /\ d = current[p])

\* what a deployment has applied is in its plan
Planning(p) ==
    (Whole /\ pc[p] \in {"apply", "fold"}) =>
        \A o \in PartOf[inst[p]] \ todo[p] : plan[p][o] # 0

Answered(p) ==
    /\ answer[p] = "complete" => pc[p] = "idle"
    /\ pc[p] \in {"apply", "fold"} => start[p] = {}

CallInv(p) ==
    Named(p) /\ Asked(p) /\ Owed(p) /\ Waiting(p) /\ Planning(p) /\ Answered(p)

\* a record lists all of its instance
WholeRecords ==
    Whole => \A p \in Processes, i \in Instances :
        record[p][i] = Nothing \/ \A o \in PartOf[i] : record[p][i][o] # 0

DeletionInv == LeaseInv /\ WholeRecords /\ \A p \in Processes : CallInv(p)
-----------------------------------------------------------------------------
(***************************************************************************)
(* The cluster and the other processes never add to what a deletion owes.  *)
(***************************************************************************)

\* An incarnation that is gone never comes back; one that stays keeps its
\* tag or gets that of all who still ask for it.
Stands ==
    \A o \in Objects :
        (uid'[o] = uid[o] /\ live'[o] # "absent") =>
            /\ live[o] # "absent"
            /\ \/ tag'[o] = tag[o]
               \/ \A q \in Processes : \A s \in start'[q] : s.name = o => s.tag = tag'[o]

LEMMA ApplyStands ==
  ASSUME LeaseInv, NEW p \in Processes, NEW o \in Objects, Apply(p, o)
  PROVE  Stands
  <1>1. /\ \A x \in Objects : uid[x] \in Nat
        /\ uid \in [Objects -> Uid] /\ live \in [Objects -> {"absent", "live", "terminating"}]
    BY DeletionBounds DEF LeaseInv, TypeOK, ClusterTypes, Uid
  <1>2. ASSUME NEW x \in Objects, uid'[x] = uid[x], live'[x] # "absent"
        PROVE  live[x] # "absent"
    <2>1. CASE UNCHANGED <<live, uid>>
      BY <1>2, <2>1
    <2>2. CASE live' = [live EXCEPT ![o] = "live"] /\ uid' = [uid EXCEPT ![o] = @ + 1]
      <3>1. uid[o] + 1 # uid[o]
        BY <1>1
      <3>2. x # o
        BY <1>1, <1>2, <2>2, <3>1
      <3> QED
        BY <1>1, <1>2, <2>2, <3>2
    <2> QED
      BY <2>1, <2>2 DEF Apply
  <1>3. ASSUME NEW x \in Objects
        PROVE  \/ tag'[x] = tag[x]
               \/ \A q \in Processes : \A s \in start'[q] : s.name = x => s.tag = tag'[x]
    <2>1. CASE tag' = tag
      BY <2>1
    <2>2. CASE /\ tag' = [tag EXCEPT ![o] = inst[p]]
               /\ start' = [q \in Processes |->
                               {s \in start[q] : s.name = o => s.tag = inst[p]}]
      BY <2>2 DEF LeaseInv, TypeOK, ClusterTypes
    <2> QED
      BY <2>1, <2>2 DEF Apply
  <1> QED
    BY <1>2, <1>3 DEF Stands

\* The steps of a process other than Apply and Delete leave the objects alone
LEMMA ObjectsFrame ==
  ASSUME NEW p \in Processes, Process(p), \A o \in Objects : ~Apply(p, o) /\ ~Delete(p, o)
  PROVE  UNCHANGED <<live, uid, tag>>
  <1> USE DEF cluster
  <1>1. ASSUME Deployment(p) PROVE UNCHANGED <<live, uid, tag>>
    BY <1>1 DEF Deployment, StartDeploy, ReadBack, DeploySucceeds, DeployFails
  <1>2. ASSUME Discovery(p) PROVE UNCHANGED <<live, uid, tag>>
    BY <1>2 DEF Discovery, List, NotFound, Found
  <1>3. ASSUME Rollback(p) PROVE UNCHANGED <<live, uid, tag>>
    BY <1>3 DEF Rollback, DeleteAbsent, DeleteRefused, PollGone, PollFails, Blocked,
      RolledBack, deleteFrame
  <1>4. ASSUME Completion(p) PROVE UNCHANGED <<live, uid, tag>>
    BY <1>4 DEF Completion, CheckLease, SpaceGone, ListClaims, RecheckLease, DeleteClaim,
      AwaitSpaces, SpacesBlocked, Complete, spacesFrame
  <1>5. ASSUME \/ \E i \in Instances, req \in Requests : StartDelete(p, i, req)
               \/ Crash(p)
        PROVE  UNCHANGED <<live, uid, tag>>
    BY <1>5 DEF StartDelete, Crash
  <1> QED
    BY <1>1, <1>2, <1>3, <1>4, <1>5 DEF Process

LEMMA ClusterStands == LeaseInv /\ [Next]_vars => Stands
  <1> SUFFICES ASSUME LeaseInv, [Next]_vars PROVE Stands
    OBVIOUS
  <1>1. /\ \A x \in Objects : uid[x] \in Nat /\ uid[x] + 1 # uid[x]
        /\ uid \in [Objects -> Uid] /\ tag \in [Objects -> Instances \cup {Nobody}]
        /\ live \in [Objects -> {"absent", "live", "terminating"}]
    BY DeletionBounds DEF LeaseInv, TypeOK, ClusterTypes, Uid
  <1>2. ASSUME UNCHANGED <<live, uid, tag>> PROVE Stands
    BY <1>2 DEF Stands
  <1>3. ASSUME NEW o \in Objects, live[o] # "absent", UNCHANGED <<uid, tag>>,
               \E v \in {"absent", "terminating"} : live' = [live EXCEPT ![o] = v]
        PROVE  Stands
    BY <1>1, <1>3 DEF Stands
  <1>4. ASSUME NEW o \in Objects, OtherCreates(o) PROVE Stands
    <2>1. /\ live' = [live EXCEPT ![o] = "live"] /\ uid' = [uid EXCEPT ![o] = @ + 1]
          /\ tag' = [tag EXCEPT ![o] = Nobody]
      BY <1>4 DEF OtherCreates
    <2>2. \A x \in Objects : uid'[x] = uid[x] =>
              x # o /\ live'[x] = live[x] /\ tag'[x] = tag[x]
      BY <1>1, <2>1
    <2> QED
      BY <2>2 DEF Stands
  <1>5. CASE Cluster
    <2>1. ASSUME NEW o \in Objects, OtherDeletes(o) \/ Finalize(o) PROVE Stands
      BY <1>3, <2>1 DEF OtherDeletes, Finalize
    <2>2. ASSUME NEW n \in Namespaces, ClaimCreated(n) \/ ClaimRemoved(n) PROVE Stands
      BY <1>2, <2>2 DEF ClaimCreated, ClaimRemoved
    <2> QED
      BY <1>4, <1>5, <2>1, <2>2 DEF Cluster
  <1>6. ASSUME NEW p \in Processes, Process(p) PROVE Stands
    <2>1. ASSUME NEW o \in Objects, Delete(p, o) PROVE Stands
      BY <1>3, <2>1 DEF Delete, deleteFrame
    <2> QED
      BY <1>2, <1>6, <2>1, ApplyStands, ObjectsFrame
  <1>7. CASE UNCHANGED vars
    BY <1>2, <1>7 DEF vars, cluster
  <1> QED
    BY <1>5, <1>6, <1>7 DEF Next

\* The call of a process that does not act: only what it owes may shrink
Still(p) ==
    /\ pc'[p] = pc[p] /\ inst'[p] = inst[p] /\ request'[p] = request[p]
    /\ todo'[p] = todo[p] /\ plan'[p] = plan[p] /\ current'[p] = current[p]
    /\ failed'[p] = failed[p] /\ spaces'[p] = spaces[p] /\ answer'[p] = answer[p]
    /\ start'[p] \subseteq start[p]

LEMMA ReturnStill ==
  ASSUME LeaseInv, NEW r \in Processes, NEW p \in Processes, p # r,
         NEW result \in {"none", "complete", "blocked"}, Return(r, result)
  PROVE  Still(p)
  BY DEF Return, Still, LeaseInv, TypeOK, CallTypes, ResultTypes

LEMMA OthersStill ==
  ASSUME LeaseInv, NEW r \in Processes, Process(r), NEW p \in Processes, p # r
  PROVE  Still(p)
  <1> USE DEF LeaseInv, TypeOK, CallTypes, ResultTypes, Still
  <1>1. ASSUME DeploySucceeds(r) \/ DeployFails(r) \/ NotFound(r) \/ Crash(r)
               \/ Blocked(r) \/ SpacesBlocked(r) \/ Complete(r)
        PROVE  Still(p)
    <2>1. \E result \in {"none", "complete", "blocked"} : Return(r, result)
      BY <1>1 DEF DeploySucceeds, DeployFails, NotFound, Crash, Blocked, SpacesBlocked, Complete
    <2> QED
      BY <2>1, ReturnStill
  <1>2. ASSUME NEW i \in Instances, NEW target \in DeployTargets, StartDeploy(r, i, target)
        PROVE  Still(p)
    BY <1>2 DEF StartDeploy
  <1>3. ASSUME NEW o \in Objects, Apply(r, o) PROVE Still(p)
    <2>1. start'[p] \subseteq start[p]
      BY <1>3 DEF Apply
    <2> QED
      BY <1>3, <2>1 DEF Apply
  <1>3b. ASSUME NEW o \in Objects, ReadBack(r, o) PROVE Still(p)
    BY <1>3b DEF ReadBack
  <1>4. ASSUME NEW i \in Instances, NEW req \in Requests, StartDelete(r, i, req)
        PROVE  Still(p)
    BY <1>4 DEF StartDelete
  <1>5. ASSUME NEW o \in Objects, List(r, o) PROVE Still(p)
    BY <1>5 DEF List
  <1>6. ASSUME Found(r) PROVE Still(p)
    BY <1>6 DEF Found
  <1>7. ASSUME NEW o \in Objects, Delete(r, o) \/ DeleteAbsent(r, o) \/ DeleteRefused(r, o)
        PROVE  Still(p)
    BY <1>7 DEF Delete, DeleteAbsent, DeleteRefused, deleteFrame
  <1>8. ASSUME PollGone(r) \/ PollFails(r) \/ RolledBack(r) PROVE Still(p)
    BY <1>8 DEF PollGone, PollFails, RolledBack, deleteFrame
  <1>9. ASSUME NEW n \in Namespaces, CheckLease(r, n) \/ SpaceGone(r, n) PROVE Still(p)
    BY <1>9 DEF CheckLease, SpaceGone, spacesFrame
  <1>10. ASSUME ListClaims(r) \/ RecheckLease(r) \/ DeleteClaim(r) \/ AwaitSpaces(r)
         PROVE  Still(p)
    BY <1>10 DEF ListClaims, RecheckLease, DeleteClaim, AwaitSpaces, spacesFrame
  <1> HIDE DEF Still
  <1> QED
    BY <1>1, <1>2, <1>3, <1>4, <1>5, <1>6, <1>7, <1>8, <1>9, <1>10, <1>3b
    DEF Process, Deployment, Discovery, Rollback, Completion

LEMMA ClusterStill ==
  ASSUME Cluster \/ UNCHANGED vars, NEW p \in Processes
  PROVE  Still(p)
  <1>1. UNCHANGED <<call, start>>
    BY DEF Cluster, OtherCreates, OtherDeletes, Finalize, ClaimCreated, ClaimRemoved, vars
  <1> QED
    BY <1>1 DEF Still, call

\* what was not there is not there after the step
LEMMA NotPresentStays ==
  ASSUME LeaseInv, ClusterTypes', Grows, Stands, NEW o \in Objects, NEW u \in Uid, u <= uid[o],
         Present(o, u)'
  PROVE  Present(o, u) /\ uid'[o] = uid[o]
  <1>1. uid[o] \in Nat /\ uid'[o] \in Nat /\ u \in Nat
    BY DeletionBounds DEF LeaseInv, TypeOK, ClusterTypes, Uid
  <1>2. uid'[o] = u /\ live'[o] # "absent"
    BY DEF Present
  <1>3. uid[o] <= uid'[o]
    BY DEF Grows
  <1>4. uid[o] = u
    BY <1>1, <1>2, <1>3
  <1> QED
    BY <1>2, <1>4 DEF Stands, Present

\* the parts of what is at stake
LEMMA AtStake ==
  ASSUME LeaseInv, NEW p \in Processes, NEW s \in start[p]
  PROVE  s.name \in Objects /\ s.uid \in Uid
  BY DEF LeaseInv, TypeOK, ResultTypes

LEMMA NamedStays ==
  ASSUME LeaseInv, ClusterTypes', Grows, Stands, NEW p \in Processes, Named(p),
         start'[p] \subseteq start[p]
  PROVE  Named(p)'
  <1> SUFFICES ASSUME NEW s \in start'[p]
               PROVE  /\ s.uid <= uid'[s.name]
                      /\ Present(s.name, s.uid)' => tag'[s.name] = s.tag
    BY DEF Named
  <1>1. PICK n \in Objects : n = s.name
    BY AtStake
  <1>2. PICK u \in Uid : u = s.uid
    BY AtStake
  <1>3. u <= uid[n] /\ (Present(n, u) => tag[n] = s.tag)
    BY <1>1, <1>2 DEF Named
  <1>4. u <= uid'[n]
    <2>1. uid[n] \in Nat /\ uid'[n] \in Nat /\ u \in Nat /\ uid[n] <= uid'[n]
      BY DeletionBounds DEF LeaseInv, TypeOK, ClusterTypes, Uid, Grows
    <2> QED
      BY <1>3, <2>1
  <1>5. ASSUME Present(n, u)' PROVE tag'[n] = s.tag
    <2>1. Present(n, u) /\ uid'[n] = uid[n]
      BY <1>3, <1>5, NotPresentStays
    <2>2. live'[n] # "absent"
      BY <1>5 DEF Present
    <2>3. tag'[n] = tag[n] \/ s.tag = tag'[n]
      BY <1>1, <2>1, <2>2 DEF Stands
    <2> QED
      BY <1>3, <2>1, <2>3
  <1> QED
    BY <1>1, <1>2, <1>4, <1>5
LEMMA PlannedKnown ==
  ASSUME LeaseInv, NEW p \in Processes, NEW o \in Objects
  PROVE  plan[p][o] \in Uid /\ plan[p][o] <= uid[o]
  BY DEF LeaseInv, TypeOK, CallTypes, UidsKnown, Known

\* A process that does not act owes nothing new.
LEMMA StillKeeps ==
  ASSUME LeaseInv, ClusterTypes', Grows, Stands, NEW p \in Processes, CallInv(p), Still(p)
  PROVE  CallInv(p)'
  <1>1. /\ pc'[p] = pc[p] /\ inst'[p] = inst[p] /\ request'[p] = request[p]
        /\ todo'[p] = todo[p] /\ plan'[p] = plan[p] /\ current'[p] = current[p]
        /\ failed'[p] = failed[p] /\ spaces'[p] = spaces[p] /\ answer'[p] = answer[p]
        /\ start'[p] \subseteq start[p]
    BY DEF Still
  <1>2. Named(p)'
    BY <1>1, NamedStays DEF CallInv
  <1>3. Asked(p)'
    BY <1>1 DEF CallInv, Asked
  <1>4. Owed(p)'
    <2> SUFFICES ASSUME Whole, NEW s \in start'[p], s.tag = inst'[p], Present(s.name, s.uid)'
                 PROVE  Owing(p, s.name, s.uid)'
      BY DEF Owed, Whole
    <2>1. PICK n \in Objects : n = s.name
      BY <1>1, AtStake
    <2>2. PICK u \in Uid : u = s.uid
      BY <1>1, AtStake
    <2>3. u <= uid[n]
      BY <1>1, <2>1, <2>2 DEF CallInv, Named
    <2>4. Present(n, u)
      BY <2>1, <2>2, <2>3, NotPresentStays
    <2>5. Owing(p, n, u)
      BY <1>1, <2>1, <2>2, <2>4 DEF CallInv, Owed
    <2>6. Owing(p, n, u)'
      BY <1>1, <2>5 DEF Owing
    <2> QED
      BY <2>1, <2>2, <2>6
  <1>5. Waiting(p)'
    <2> SUFFICES ASSUME pc'[p] \in {"delete", "poll"}, NEW d \in Objects \ Namespaces,
                        plan'[p][d] # 0, Targets(d, request'[p]), Present(d, plan[p][d])'
                 PROVE  \/ d \in todo'[p] \/ failed'[p]
                        \/ (pc'[p] = "poll" /\ d = current'[p])
      BY DEF Waiting
    <2>1. PICK u \in Uid : u = plan[p][d] /\ u <= uid[d]
      BY PlannedKnown
    <2>2. Present(d, u)'
      BY <1>1, <2>1 DEF Present
    <2>3. Present(d, u)
      BY <2>1, <2>2, NotPresentStays
    <2> QED
      BY <1>1, <2>1, <2>3 DEF CallInv, Waiting
  <1>6. Planning(p)'
    BY <1>1 DEF CallInv, Planning, Whole
  <1>7. Answered(p)'
    BY <1>1 DEF CallInv, Answered
  <1> QED
    BY <1>2, <1>3, <1>4, <1>5, <1>6, <1>7 DEF CallInv

\* A step in the midst of a deletion is judged by what it does to the
\* objects that are there before and after it.
LEMMA DeletionGoesOn ==
  ASSUME LeaseInv, ClusterTypes', Grows, Stands, NEW p \in Processes, CallInv(p),
         pc[p] \in InDelete, pc'[p] \in InDelete,
         UNCHANGED <<inst, request, start, answer>>,
         \A n \in Objects, u \in Uid :
             (Whole /\ Present(n, u) /\ tag[n] = inst[p] /\ Targets(n, request[p])
                 /\ n \in PartOf[inst[p]] /\ Owing(p, n, u) /\ Present(n, u)') =>
                 Owing(p, n, u)',
         Waiting(p)'
  PROVE  CallInv(p)'
  <1>1. Named(p)'
    BY NamedStays DEF CallInv
  <1>2. Asked(p)'
    BY DEF CallInv, Asked
  <1>3. Owed(p)'
    <2> SUFFICES ASSUME Whole, NEW s \in start[p], s.tag = inst[p], Present(s.name, s.uid)'
                 PROVE  Owing(p, s.name, s.uid)'
      BY DEF Owed, Whole
    <2>1. PICK n \in Objects : n = s.name
      BY AtStake
    <2>2. PICK u \in Uid : u = s.uid
      BY AtStake
    <2>3. u <= uid[n] /\ (Present(n, u) => tag[n] = s.tag)
      BY <2>1, <2>2 DEF CallInv, Named
    <2>4. Present(n, u) /\ Present(n, u)'
      BY <2>1, <2>2, <2>3, NotPresentStays
    <2>5. Owing(p, n, u)
      BY <2>1, <2>2, <2>4 DEF CallInv, Owed
    <2>6. Targets(n, request[p]) /\ n \in PartOf[inst[p]] /\ tag[n] = inst[p]
      BY <2>1, <2>3, <2>4 DEF CallInv, Asked
    <2>7. Owing(p, n, u)'
      BY <2>4, <2>5, <2>6
    <2> QED
      BY <2>1, <2>2, <2>7
  <1>4. Planning(p)'
    BY DEF Planning, InDelete
  <1>5. Answered(p)'
    BY DEF CallInv, Answered, InDelete
  <1> QED
    BY <1>1, <1>2, <1>3, <1>4, <1>5 DEF CallInv

\* What has returned owes nothing: it was not told complete, or all is gone.
LEMMA Returned ==
  ASSUME LeaseInv, ClusterTypes', Grows, Stands, NEW p \in Processes, CallInv(p),
         NEW result \in {"none", "complete", "blocked"}, Return(p, result),
         result = "complete" =>
             \A s \in start[p] : (Whole /\ s.tag = inst[p]) => ~Present(s.name, s.uid)
  PROVE  CallInv(p)'
  <1>1. /\ pc'[p] = "idle" /\ answer'[p] = result
        /\ IF result = "complete" THEN inst'[p] = inst[p] /\ start'[p] = start[p]
                                  ELSE start'[p] = {}
    BY DEF Return, LeaseInv, TypeOK, CallTypes, ResultTypes
  <1>2. start'[p] \subseteq start[p]
    BY <1>1
  <1>3. Named(p)'
    BY <1>2, NamedStays DEF CallInv
  <1>4. Owed(p)'
    <2> SUFFICES ASSUME Whole, NEW s \in start'[p], s.tag = inst'[p], Present(s.name, s.uid)'
                 PROVE  Owing(p, s.name, s.uid)'
      BY DEF Owed, Whole
    <2>1. CASE result = "complete"
      <3>1. PICK n \in Objects : n = s.name
        BY <1>2, AtStake
      <3>2. PICK u \in Uid : u = s.uid
        BY <1>2, AtStake
      <3>3. u <= uid[n]
        BY <1>2, <3>1, <3>2 DEF CallInv, Named
      <3>4. Present(n, u)
        BY <3>1, <3>2, <3>3, NotPresentStays
      <3> QED
        BY <1>1, <2>1, <3>1, <3>2, <3>4
    <2>2. CASE result # "complete"
      BY <1>1, <2>2
    <2> QED
      BY <2>1, <2>2
  <1>5. Asked(p)' /\ Waiting(p)' /\ Planning(p)' /\ Answered(p)'
    BY <1>1 DEF Asked, Waiting, Planning, Answered, InDelete
  <1> QED
    BY <1>3, <1>4, <1>5 DEF CallInv
-----------------------------------------------------------------------------
(***************************************************************************)
(* What a process owes after its own step                                  *)
(***************************************************************************)
LEMMA OwnDeployment ==
  ASSUME LeaseInv, ClusterTypes', Grows, Stands, NEW p \in Processes, CallInv(p), Deployment(p)
  PROVE  CallInv(p)'
  <1> USE DEF LeaseInv, TypeOK, CallTypes, ResultTypes
  <1>1. ASSUME start'[p] = {}, pc'[p] \in {"apply", "fold"}, answer'[p] # "complete",
               Planning(p)'
        PROVE  CallInv(p)'
    BY <1>1 DEF CallInv, Named, Asked, Owed, Waiting, Answered, InDelete
  <1>2. ASSUME NEW i \in Instances, NEW target \in DeployTargets, StartDeploy(p, i, target)
        PROVE  CallInv(p)'
    <2>1. /\ start'[p] = {} /\ pc'[p] = "apply" /\ answer'[p] = "none" /\ inst'[p] = i
          /\ todo'[p] = {o \in PartOf[i] : Selected(o, target)}
      BY <1>2 DEF StartDeploy
    <2>2. Whole => target = "everything"
      BY DEF Whole
    <2>3. Whole => todo'[p] = PartOf[i]
      BY <2>1, <2>2 DEF Selected
    <2>4. Planning(p)'
      BY <2>1, <2>3 DEF Planning, Whole
    <2> QED
      BY <1>1, <2>1, <2>4
  <1>3. ASSUME NEW o \in Objects, Apply(p, o) PROVE CallInv(p)'
    <2>1. pc[p] = "apply" /\ pc'[p] = "apply" /\ UNCHANGED <<inst, answer>>
          /\ todo' = [todo EXCEPT ![p] = @ \ {o}]
      BY <1>3 DEF Apply
    <2>2. start[p] = {} /\ answer[p] # "complete"
      BY <2>1 DEF CallInv, Answered
    <2>3. start'[p] = {}
      BY <1>3, <2>2 DEF Apply
    <2>4. plan' = [plan EXCEPT ![p] = [@ EXCEPT ![o] = uid'[o]]]
      BY <1>3 DEF Apply
    <2>5. plan'[p] = [plan[p] EXCEPT ![o] = uid'[o]]
      BY <2>4
    <2>6. uid'[o] # 0
      <3>1. live[o] # "absent" \/ live'[o] = "live"
        BY <1>3, AppliedObjects DEF Apply, ClusterTypes
      <3>2. live'[o] # "absent"
        BY <1>3, <3>1 DEF Apply, ClusterTypes
      <3> QED
        BY <3>2 DEF Grows
    <2>7. ASSUME Whole, NEW x \in PartOf[inst[p]] \ todo'[p] PROVE plan'[p][x] # 0
      <3>1. x \in Objects
        BY <2>1, ObjectsAssumption DEF InCall
      <3>2. CASE x = o
        BY <2>5, <2>6, <3>1, <3>2
      <3>3. CASE x # o
        <4>1. plan[p][x] # 0
          BY <2>1, <2>7, <3>3 DEF CallInv, Planning
        <4> QED
          BY <2>5, <3>1, <3>3, <4>1
      <3> QED
        BY <3>2, <3>3
    <2>8. Planning(p)'
      BY <2>1, <2>7 DEF Planning, Whole
    <2> QED
      BY <1>1, <2>1, <2>2, <2>3, <2>8
  <1>3b. ASSUME NEW o \in Objects, ReadBack(p, o) PROVE CallInv(p)'
    <2>1. /\ pc[p] \in {"apply", "fold"} /\ pc'[p] \in {"apply", "fold"}
          /\ UNCHANGED <<inst, answer, start, todo, live, uid>>
          /\ \/ plan' = plan
             \/ live[o] # "absent" /\ plan' = [plan EXCEPT ![p] = [@ EXCEPT ![o] = uid[o]]]
      BY <1>3b DEF ReadBack, cluster
    <2>2. start'[p] = {} /\ answer'[p] # "complete"
      BY <2>1 DEF CallInv, Answered
    <2>3. ASSUME Whole, NEW x \in PartOf[inst[p]] \ todo[p] PROVE plan'[p][x] # 0
      <3>1. x \in Objects
        BY <2>1, ObjectsAssumption DEF InCall
      <3>2. plan[p][x] # 0
        BY <2>1, <2>3 DEF CallInv, Planning
      <3>3. plan' = plan \/ (plan'[p][x] \in {plan[p][x], uid[o]} /\ uid[o] # 0)
        BY <2>1, <3>1 DEF UidsKnown
      <3> QED
        BY <3>2, <3>3
    <2>4. Planning(p)'
      BY <2>1, <2>3 DEF Planning, Whole
    <2> QED
      BY <1>1, <2>1, <2>2, <2>4
  <1>4. ASSUME DeploySucceeds(p) \/ DeployFails(p) PROVE CallInv(p)'
    <2>1. Return(p, "none")
      BY <1>4 DEF DeploySucceeds, DeployFails
    <2> QED
      BY <2>1, Returned
  <1> QED
    BY <1>2, <1>3, <1>4, <1>3b DEF Deployment

LEMMA OwnStartDelete ==
  ASSUME LeaseInv, WholeRecords, NEW p \in Processes, NEW i \in Instances, NEW req \in Requests,
         StartDelete(p, i, req)
  PROVE  CallInv(p)'
  <1> USE DEF LeaseInv, TypeOK, CallTypes, ResultTypes
  <1> DEFINE S == {[name |-> o, uid |-> uid[o], tag |-> tag[o]] : o \in {q \in PartOf[i] :
                        Targets(q, req) /\ live[q] # "absent"}}
  <1>1. /\ inst'[p] = i /\ request'[p] = req /\ answer'[p] = "none" /\ start'[p] = S
        /\ UNCHANGED <<live, uid, tag, current, failed, spaces>>
    BY DEF StartDelete, cluster
  <1>2. ASSUME NEW s \in S
        PROVE  /\ s.name \in PartOf[i] /\ s.name \in Objects /\ Targets(s.name, req)
               /\ s.uid = uid[s.name] /\ s.tag = tag[s.name]
    BY <1>2, ObjectsAssumption
  <1> HIDE DEF S
  <1>3. Named(p)'
    <2>1. \A o \in Objects : uid[o] <= uid[o]
      BY DeletionBounds DEF ClusterTypes, Uid
    <2> QED
      BY <1>1, <1>2, <2>1 DEF Named
  <1>4. Asked(p)'
    BY <1>1, <1>2 DEF Asked
  <1>5. CASE Remembers(p, i)
    <2>1. /\ pc'[p] = "delete" /\ plan'[p] = record[p][i]
          /\ todo'[p] = {o \in Objects : record[p][i][o] # 0 /\ Targets(o, req)}
      BY <1>5 DEF StartDelete
    <2>2. Whole => \A o \in PartOf[i] : record[p][i][o] # 0
      BY <1>5 DEF WholeRecords, Remembers
    <2>3. Whole => \A s \in S : s.name \in todo'[p]
      BY <1>2, <2>1, <2>2
    <2>4. Owed(p)'
      BY <1>1, <2>1, <2>3 DEF Owed, Owing, Whole
    <2>5. Waiting(p)'
      BY <1>1, <2>1 DEF Waiting
    <2>6. Planning(p)' /\ Answered(p)'
      BY <1>1, <2>1 DEF Planning, Answered
    <2> QED
      BY <1>3, <1>4, <2>4, <2>5, <2>6 DEF CallInv
  <1>6. CASE ~Remembers(p, i)
    <2>1. pc'[p] = "list" /\ todo'[p] = Objects
      BY <1>6 DEF StartDelete
    <2>2. Owed(p)'
      BY <1>1, <1>2, <2>1 DEF Owed, Owing
    <2>3. Waiting(p)' /\ Planning(p)' /\ Answered(p)'
      BY <1>1, <2>1 DEF Waiting, Planning, Answered
    <2> QED
      BY <1>3, <1>4, <2>2, <2>3 DEF CallInv
  <1> QED
    BY <1>5, <1>6

LEMMA OwnDiscovery ==
  ASSUME LeaseInv, ClusterTypes', Grows, Stands, NEW p \in Processes, CallInv(p), Discovery(p)
  PROVE  CallInv(p)'
  <1> USE DEF LeaseInv, TypeOK, CallTypes, ResultTypes
  <1>1. ASSUME NEW o \in Objects, List(p, o) PROVE CallInv(p)'
    <2>1. /\ pc[p] = "list" /\ pc'[p] = "list"
          /\ UNCHANGED <<inst, request, start, answer>>
          /\ todo'[p] = todo[p] \ {o}
      BY <1>1 DEF List
    <2>2. Whole => plan' = [plan EXCEPT ![p] = [@ EXCEPT ![o] =
                                 IF Listed(p, o) THEN uid[o] ELSE 0]]
      BY <1>1 DEF List, Whole
    <2>3. ASSUME NEW n \in Objects, NEW u \in Uid, Whole, Present(n, u), tag[n] = inst[p],
                 Owing(p, n, u)
          PROVE  Owing(p, n, u)'
      <3>1. CASE n = o
        <4>1. live[n] # "absent"
          BY <2>3 DEF Present
        <4>2. Listed(p, n) /\ uid[n] # 0
          BY <2>3, <4>1 DEF Listed, UidsKnown
        <4>3. plan'[p][n] = uid[n]
          BY <2>2, <2>3, <3>1, <4>2
        <4> QED
          BY <2>1, <4>2, <4>3 DEF Owing
      <3>2. CASE n # o
        <4>1. plan'[p][n] = plan[p][n]
          BY <2>2, <2>3, <3>2
        <4> QED
          BY <2>1, <2>3, <3>2, <4>1 DEF Owing
      <3> QED
        BY <3>1, <3>2
    <2>4. Waiting(p)'
      BY <2>1 DEF Waiting
    <2>5. pc[p] \in InDelete /\ pc'[p] \in InDelete
      BY <2>1 DEF InDelete
    <2> QED
      BY <2>1, <2>3, <2>4, <2>5, DeletionGoesOn
  <1>2. ASSUME NotFound(p) PROVE CallInv(p)'
    <2>1. pc[p] = "list" /\ todo[p] = {} /\ plan[p] = Nothing /\ Return(p, "complete")
      BY <1>2 DEF NotFound
    <2>2. \A s \in start[p] : (Whole /\ s.tag = inst[p]) => ~Present(s.name, s.uid)
      <3> SUFFICES ASSUME NEW s \in start[p], Whole, s.tag = inst[p], Present(s.name, s.uid)
                   PROVE  FALSE
        OBVIOUS
      <3>1. Owing(p, s.name, s.uid) /\ s.name \in Objects
        BY AtStake DEF CallInv, Owed
      <3> QED
        BY <2>1, <3>1 DEF Owing, Nothing
    <2> QED
      BY <2>1, <2>2, Returned
  <1>3. ASSUME Found(p) PROVE CallInv(p)'
    <2>1. /\ pc[p] = "list" /\ pc'[p] = "delete" /\ todo[p] = {}
          /\ UNCHANGED <<inst, request, plan, start, answer>>
          /\ todo'[p] = {o \in Planned(p) : Targets(o, request[p])}
      BY <1>3 DEF Found
    <2>2. ASSUME NEW n \in Objects, NEW u \in Uid, Targets(n, request[p]), Owing(p, n, u)
          PROVE  Owing(p, n, u)'
      BY <2>1, <2>2 DEF Owing, Planned
    <2>3. Waiting(p)'
      BY <2>1 DEF Waiting, Planned
    <2>4. pc[p] \in InDelete /\ pc'[p] \in InDelete
      BY <2>1 DEF InDelete
    <2> QED
      BY <2>1, <2>2, <2>3, <2>4, DeletionGoesOn
  <1> QED
    BY <1>1, <1>2, <1>3 DEF Discovery
\* What is no longer to be deleted is gone, polled, or an error
LEMMA OwnRequest ==
  ASSUME LeaseInv, ClusterTypes', Grows, Stands, NEW p \in Processes, CallInv(p),
         NEW o \in Objects, Delete(p, o) \/ DeleteAbsent(p, o) \/ DeleteRefused(p, o)
  PROVE  CallInv(p)'
  <1> USE DEF LeaseInv, TypeOK, CallTypes, ResultTypes
  <1>1. /\ pc[p] = "delete" /\ o \in todo[p] /\ todo'[p] = todo[p] \ {o}
        /\ pc'[p] \in {"delete", "poll"}
        /\ UNCHANGED <<inst, request, plan, start, answer>>
    BY DEF Delete, DeleteAbsent, DeleteRefused, deleteFrame
  <1>2. /\ failed[p] => failed'[p]
        /\ spaces[p] \subseteq spaces'[p]
    BY DEF Delete, DeleteAbsent, DeleteRefused
  \* how o left the todo
  <1>3. \/ failed'[p]
        \/ live[o] = "absent"
        \/ o \in Namespaces /\ o \in spaces'[p] /\ uid[o] = plan[p][o]
        \/ o \notin Namespaces /\ pc'[p] = "poll" /\ current'[p] = o
    BY <1>1 DEF Delete, DeleteAbsent, DeleteRefused, LeaseCurrent
  <1>4. ASSUME NEW n \in Objects, NEW u \in Uid, Present(n, u), Owing(p, n, u)
        PROVE  Owing(p, n, u)'
    <2>1. n \in todo[p] \/ failed[p] \/ (n \in spaces[p] /\ plan[p][n] = u)
      BY <1>1, <1>4 DEF Owing
    <2>2. n = o => \/ failed'[p]
                   \/ n \in spaces'[p] /\ plan[p][n] = u
                   \/ pc'[p] = "poll" /\ n = current'[p]
      BY <1>3, <1>4 DEF Present
    <2>3. \/ n \in todo'[p] \/ failed'[p] \/ (pc'[p] = "poll" /\ n = current'[p])
          \/ n \in spaces'[p] /\ plan'[p][n] = u
      BY <1>1, <1>2, <2>1, <2>2
    <2> QED
      BY <1>1, <2>3 DEF Owing
  <1>5. Waiting(p)'
    <2> SUFFICES ASSUME NEW d \in Objects \ Namespaces, plan'[p][d] # 0,
                        Targets(d, request'[p]), Present(d, plan[p][d])'
                 PROVE  \/ d \in todo'[p] \/ failed'[p]
                        \/ (pc'[p] = "poll" /\ d = current'[p])
      BY DEF Waiting
    <2>1. PICK u \in Uid : u = plan[p][d] /\ u <= uid[d]
      BY PlannedKnown
    <2>2. Present(d, u)'
      BY <1>1, <2>1 DEF Present
    <2>3. Present(d, u)
      BY <2>1, <2>2, NotPresentStays
    <2>4. d \in todo[p] \/ failed[p]
      BY <1>1, <2>1, <2>3 DEF CallInv, Waiting
    <2>5. live[d] # "absent"
      BY <2>3 DEF Present
    <2> QED
      BY <1>1, <1>2, <1>3, <2>4, <2>5
  <1>6. pc[p] \in InDelete /\ pc'[p] \in InDelete
    BY <1>1 DEF InDelete
  <1> HIDE DEF LeaseInv, TypeOK, CallTypes, ResultTypes
  <1> QED
    BY <1>1, <1>4, <1>5, <1>6, DeletionGoesOn

LEMMA OwnPoll ==
  ASSUME LeaseInv, ClusterTypes', Grows, Stands, NEW p \in Processes, CallInv(p),
         PollGone(p) \/ PollFails(p)
  PROVE  CallInv(p)'
  <1> USE DEF LeaseInv, TypeOK, CallTypes, ResultTypes
  <1>1. /\ pc[p] = "poll" /\ pc'[p] = "delete"
        /\ UNCHANGED <<todo, spaces, inst, request, plan, start, answer>>
        /\ (failed[p] => failed'[p])
        /\ failed'[p] \/ live[current[p]] = "absent"
    BY DEF PollGone, PollFails, deleteFrame
  <1>2. ASSUME NEW n \in Objects, NEW u \in Uid, Present(n, u), Owing(p, n, u)
        PROVE  Owing(p, n, u)'
    <2>1. n # current[p] \/ failed'[p]
      BY <1>1, <1>2 DEF Present
    <2> QED
      BY <1>1, <1>2, <2>1 DEF Owing
  <1>3. Waiting(p)'
    <2> SUFFICES ASSUME NEW d \in Objects \ Namespaces, plan'[p][d] # 0,
                        Targets(d, request'[p]), Present(d, plan[p][d])'
                 PROVE  d \in todo'[p] \/ failed'[p]
      BY DEF Waiting
    <2>1. PICK u \in Uid : u = plan[p][d] /\ u <= uid[d]
      BY PlannedKnown
    <2>2. Present(d, u)'
      BY <1>1, <2>1 DEF Present
    <2>3. Present(d, u)
      BY <2>1, <2>2, NotPresentStays
    <2>4. d \in todo[p] \/ failed[p] \/ d = current[p]
      BY <1>1, <2>1, <2>3 DEF CallInv, Waiting
    <2>5. live[d] # "absent"
      BY <2>3 DEF Present
    <2> QED
      BY <1>1, <2>4, <2>5
  <1>4. pc[p] \in InDelete /\ pc'[p] \in InDelete
    BY <1>1 DEF InDelete
  <1> HIDE DEF LeaseInv, TypeOK, CallTypes, ResultTypes
  <1> QED
    BY <1>1, <1>2, <1>3, <1>4, DeletionGoesOn

LEMMA OwnRollback ==
  ASSUME LeaseInv, ClusterTypes', Grows, Stands, NEW p \in Processes, CallInv(p), Rollback(p)
  PROVE  CallInv(p)'
  <1>1. ASSUME Blocked(p) PROVE CallInv(p)'
    <2>1. Return(p, "blocked")
      BY <1>1 DEF Blocked
    <2> QED
      BY <2>1, Returned
  <1>2. ASSUME RolledBack(p) PROVE CallInv(p)'
    <2>1. /\ pc[p] = "delete" /\ todo[p] = {} /\ ~failed[p] /\ pc'[p] = "spaces"
          /\ UNCHANGED <<spaces, inst, request, plan, start, answer>>
      BY <1>2 DEF RolledBack, LeaseInv, TypeOK, CallTypes
    <2>2. ASSUME NEW n \in Objects, NEW u \in Uid, Owing(p, n, u) PROVE Owing(p, n, u)'
      BY <2>1, <2>2 DEF Owing
    <2>3. Waiting(p)'
      BY <2>1 DEF Waiting
    <2>4. pc[p] \in InDelete /\ pc'[p] \in InDelete
      BY <2>1 DEF InDelete
    <2> QED
      BY <2>1, <2>2, <2>3, <2>4, DeletionGoesOn
  <1> QED
    BY <1>1, <1>2, OwnRequest, OwnPoll DEF Rollback

LEMMA OwnCompletion ==
  ASSUME LeaseInv, ClusterTypes', Grows, Stands, NEW p \in Processes, CallInv(p), Completion(p)
  PROVE  CallInv(p)'
  <1> USE DEF LeaseInv, TypeOK, CallTypes, ResultTypes
  <1> DEFINE cleaning == {"spaces", "claims", "recheck", "deleteClaim"}
  <1>1. ASSUME pc[p] \in cleaning, pc'[p] \in cleaning \cup {"await"},
               pc'[p] = "await" => todo'[p] = spaces[p],
               UNCHANGED <<inst, request, plan, spaces, start, answer>>
        PROVE  CallInv(p)'
    <2>1. ASSUME NEW n \in Objects, NEW u \in Uid, Owing(p, n, u) PROVE Owing(p, n, u)'
      BY <1>1, <2>1 DEF Owing
    <2>2. Waiting(p)'
      BY <1>1 DEF Waiting
    <2>3. pc[p] \in InDelete /\ pc'[p] \in InDelete
      BY <1>1 DEF InDelete
    <2> QED
      BY <1>1, <2>1, <2>2, <2>3, DeletionGoesOn
  <1>2. ASSUME NEW n \in Namespaces, CheckLease(p, n) PROVE CallInv(p)'
    <2>1. pc[p] \in cleaning /\ pc'[p] \in {"spaces", "claims"}
      BY <1>2 DEF CheckLease
    <2>2. UNCHANGED <<inst, request, plan, spaces, start, answer>>
      BY <1>2 DEF CheckLease, spacesFrame
    <2> QED
      BY <1>1, <2>1, <2>2
  <1>3. ASSUME ListClaims(p) \/ RecheckLease(p) \/ DeleteClaim(p) PROVE CallInv(p)'
    <2>1. pc[p] \in cleaning /\ pc'[p] \in cleaning
      BY <1>3 DEF ListClaims, RecheckLease, DeleteClaim
    <2>2. UNCHANGED <<inst, request, plan, spaces, start, answer>>
      BY <1>3 DEF ListClaims, RecheckLease, DeleteClaim, spacesFrame
    <2> QED
      BY <1>1, <2>1, <2>2
  <1>4. ASSUME AwaitSpaces(p) PROVE CallInv(p)'
    <2>1. pc[p] \in cleaning /\ pc'[p] = "await" /\ todo'[p] = spaces[p]
      BY <1>4 DEF AwaitSpaces
    <2>2. UNCHANGED <<inst, request, plan, spaces, start, answer>>
      BY <1>4 DEF AwaitSpaces, spacesFrame
    <2> QED
      BY <1>1, <2>1, <2>2
  <1>5. ASSUME NEW x \in Namespaces, SpaceGone(p, x) PROVE CallInv(p)'
    <2>1. /\ pc[p] = "await" /\ pc'[p] = "await" /\ todo'[p] = todo[p] \ {x}
          /\ ~(live[x] # "absent" /\ uid[x] = plan[p][x])
          /\ UNCHANGED <<inst, request, plan, spaces, start, answer>>
      BY <1>5 DEF SpaceGone, Gone, StillLeased, spacesFrame
    <2>2. ASSUME NEW n \in Objects, NEW u \in Uid, Present(n, u), Owing(p, n, u)
          PROVE  Owing(p, n, u)'
      <3>1. n \in todo[p] /\ plan[p][n] = u
        BY <2>1, <2>2 DEF Owing
      <3>2. n # x
        BY <2>1, <2>2, <3>1 DEF Present
      <3> QED
        BY <2>1, <3>1, <3>2 DEF Owing
    <2>3. Waiting(p)'
      BY <2>1 DEF Waiting
    <2>4. pc[p] \in InDelete /\ pc'[p] \in InDelete
      BY <2>1 DEF InDelete
    <2> QED
      BY <2>1, <2>2, <2>3, <2>4, DeletionGoesOn
  <1>6. ASSUME SpacesBlocked(p) PROVE CallInv(p)'
    <2>1. Return(p, "blocked")
      BY <1>6 DEF SpacesBlocked
    <2> QED
      BY <2>1, Returned
  <1>7. ASSUME Complete(p) PROVE CallInv(p)'
    <2>1. pc[p] = "await" /\ todo[p] = {} /\ Return(p, "complete")
      BY <1>7 DEF Complete
    <2>2. \A s \in start[p] : (Whole /\ s.tag = inst[p]) => ~Present(s.name, s.uid)
      BY <2>1 DEF CallInv, Owed, Owing
    <2> QED
      BY <2>1, <2>2, Returned
  <1> QED
    BY <1>2, <1>3, <1>4, <1>5, <1>6, <1>7 DEF Completion

LEMMA OwnStep ==
  ASSUME LeaseInv, WholeRecords, ClusterTypes', Grows, Stands, NEW p \in Processes, CallInv(p),
         Process(p)
  PROVE  CallInv(p)'
  <1>1. ASSUME Crash(p) PROVE CallInv(p)'
    <2>1. Return(p, "none")
      BY <1>1 DEF Crash
    <2> QED
      BY <2>1, Returned
  <1> QED
    BY <1>1, OwnDeployment, OwnStartDelete, OwnDiscovery, OwnRollback, OwnCompletion DEF Process

-----------------------------------------------------------------------------
LEMMA DeletionInit == Init => DeletionInv
  <1> SUFFICES ASSUME Init PROVE DeletionInv
    OBVIOUS
  <1>1. WholeRecords
    BY DEF Init, WholeRecords
  <1>2. ASSUME NEW p \in Processes PROVE CallInv(p)
    BY DEF Init, CallInv, Named, Asked, Owed, Owing, Waiting, Planning, Answered, InDelete
  <1> QED
    BY <1>1, <1>2, LeaseInit DEF DeletionInv

\* A record comes from a deployment that applied everything.
LEMMA RecordsStep == DeletionInv /\ [Next]_vars => WholeRecords'
  <1> SUFFICES ASSUME DeletionInv, [Next]_vars, Whole, NEW p \in Processes, NEW i \in Instances
               PROVE  record'[p][i] = Nothing \/ \A o \in PartOf[i] : record'[p][i][o] # 0
    BY DEF WholeRecords, Whole, Nothing
  <1> DEFINE Goal == record'[p][i] = Nothing \/ \A o \in PartOf[i] : record'[p][i][o] # 0
  <1> USE DEF LeaseInv, TypeOK, MemoryTypes, DeletionInv
  <1>1. ASSUME record' = record PROVE Goal
    BY <1>1 DEF WholeRecords
  <1> HIDE DEF Goal
  <1>2. ASSUME NEW r \in Processes, DeploySucceeds(r) PROVE Goal
    <2>1. record' = [record EXCEPT ![r] = [@ EXCEPT ![inst[r]] = plan[r]]]
      BY <1>2 DEF DeploySucceeds
    <2>2. CASE p = r /\ i = inst[r]
      <3>1. record'[p][i] = plan[r]
        BY <2>1, <2>2
      <3>2. \A o \in PartOf[inst[r]] : plan[r][o] # 0
        BY <1>2 DEF DeploySucceeds, CallInv, Planning
      <3> QED
        BY <2>2, <3>1, <3>2 DEF Goal
    <2>3. CASE ~(p = r /\ i = inst[r])
      <3>1. record'[p][i] = record[p][i]
        BY <2>1, <2>3
      <3> QED
        BY <3>1 DEF Goal, WholeRecords
    <2> QED
      BY <2>2, <2>3
  <1>3. ASSUME NEW r \in Processes, Blocked(r) \/ RolledBack(r) PROVE Goal
    <2>1. record' = [record EXCEPT ![r] = [@ EXCEPT ![inst[r]] = Nothing]]
      BY <1>3 DEF Blocked, RolledBack, Forget
    <2>2. record'[p] \in {record[p], [record[p] EXCEPT ![inst[p]] = Nothing]}
      BY <2>1
    <2>3. record'[p][i] \in {record[p][i], Nothing}
      BY <2>2
    <2> QED
      BY <2>3 DEF Goal, WholeRecords
  <1>4. ASSUME NEW r \in Processes, Crash(r) PROVE Goal
    <2>1. record'[p] \in {record[p], [j \in Instances |-> Nothing]}
      BY <1>4 DEF Crash
    <2>2. record'[p][i] \in {record[p][i], Nothing}
      BY <2>1
    <2> QED
      BY <2>2 DEF Goal, WholeRecords
  <1>5. ASSUME NEW r \in Processes, Complete(r) PROVE Goal
    BY <1>1, <1>5 DEF Complete
  <1>6. ASSUME UNCHANGED memory PROVE Goal
    BY <1>1, <1>6 DEF memory
  <1>7. ASSUME NEW r \in Processes, Process(r) PROVE Goal
    BY <1>2, <1>3, <1>4, <1>5, <1>6, <1>7, MemoryFrame
  <1>8. ASSUME Cluster PROVE Goal
    BY <1>6, <1>8 DEF Cluster, OtherCreates, OtherDeletes, Finalize, ClaimCreated, ClaimRemoved
  <1>9. ASSUME UNCHANGED vars PROVE Goal
    BY <1>6, <1>9 DEF vars
  <1>10. Goal
    BY <1>7, <1>8, <1>9 DEF Next
  <1> QED
    BY <1>10 DEF Goal

LEMMA DeletionStep == DeletionInv /\ [Next]_vars => DeletionInv'
  <1> SUFFICES ASSUME DeletionInv, [Next]_vars PROVE DeletionInv'
    OBVIOUS
  <1>1. LeaseInv /\ WholeRecords /\ \A p \in Processes : CallInv(p)
    BY DEF DeletionInv
  <1>2. LeaseInv' /\ ClusterTypes' /\ Grows /\ Stands
    BY <1>1, LeaseInvStep, ClusterStep, ClusterGrows, ClusterStands
  <1>3. WholeRecords'
    BY RecordsStep
  <1>4. ASSUME NEW p \in Processes PROVE CallInv(p)'
    <2>1. CASE Cluster \/ UNCHANGED vars
      BY <1>1, <1>2, <2>1, ClusterStill, StillKeeps
    <2>2. ASSUME NEW r \in Processes, Process(r) PROVE CallInv(p)'
      <3>1. CASE r = p
        BY <1>1, <1>2, <2>2, <3>1, OwnStep
      <3>2. CASE r # p
        <4>1. Still(p)
          BY <1>1, <2>2, <3>2, OthersStill
        <4> QED
          BY <1>1, <1>2, <4>1, StillKeeps
      <3> QED
        BY <3>1, <3>2
    <2> QED
      BY <2>1, <2>2 DEF Next
  <1> QED
    BY <1>2, <1>3, <1>4 DEF DeletionInv

LEMMA DeletionInvariant == Spec => []DeletionInv
  BY DeletionInit, DeletionStep, PTL DEF Spec

\* Where lists are answered and deployments are of all resources, the answer
\* "complete" of deleteInstance is proof that what the instance had is gone
\* or has passed to another instance: whatever processes crash, delete and
\* deploy at the same time, and from a record as well as from the labels.
THEOREM CompletionProven == Whole => (Spec => []CompleteMeansGone)
  <1>1. ASSUME Whole, DeletionInv PROVE CompleteMeansGone
    <2> SUFFICES ASSUME NEW p \in Processes, answer[p] = "complete", NEW s \in start[p],
                        s.tag = inst[p], Present(s.name, s.uid)
                 PROVE  FALSE
      BY DEF CompleteMeansGone
    <2>1. pc[p] = "idle" /\ Owing(p, s.name, s.uid)
      BY <1>1 DEF DeletionInv, CallInv, Answered, Owed
    <2> QED
      BY <2>1 DEF Owing
  <1>2. Whole => (DeletionInv => CompleteMeansGone)
    BY <1>1
  <1>3. SUFFICES ASSUME Whole PROVE Spec => []CompleteMeansGone
    OBVIOUS
  <1>4. DeletionInv => CompleteMeansGone
    BY <1>2, <1>3
  <1> QED
    BY <1>4, DeletionInvariant, PTL

\* Whatever fails in between, rollbackRecord asks for the deletion of a
\* resource only when the dependents that the same call deletes are gone,
\* as long as it has not recorded an error.
THEOREM DependentsGoFirst == Spec => DependentsFirst
  <1>1. ASSUME DeletionInv, [Next]_vars
        PROVE  [\A p \in Processes, o \in Objects :
                  (Delete(p, o) /\ ~failed[p]) =>
                    \A d \in Planned(p) \ Namespaces :
                        (o \in Deps[d] /\ Targets(d, request[p])) => ~Present(d, plan[p][d])]_vars
    <2> SUFFICES ASSUME NEW p \in Processes, NEW o \in Objects, Delete(p, o), ~failed[p],
                        NEW d \in Planned(p) \ Namespaces, o \in Deps[d],
                        Targets(d, request[p]), Present(d, plan[p][d])
                 PROVE  FALSE
      OBVIOUS
    <2>1. pc[p] = "delete" /\ \A t \in todo[p] : o \notin Deps[t]
      BY DEF Delete, NextToDelete
    <2>2. d \in todo[p]
      BY <1>1, <2>1 DEF DeletionInv, CallInv, Waiting, Planned
    <2> QED
      BY <2>1, <2>2
  <1> QED
    BY <1>1, DeletionInvariant, PTL DEF Spec, DependentsFirst
=============================================================================
