# TypeKro: a TLA+ verification of its deployment runtime

TypeKro turns TypeScript compositions into Kubernetes resources.  Most of its
code is a compiler (expressions, CEL, serialization, resource factories).  What
can go wrong at run time, with processes, timers, the cluster and other clients
acting at the same time, is in `src/src/core/deployment`: the engine that deploys
a graph of resources, waits, retries and rolls back, the factories that deploy and
delete instances, and the teardown of what KRO deployed.  These modules model that
part, TLC checks them on small instances, and TLAPS proves the theorems listed
below for every value of the constants.

Paths below are relative to the repository's `src/core/deployment` unless they say
otherwise.

## The parts of the system

| Part (source) | State it keeps | Operations | What is hard | What makes it correct |
|---|---|---|---|---|
| Deployment engine (`engine.ts`) | per call: level, deployed resources, errors; per engine: `deploymentState`, abort controllers, `eventMonitor` | `deploy`, `deployWithClosures`, `rollback`, `rollbackRecord`, `abortAllOperations`, `dispose` | tasks of a level run concurrently with a watchdog and aborts; partial failures; rollback in the same call | barrier between levels, rollback in reverse order of dependencies and only of what it created, honest result, the call returns |
| Resource applier (`resource-applier.ts`) | none across calls | resolve references, apply with a policy, retry, resolve conflicts | lost answers, retries, conflicts with other writers | bounded attempts; an object is changed only as its policy says |
| Readiness waiter (`readiness-waiter.ts`, `readiness.ts`) | none | poll until an evaluator says ready | never-ready objects, aborts | returns or is interrupted |
| CRD manager (`crd-manager.ts`) | the promise of the Flux patch | wait for a CRD to be established | CRDs that never come, or are being deleted | a custom resource is applied only to an established CRD |
| Rollback manager (`rollback-manager.ts`) | none | delete a list in order, poll each to its 404 | finalizers, Namespaces that are replaced | order, UID leases |
| Tagging and discovery (`resource-tagging.ts`, `deployment-state-discovery.ts`) | labels and annotations on the objects of the cluster | tag at deployment, list per kind, rebuild the graph | lists that fail, edges that are lost | the record found is the instance's |
| Direct factory (`direct-factory.ts`, `strategies/`) | `deployedInstances` of the process | `deploy`, `deleteInstance`, `rollback` | crash of the process between deployment and deletion; retries of a blocked deletion | a deletion reported complete is complete, nothing foreign is deleted |
| Dependency graph (`../dependencies`) | nodes and edges | levels, deletion order, cycles | shared nodes that are pinned | every order respects every edge |
| Closure planner (`closure-planner.ts`) | none | put closures in front of the levels | - | closures run before resources |
| KRO factory (`kro-factory.ts`, `strategies/kro-strategy.ts`) | the discovered plural, singleton owners; in the cluster: RGD, CRD, instances, hoisted Namespaces | `deploy`, `deleteInstance` | instances share one RGD; a teardown of many steps may stop after any of them | shared definitions and Namespaces survive, a retry finishes |
| KRO Namespace teardown (`kro-namespace-teardown.ts`) | owner annotation on Namespaces | create-first, prove ownership and emptiness, delete | checks and the deletion are separate requests | what others created or use is retained |
| KRO guards (`kro-instance-safety.ts`, `kro-instance-admission.ts`, `kro-readiness.ts`, `kro-artifact-binding-migration.ts`) | none | polls and refusals before a step | stale reads | a step is refused unless proved safe |
| Event monitor (`event-monitor.ts`, `event-filter.ts`) | connections, counters, timers | start, stop, add, remove, reconnect | callbacks of old watches, sleeps across a stop | one live watch per kind and Namespace, bounded retries |
| Singletons (`../singleton`, `singleton-*.ts`) | owners deployed by the process | ensure an owner exists, check its drift | several factories share an owner | one owner, one specification |
| Clients (`../kubernetes`) | configuration | requests with timeouts | lost or late answers | an error or an answer |
| Compiler (`../planning`, `../expressions`, `../composition`, `../serialization`, `../references`, `../proxy`, `../aspects`, `../yaml`, `../validation`) | none at run time | pure translations | size | the output means the input |
| Alchemy integration (`src/alchemy`) | state of another engine | reconcile and delete by way of the parts above | retries from outside | idempotence |
| Resource factories (`src/factories`) | none | constructors and readiness evaluators | - | - |

Who calls whom: a direct factory's strategy calls the engine's
`deployWithClosures`; the engine calls, per resource, the CRD manager, the
reference resolver, the applier and the readiness waiter, and on failure the
rollback manager.  `deleteInstance` goes to `rollback` if the process still has the
record and otherwise through discovery to `rollbackRecord`.  The KRO factory uses
an engine to apply the ResourceGraphDefinition and the instance, and the rollback
manager and the Namespace teardown to remove them.  All of them share the cluster,
with each other and with controllers and users.

## The modules

| Module | Stands for |
|---|---|
| `DirectDeployment` | one call of `deployWithClosures` with its tasks, timers and rollback, and the cluster |
| `DeploymentPromise` | what a caller may expect of a deployment, without levels, retries or timers |
| `ResourceApply` | one call of `applyArtifactResource`, request by request, under every policy |
| `DependencyOrder` | the topological sort, the search for a cycle, the levels, and the order of a deletion |
| `InstanceDeletion` | `deploy` and `deleteInstance` of a direct factory: several instances, several processes, the record in memory, discovery, the rollback with scopes, the completion of Namespaces |
| `KroTeardown` | `deploy` and `deleteInstance` of a KRO factory: instances that share a ResourceGraphDefinition and Namespaces, several processes, the KRO controller |
| `NamespaceGate` | one Namespace name: the create-first ownership decision and the deletion gated on ownership and emptiness |
| `EventMonitor` | one session of the event monitor of a deployment |
| `MC...` | the instance of the module of that name for TLC |
| `..._proofs` | theorems about the module of that name: `DirectDeployment`, `ResourceApply`, `DependencyOrder`, `InstanceDeletion`, `KroTeardown`, `NamespaceGate`, `EventMonitor` |
| `DirectDeployment_refinement` | the proof that `DirectDeployment` implements `DeploymentPromise` |

How they fit together.  `DirectDeployment` looks into one deployment and takes an apply as
attempts that succeed, fail or lose their answer; `ResourceApply` looks into one apply.
`DirectDeployment` assumes a plan in which dependencies have lower levels
(`PlanAssumption`); `DependencyOrder` computes the levels, and `LevelsTight` is what
justifies that assumption.  `InstanceDeletion` takes a deployment as a sequence of applies that
may fail and looks at what happens between deployments and deletions: what connects it with
`DirectDeployment` is the record that a deployment leaves in `deployedInstances`.
`KroTeardown` reads ownership and emptiness of a Namespace in one step; `NamespaceGate` has
the requests of that step and everything that may come between them.

Operators named `Bad...`, or by a name no other definition uses (`OneRetryMore`,
`ListOnce`, `LevelsAsTheyAre`, ...), are plausible mistakes in the definition that follows
them.  No behaviour uses them; they exist to show that each property notices one.

### DirectDeployment

State and code: `phase` is the position in `deployWithClosures`/`deployLevel`
(`planning`, `starting` a level, `running` its promises, `collecting` their results,
`rollback`, `cleanup`, `done`).  `pc[t]` is where the promise of task t is: a
closure is one step; a resource waits for its CRD (`crd`), resolves references
(`resolve`), is about to be applied (`apply`), has an attempt under way (`sent`),
waits for readiness (`wait`) and is `settled` with the outcome `out[t]`.  `deployed`, `errors`
and `levelFailed` are the variables `deployedResources`, `errors` and
`levelHasFailures`; `cursor` and `deleting` are the position of the loop of
`deleteResourceList` and its poll.  `signal` is the deployment's abort controller,
`extAborted` the caller's signal, `timer` the watchdog.  `obj[r]` is the object in the
cluster that has r's name: absent, somebody else's, written by us, or terminating;
`leased` are the Namespaces that still have the UID of their `liveManifest`, which is the
answer of the apply until the fold reads the object again by its name (`ReadBack`, a part of
`Collect`): a Namespace that replaced ours in between is then taken for ours.  `attempted`,
`written` and `acked` are history; `acked` has every resource of which the apply step returned
an object, also in a dry run or an object of others that was adopted.

One action is one stretch of code between two points where the event loop may run
something else: `CRDReady` includes the abort check at the beginning of
`deploySingleResource`, `Collect` is one turn of the loop over `levelResults` (a
turn per task, in any order: the code uses the order of the plan's list, one of
those), and a deletion is a request followed by polls.  `ApplyFails` includes a write of
which the answer was lost.  `OtherWriter` is every other client and the garbage
collector.

| Run | What it asks | Result |
|---|---|---|
| `deployment_safety` | `TypeOK`; no task outside its level (`NoTaskOutsideLevel`); order and extent of the rollback (`RollbackOrder`, `RollbackExact`); honest status (`ResultHonest`) | holds (920,000 states) |
| `deployment_promise` | `DirectDeployment` implements `DeploymentPromise` (`KeepsPromise`), every call returns (`Termination`), and no task begins before its dependencies are collected (`DependenciesCollectedFirst`), for every option record | holds |
| `skip_rolls_back` | "not an error" of `targetScopes` (`../types/deployment.ts`) | violated: a skipped resource starts a rollback |

Bounds.  Three resources and a closure in three levels: the closure at level 0, a
Namespace and a shared (scoped) operator at level 1, the application that depends on both
at level 2.  That is the smallest plan with a level of several tasks, dependencies, a shared
resource and a Namespace at once; `deployment_promise`, which has
every option record, takes a plan where two resources of one level
stand beside each other, one of them not listed in `graph.resources`, and one attempt.
`MaxAttempts = 2` gives one retry in `deployment_safety`.
The barrier and the order of the rollback relate two resources at a time, and the
proofs do not depend on these sizes.

Fairness (`FairSpec`).  The event loop runs every step of the engine, every request of
an apply or a rollback is answered (the clients have timeouts), and the
watchdog fires.  Nothing is assumed about the cluster: a CRD may never be
established and an object never become ready, and the polls are not assumed to reach
their own timeouts; the watchdog alone ends them.

### InstanceDeletion

State and code: `live`, `uid`, `tag` and `pvc` are the cluster: of each name the phase,
the incarnation, the instance that its labels and annotations name
(`resource-tagging.ts`), and of each Namespace the incarnation that has a claim.
`tracked` and `record` are the two memories of a process: `deployedInstances` of
`direct-factory.ts` and `deploymentState` of `engine.ts`; `record[p][i][o]` is 0 or the UID
of o's `liveManifest`: that of the answer of the apply (`Apply`), replaced by that of the read
by name at the end of the level (`ReadBack`, `updateResourceKeyMappingWithLiveResource`) unless
the read fails.  The other variables are the locals of the call that a process is
making: `plan` is the record at work, `todo` what the current loop still has to do,
`unread` what the level at work applied and has not read back,
`failed` says that the rollback collected an error, `spaces` are the Namespaces it deleted,
`snapshot` is the claim that the last list returned, `answer` is what the call returned.
`start` and `held` are history; `held` has the Namespaces whose incarnation in the cluster some
deployment has applied or read back.

One action is one request to the cluster with the code up to the next request.
`Apply` creates or patches an object with the tags, or takes an existing one as it is, and
`ReadBack` is one turn of the fold.  An apply is answered with an object or throws, and a list
returns objects, so every record has the UIDs of what it names, and the read by which
`rollback-manager.ts:538` would look for a missing one is not reached.
`StartDelete` is `rollbackInstanceResources`: the record in memory if there is one, else
discovery, which lists kind by kind (`List`), where the list of a kind may fail and is then
taken for empty.  `Delete`, `DeleteAbsent`, `DeleteRefused`, `PollGone` and `PollFails` are
`deleteDeployedResource`; `Forget` is the end of `rollbackRecord`, which drops the record
also after errors.  `CheckLease` to `SpaceGone` are `completeNamespaceDeletion` and
`waitForNamespaceDeletion`.  `Crash` ends a process: its memory and its call are gone.

| Run | What it asks | Result |
|---|---|---|
| `deletion_safety` | dependents are gone before what they depend on is deleted, for every choice of scopes (`DependentsFirst`); a Namespace that others created after the record was made is left alone, as are claims of other incarnations (`NamespaceLease`, `ClaimLease`); `TypeOK` | holds (3.4 million states) |
| `deletion_sharing` | "complete" is proof (`CompleteMeansGone`) for two instances that share an operator, two processes, a crash | holds (2.7 million states) |
| `deletion_retries` | a deletion that is tried again leaves nothing in the end (`RetriesFinish`), with a crash and refusals on the way | holds (180,000 states) |

`deletion_sharing` and `deletion_retries` set `ListErrors` to FALSE and deploy whole
instances: they show what the rest of the protocol achieves.  `deletion_safety` lets lists
fail: order and leases do not depend on them.  What the two choices cost is listed under
"Known disagreements".

Bounds.  Three levels with a scope in the middle (Namespace, database, application) are needed for
a targeted object whose dependents are not targeted, and for a record with gaps; a Namespace
with an application for the retries; an operator shared by two instances, one of which has an
application, and two processes for sharing.  Two incarnations of a name (`MaxUid`) let every request be late once;
the proofs show that more do not matter for the leases.  Where there are two deployments, one of them
is an update or follows a deletion.  One crash is enough to lose each piece of memory: all of it goes
at once.  Without `MaxDeploys` and `MaxUid` the instances would be infinite; deletions are
not bounded.

Fairness (`FairSpec`).  A process that is in a call goes on; the user calls
`deleteInstance` again when it returned; a request that is made again and again is at some time
answered (strong fairness of the deletes and of the reads, since a
refusal ends the call and the request is disabled until the next one); finalizers end.
Deployments, other writers and `ClaimRemoved` get no fairness: a claim is removed by the factory or
perhaps never.  The code does not retry by itself; that the user does is what its message
of a blocked deletion asks for.

### ResourceApply

State and code: `call` has the policy and the locals of `applyArtifactResource`: `pc` is
the request at hand, `attempt` the loop over the retry policy, `handling` that
`handleConflictStrategy` is at work, `expired` that `waitForResourceDeletion` has waited long
enough, `result` and `returned` what the call reports.  `obj` is the object of that name: is it
absent, live or terminating, who made it, and does it equal the desired state, differ, or
differ in a field that no patch can change.  `unread` and `lateWrites` are history.  Every
action is one request with the processing of its answer; an answer that is lost is an error
after the effect.  `Caught` is the catch of an attempt, `Unhandled` that of the conflict
strategies; a Secret is patched without being compared, so `Read` may go on to the patch also
when the contents are equal.

| Run | What it asks | Result |
|---|---|---|
| `resource_apply` | what is reported as applied is so (`SuccessHonest`); objects of others are changed and deleted only as the policy says (`PolicyKept`); at most one write after an abort (`OneWriteAfterAbort`); every call returns (`Returns`); `TypeOK` | holds (73,000 states) |

Bounds: three attempts, so that a conflict, a lost answer and a recreation can follow
each other in one call.  The initial state ranges over every policy that
`ArtifactApplyPolicy` admits and over every `conflictStrategy` of the options.

Fairness: the call goes on, a request is answered or fails, and time passes.  Nothing is
assumed of the others: a finalizer may hold the object for ever, and others may
create it again and again.

### DependencyOrder

State and code: `deps` is the graph, any graph over `Nodes`.  `inDegree`, `queue` and `sorted` are
`getTopologicalOrder`; `path`, `rest`, `visited` and `cycle` the recursion of `findCycles`;
`levels` is `analyzeDeploymentOrder`.  `Deploy` takes any part of the graph for
what was deployed before a failure, in the order of the levels; `Rollback` is the
`rollbackRecord` that retains some of it and finds some of it under the ids of the graph;
the sort then runs on that part, and `Plan` is the list that is deleted.  Where the
code takes nodes in the order of insertion, the model takes them in any.

| Run | What it asks | Result |
|---|---|---|
| `dependency_order` | the sort respects every edge (`SortedDependenciesFirst`); a graph is rejected exactly if it has a cycle (`RejectedIffCyclic`), and the cycle in the message is one (`CycleReported`); every node is in the first level it may be in (`LevelsTight`); a deletion takes each resource once and dependents first (`DeletionPlanned`); `TypeOK` | holds (630,000 states, up to the names of the nodes) |

Bounds: every graph of four nodes: two disjoint cycles, a cycle that the search enters from
outside, a diamond, a chain of four levels, and a chain of which the
middle is retained all need no more.  The computation ends, so a deadlock is no error
(`CHECK_DEADLOCK FALSE`, as in every run whose system may stop).

### KroTeardown

State and code: `rgd`, the custom resources, their children, `ns` and the stamps in `owned`
are the cluster, with the KRO controller (`Kro...`), the namespace controller (`Ns...`) and
others.  `task[p]` is the call that process p is making, a deployment (`Check` to `DeployCr`:
`deployDirect` with the create-first Namespaces, `kro-factory.ts:2226`) or a deletion, whose steps follow
`deleteInstanceWithinOperation`: look the CRD's plural up, prove that it exists, read
the record of the instance's Namespaces, delete the CR and wait for it and its
children, delete Job descendants, list the other instances, gate the Namespaces, and, when no
instance is left, sweep by stamp, confirm, and delete the RGD.  `result[i]` is what the last
deletion of i answered.  `lateCrs` and `lateNs` are history: what was posted or stamped after
the list that decides.  `Interrupt` ends a process in the middle of a call.

A composition with a semantic capture goes another way to the same requests
(`kro-factory.ts:1565`, `deployKroArtifactBundle`): the home Namespace is ensured before the RGD
(`kro-factory.ts:2050`), and the rest follows in the order of the bundle
(`kro-factory.ts:2066`), not in that of `deployDirect`.  The model has the order of
`deployDirect`.  The properties relate a teardown to what was posted, stamped or listed; none
of them speaks of the order in which one deployment makes its requests before it posts the instance.

| Run | What it asks | Result |
|---|---|---|
| `teardown_safety` | the RGD goes after every instance and every stamped Namespace it could know of (`RgdGoesLast`); a Namespace another instance hoists is kept (`SharedNamespaceKept`); of overlapping deletions one settles the RGD (`LastDeletionSettles`); `TypeOK` | holds (1.3 million states) |
| `teardown_retries` | stamped Namespaces are not left without their RGD (`NoOrphanedNamespace`); every deletion that is retried is complete in the end (`DeletionsComplete`) | holds |

Bounds: two instances in one home Namespace that share a second one, where one of them may have been
deployed before Namespaces were recorded (`Legacy`): that is a last and a non-last deletion, a
shared and a private Namespace, and an owner that is known only by its stamp.  Two processes
without faults for the interleavings; one process with a fault at any step, Job
descendants, a draining controller and an occupied Namespace for the retries.

Fairness: a call that is under way goes on; the user retries a deletion until it is complete
(strong fairness, since other calls may hold the process); KRO and the controllers of the
cluster do their work.  Occupants may stay, Jobs' pods are removed by the factory alone, and
administrators do nothing: a Namespace that stays occupied is reported, which
counts as complete only where the code says so.

### NamespaceGate

State and code: `ns` is the Namespace with its uid, its stamp and who created it, `content` what is
in it.  `proc[p]` is a run of `applyRetainedHoistedNamespace` (create, on a conflict read
the owner, and repeat the stamp by an apply) or of `deleteNamespaceIfEmpty` (read the stamp,
list kind by kind, again without the claims, delete by uid with the claims or by name).
Others create, delete, fill and empty the Namespace between any two requests.

| Run | What it asks | Result |
|---|---|---|
| `namespace_gate` | what was in the Namespace throughout is never destroyed with it (`OccupantsSpared`); no claim of another incarnation is deleted (`ClaimsOfProvenNamespace`); a Namespace of others is taken down only if it replaced ours between a read and the write relying on it (`AdoptedKept`); `TypeOK` | holds (170,000 states) |

Bounds: one deployment, two deletions at once, two kinds, three incarnations (ours, another's,
ours again) and two objects: one that stays and one that comes and goes.

### EventMonitor

State and code: `isMonitoring`, `monitored` and `map` are the fields of the class; `connection` are the
objects `WatchConnection`, also those that are no longer in the map; `request` are the
watches of `BunCompatibleWatch`, asked for (credentials are awaited) or open.  `AddResource` may come at any
time, as the discovery of children makes it, and awaits nothing; `Wake` is the end of the delay
of a reconnection; `End` is the end of a watch by the server, a timeout or an abort, and
`Handled` is `handleWatchError`.  `told` says that an error was thrown to the
caller or that the connection was reported as degraded.

| Run | What it asks | Result |
|---|---|---|
| `event_monitor` | one reconnection per connection (`OneReconnection`); no watch is lost silently (`WatchedOrTold`); a lost watch is restored or reported (`Restored`); after a stop the requests run out (`StoppedDrains`); `TypeOK` with the bound on the attempts | holds (200,000 states) |

Bounds: two resources of one kind, so that a connection is widened, narrowed and displaced;
two attempts; three connections (of the Namespace, of the kind, and one that was
displaced) and two requests at a time.  One session: the engine makes a monitor for each
deployment, starts it once and stops it.

Fairness: delays elapse, credentials come or fail, and the server ends every watch after
its `timeoutSeconds`.

## What is proved

Every safety property of the runs, invariant or action property, and the refinement of
`DeploymentPromise`, is also a theorem, for every value of the constants.  What is left to TLC
is liveness: `Termination`, `RetriesFinish`, `DeletionsComplete`, `Returns`, `Restored` and
`StoppedDrains`; TLAPS has no rule for fairness and ENABLED.

Each theorem follows from an inductive invariant of its module, kept by one lemma per action
or group of actions.  The assumptions are those that the modules name, and TLC evaluates them in
the runs.

### Deployment

`DirectDeployment_proofs`, from `ResourcesAssumption`, `PlanAssumption` (what the resolver and
the closure planner establish: dependencies have lower levels) and `BoundsAssumption`, for any
number of resources, levels and attempts.  The invariant has layers, each proved with the help
of those before it.

- `TypeCorrect`: `Spec => []TypeOK`, from `TypeInv`.
- `DependenciesFirst`: `Spec => []DependenciesCollectedFirst`.  The property is not
  inductive.  `BarrierInv` adds that tasks of later levels are idle, those of earlier levels
  are settled and collected, that a level is left only when all of it is collected, and
  what each phase says about the current level.  Starting a level then meets only
  dependencies of lower levels, and those are collected by `PlanAssumption`.
- `QuietOutsideLevels`: `Spec => []NoTaskOutsideLevel`, from the same invariant.
- `HonestResult`: `Spec => []ResultHonest`.  `OutcomeInv` says what the outcome of a task says about the
  object, `FoldInv` what the loop over `levelResults` has made of the outcomes
  collected so far: `deployed` has exactly the applied ones, each once, and `levelFailed`
  is set exactly by those that count as failures.
- `OrderedRollback` and `ExactRollback`: `Spec => []RollbackOrder` and `Spec => []RollbackExact`.
  `RollbackInv` describes the loop by its cursor: every position above it is handled (deleted and
  no longer ours, or recorded as an error), none below it has been touched, and what was
  attempted is closed upwards.  Since `deployed` is in the order of the levels, a dependent has
  the greater position.

`DirectDeployment_refinement`: `DeploymentKeepsPromise`, `Spec => KeepsPromise`.  The initial
states map to the initial state of the promise; a level that starts gives up the resources that
are not to be applied, a task applies or gives up its resource, a delete request of the rollback
removes one, and every other step is invisible.  `RefinementInv` is `ResultInv` (the first four layers)
with `RollbackInv`: the barrier shows that dependencies are decided when a task moves, and the order of
`deployed` that no dependent is left when an object is removed.

### One apply

`ResourceApply_proofs`, from `AttemptsAssumption`, for every number of attempts and whatever
the others do to the object:

- `TypeCorrect`: `Spec => []TypeOK`; the attempts stay within the policy because a delay is
  entered only when one is left.
- `SuccessIsHonest`, `PoliciesAreKept`, `AbortStopsWrites`: `Spec => []SuccessHonest`,
  `Spec => PolicyKept`, `Spec => []OneWriteAfterAbort`.

All follow from `IInv`: `Where` says under which policies the call is at each request (a patch
only if something is to be patched or, on "warn", nothing could be read; a deletion only to
replace or to recreate), and `Late` that after a late write the call is at its end, at a
delay or at the wait for a deletion, each of which looks at the signal before it goes on.
The lemmas `...Keeps` are one per outcome of a request, then one per action.

### Order

`DependencyOrder_proofs`, from `NodesFinite`, for every finite graph:

- `TypeCorrect`: `Spec => []TypeOK`.
- `SortRespectsDependencies`: `Spec => []SortedDependenciesFirst`.
- `RejectionIsExact`: `Spec => []RejectedIffCyclic`.  A node that the sort left waits for another
  one it left, so these are a cycle; and the first node of a circular set that the sort
  would take cannot have been released.
- `LevelsAreTight`: `Spec => []LevelsTight`, which also shows that the loop of
  `analyzeDeploymentOrder` always finds a next level in a graph that was accepted.
- `ReportedCycleIsOne`: `Spec => []CycleReported`.  `SearchInv` follows the recursion of `findCycles`: `PathInv`,
  the path is a chain of edges, and `FinishedInv`, nodes the search left for good depend only on
  such nodes and have no circular set among them.  So a search that finds nothing would
  have left every node, in a graph that the sort has just found to be cyclic.
- `DeletionIsPlanned`: `Spec => []DeletionPlanned`.  `PlanInv`: in the record of what was
  deployed nothing depends on what follows it (`Independent`), because the record is in the order of the levels; and
  the same holds backwards of the list to be deleted (`Dependent`), whether the sort made it
  or it is the record reversed.  The lemmas are about
  paths (`DependsWithin` grows with the graph, and a path of an accepted graph goes to
  earlier levels) and about the concatenation of the levels (`LevelByLevel`,
  `AmongKeepsOrder`, `FlattenJoins`).

`SortInv` has the parts: types, what the counters `inDegree` count, what is in the
queue, the verdict; `LevelInv` that every level was the set of unblocked nodes when it
was added.

The library's rules of induction take an operator, which the provers here cannot instantiate.
The lemma `Induction` states induction for a set of numbers instead, from the well-foundedness of `<`
on the naturals, and what is to be shown of every n is put into a set.  This is also why
the module selects from a list with `Among`, a function of positions, instead of `SelectSeq`, whose
definition the provers cannot expand.

### Deletion of instances

`InstanceDeletion_proofs`, from `ObjectsAssumption`, `DepsAcyclic` and `DeletionBounds`, for any
instances, objects, processes and scopes, and any number of crashes and incarnations:

- `TypeCorrect`: `Spec => []TypeOK`.
- `NamespacesLeased`: `Spec => NamespaceLease`.  A delete of a Namespace carries the UID of the
  plan, so it succeeds only if the plan's UID is current; that UID must then be shown to be an
  incarnation that a deployment of the factory applied, or read back at the end of its level.
  More is not true of the code: see the read back under "Known disagreements".
- `ClaimsLeased`: `Spec => ClaimLease`.  The delete of a claim carries the UID of the
  listed claim, which was read between two reads of the Namespace.
- `DependentsGoFirst`: `Spec => DependentsFirst`, with lists that fail and any scopes.
- `CompletionProven`: `Whole => (Spec => []CompleteMeansGone)`.  `Whole` says that lists do not
  fail and that a deployment is of the whole instance.  Without either the property is false, as
  it is of the code: see "Known disagreements" (the failed list, and the record in memory that
  hides what another process deployed).  It is a condition on two constants of the
  module, and `deletion_sharing` gives them these values.

The leases follow from `LeaseInv`.  Its parts: `UidsKnown`, every UID in a plan or a record is either
older than the current incarnation or the current one and, of a Namespace, held (a plan takes UIDs
only from an apply, from the read back, from a list that filters by tag, or from a record; only
an apply tags, so what is tagged is held; and a Namespace is let go only when a new incarnation, with a
greater UID, takes its place); and `LeaseKept`, after the first read
the Namespace is not older than the lease, after the list
the claim is not older than the lease and not younger than the Namespace, and after the second
read, which finds the lease current, the claim is of the lease.  Each part of `Next` is taken one
action at a time; `Grows` says that UIDs never decrease, and that what is held stays so as
long as the incarnation lasts.

The last two follow from `DeletionInv`, which adds per call what it still owes: an object that the
instance had at the start and that is still there under the same UID (`Owed`) is in a list not yet read, in the
plan and not yet treated, or the call has recorded a failure (`Owing`), so a call that has answered
"complete" owes nothing.  `WholeRecords` says that a record in memory has what the instance had.  A step of another process
or of the cluster can only take from what is owed (`Still`), whatever it does.

### Teardown of a KRO factory

`KroTeardown_proofs`, from `InstancesAssumption` and `TeardownBounds`, for any instances,
Namespaces, processes, faults and deployments:

- `TypeCorrect`: `Spec => []TypeOK`.
- `RgdIsLast`: `Spec => RgdGoesLast`.
- `SharedNamespacesStay`: `Spec => SharedNamespaceKept`.
- `OneDeletionIsTheLast`: `Spec => []LastDeletionSettles`.
- `NamespacesStayFindable`: `Spec => []NoOrphanedNamespace`.

`TeardownInv` says of each task (`Fits`) what it has, what it found gone and is therefore still
gone or came after its list (`Told`), and that the Namespaces it has yet to treat are none that a
listed instance hoists (`Unshared`); of the cluster, that instances need the CRD
(`Served`); and of a system without deployments (`Calm`) that nothing comes back and that, when
every instance is gone and the RGD is not, one deletion was the last, found no
other instance, and is either still at work or has said that the RGD stays (`LastOne`).

### Ownership and emptiness of a Namespace

`NamespaceGate_proofs`, from `GateAssumption`, for any runs, kinds, incarnations and objects:

- `TypeCorrect`: `Spec => []TypeOK`.
- `OccupantsAreSpared`: `Spec => OccupantsSpared`.
- `ClaimsAreOfProvenNamespace`: `Spec => ClaimsOfProvenNamespace`.
- `AdoptedAreKept`: `Spec => AdoptedKept`.

`IInv` says of every run, over what it has read, what is still true of the Namespace
now: which occupants its lists may have missed (`Seen`), how old the incarnation it read and
the claims it captured are (`Proven`), and that nobody else's Namespace took the place
of ours unnoticed (`Adopted`).

### Event monitor

`EventMonitor_proofs`, from `BoundsArePositive`, for any resources, connections, requests and attempts:

- `TypeCorrect`: `Spec => []TypeOK`.
- `ReconnectsOnce`: `Spec => []OneReconnection`.
- `NoSilentLoss`: `Spec => []WatchedOrTold`.

None is inductive.  `IInv` adds that nothing is watched before the first connection (`Fresh0`), that a
connection which does not reconnect has neither a timer nor a request of its own for it, and one which does has
exactly one of them (`OneEach`), that what a connection would abort is an open request of its own, so that
no start under way is lost (`Pointed`, with the life of a request in `Shaped`), that the
connections of the Namespace and of the kind are two (`Apart`), and that there is a free request for every
reconnection that still sleeps (`RoomForAll`), so that the bound on requests hides no reconnection.

### What the proofs changed

Three properties that TLC accepted on the runs turned out to be false, or to say something else than
meant, when their proof was tried.  `WatchedOrTold` failed with three resources: one resource
may be told of an error that concerns a second one.  `CompleteMeansGone` failed with three
deployments: an object that passed to another instance and came back while the deletion was under way still
counted as what the deletion had found.  `SharedNamespaceKept` spoke of a Namespace that the
task was not treating.  Each was restated; the mutants show that the new
statements still notice the mistakes the old ones did.

## Known disagreements

One is a run that TLC must find violated, `skip_rolls_back`; PROJECT.json quotes the lines.  The
others were met while modelling.  They are what the code does, the models do the same or
leave the case out, and no run states the contrary:

- A list that fails counts as an empty one (`deployment-state-discovery.ts:260`), so a deletion
  may answer "complete" while objects exist, against `direct-factory.ts:483`.
- The record in memory has precedence over discovery (`direct-factory.ts:514`), and a second
  deployment of other scopes replaces it; the tags of a shared object name the consumer that
  deployed it last (`deployment-state-discovery.ts:297`).  The runs deploy whole instances.
- `abortOnFailure` is not read (`../types/deployment.ts:209`); a dry run is recorded as
  applied (`engine.ts:1376`); a rolled back deployment leaves no record, though deletions may
  have failed (`engine.ts:408`); `dispose` does not wait for deployments (`engine.ts:271`); two
  deployments of one engine share the field `eventMonitor` (`engine.ts:787`).
- The fold of a level reads every applied resource again by its name, and the answer replaces that of the
  apply (`engine.ts:1271`), whose UID is the precondition of a later deletion
  (`rollback-manager.ts:537`).  A Namespace that others put under the name between the apply and the end of
  its level becomes the record's, and is deleted though no deployment tagged it; in a dry run the UID of a
  real object replaces the placeholder.  `NamespaceLease` therefore protects the
  incarnations that come after the read.
- After the watchdog an apply may still begin (`resource-applier.ts:760`).
- The promise of the Flux patch and the plural of a CRD are cached for ever
  (`crd-manager.ts:147`, `kro-factory.ts:1405`).
- Outside Namespaces, polls of a deletion go by name (`rollback-manager.ts:629`).
- A retained resource is dropped from the deletion graph with its edges (`../dependencies/resolver.ts:690`):
  `DeletionPlanned` is stated for paths through resources that are not retained.
- A deployment may apply into a terminating Namespace (`kro-factory.ts:2444`); a failed read of
  the custom resource is taken for its absence (`kro-factory.ts:2936`).
- A replacement is decided by one answer and deletes by name: an object created in between
  is deleted.  Without a policy, a conflict strategy "replace" whose wait fails patches the doomed
  object on the next attempt and reports success; a success may name a terminating object.
  A create-only apply whose answer was lost reports a conflict with its own object.
- The event monitor reads its resume version from a field that watch events do not have
  (`event-monitor.ts:863`), and a transport that reports before it connects
  (`event-monitor.ts:1043`) resets the counter of attempts.  The model uses
  `BunCompatibleWatch`, which does not.

## What is not modelled

The compiler and the resource factories: pure translations of data, where a model would repeat the
program.  The transport: a request is answered, refused or lost.  Events of the
monitor and their filters: only the watches that bring them.  Time: a timeout may happen at any
moment.  Status hydration: reads, one per field.  The bulk `rollback` of all instances of a direct
factory, the guards in front of the KRO factory (`kro-instance-safety.ts`,
`kro-instance-admission.ts`, `kro-artifact-binding-migration.ts`), singletons and the Alchemy
adapter, which calls the modelled parts from another engine's state: these could be modelled and
are not.

## Plan

1. `DirectDeployment`, `DeploymentPromise`, `InstanceDeletion`: done.
2. `KroTeardown`, `NamespaceGate`, `DependencyOrder`, `EventMonitor`, `ResourceApply`: done.
3. Proofs of all safety properties of the modules above, and of the refinement of
   `DeploymentPromise`: done.
4. Next: the guards in front of the KRO factory, the bulk `rollback` of a direct factory and the singleton
   owners, as modules of their own; with them a proof that `LevelsTight` implies
   `PlanAssumption`, which connects `DependencyOrder` with `DirectDeployment`.
   Liveness stays with TLC.
