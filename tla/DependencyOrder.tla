-------------------------- MODULE DependencyOrder --------------------------
(***************************************************************************)
(* The orders that the engine computes from the dependency graph: the      *)
(* levels of a deployment (validateNoCycles, analyzeDeploymentOrder), the  *)
(* record of what was deployed, and the order of a deletion by             *)
(* rollbackRecord (analyzeDeletionOrder, with its fallback).               *)
(*                                                                         *)
(* Abstractions: a resource is its node; two nodes that the graph leaves   *)
(* unordered are taken in any order, where the code has that of insertion; *)
(* closures, which come before all levels, are left out.                   *)
(***************************************************************************)
EXTENDS Naturals, Sequences, FiniteSets, SequencesExt

CONSTANT Nodes    \* ids of the resources

ASSUME NodesFinite == IsFiniteSet(Nodes)

VARIABLES
    pc,
    deps,      \* deps[n]: node.dependencies
    nodes,     \* the nodes of the graph at hand: all, or those to be deleted
    inDegree, queue, sorted,    \* getTopologicalOrder
    levels,    \* analyzeDeploymentOrder: the levels so far
    path,      \* findCycles: the path of the search
    rest,      \* rest[k]: dependencies of path[k] that it has not followed
    visited,
    cycle,     \* the cycle that is reported
    record,    \* deploymentRecord.resources, in the order of deployment
    skipped,   \* skippedIds: resources that a deletion retains
    mapped,    \* resources that are found by the ids of the graph
    order      \* orderedResources: the order of the deletion

sortVars  == <<inDegree, queue, sorted>>
cycleVars == <<path, rest, visited, cycle>>
rollbackVars == <<record, skipped, mapped, order>>
vars == <<pc, deps, nodes, sortVars, levels, cycleVars, rollbackVars>>

-----------------------------------------------------------------------------
(* getTopologicalOrder                                                     *)

Dependents(n) == {m \in nodes : n \in deps[m]}

\* the graph with the nodes g, before its first node is taken
Prepare(g) ==
    /\ nodes' = g
    /\ inDegree' = [n \in Nodes |-> Cardinality(deps[n] \cap g)]
    /\ queue' = {n \in g : deps[n] \cap g = {}}
    /\ sorted' = <<>> /\ levels' = <<>>

Init ==
    /\ pc = "sort" /\ deps \in [Nodes -> SUBSET Nodes] /\ nodes = Nodes
    /\ inDegree = [n \in Nodes |-> Cardinality(deps[n])]
    /\ queue = {n \in Nodes : deps[n] = {}}
    /\ sorted = <<>> /\ levels = <<>>
    /\ path = <<>> /\ rest = <<>> /\ visited = {} /\ cycle = <<>>
    /\ record = <<>> /\ skipped = {} /\ mapped = {} /\ order = <<>>

\* dependents whose last dependency this is; variants that queue all of them,
\* and those that do not depend on another node at all
ReleasedByAny(n) == Dependents(n) \ ToSet(sorted)
ReleasedWithoutOthers(n) == {m \in Dependents(n) : deps[m] = {n}}
Released(n) == {m \in Dependents(n) : inDegree[m] = 1}

Take(n) ==
    /\ pc = "sort" /\ n \in queue
    /\ sorted' = Append(sorted, n)
    /\ inDegree' = [m \in Nodes |-> IF m \in Dependents(n) THEN inDegree[m] - 1
                                                          ELSE inDegree[m]]
    /\ queue' = (queue \ {n}) \cup Released(n)
    /\ UNCHANGED <<pc, deps, nodes, levels, cycleVars, rollbackVars>>

\* nodes are missing from the result exactly if the graph has a cycle
Sorted ==
    /\ pc = "sort" /\ queue = {}
    /\ pc' = IF Len(sorted) = Cardinality(nodes) THEN "levels" ELSE "search"
    /\ UNCHANGED <<deps, nodes, sortVars, levels, cycleVars, rollbackVars>>

-----------------------------------------------------------------------------
(* findCycles, up to the first cycle; it is the one that is reported       *)

Top == Len(path)

Enter(n, left) ==
    /\ visited' = visited \cup {n}
    /\ path' = Append(path, n)
    /\ rest' = Append(left, deps[n])

Root(n) ==
    /\ pc = "search" /\ path = <<>> /\ n \in nodes \ visited
    /\ Enter(n, rest)
    /\ UNCHANGED <<pc, deps, nodes, sortVars, levels, cycle, rollbackVars>>

\* path.slice(path.indexOf(n)).concat(n)
WholePath(n) == path \o <<n>>
CycleThrough(n) ==
    LET start == CHOOSE k \in 1..Top : path[k] = n
    IN  SubSeq(path, start, Top) \o <<n>>

Follow(n) ==
    LET left == [rest EXCEPT ![Top] = @ \ {n}]
    IN  /\ pc = "search" /\ path # <<>> /\ n \in rest[Top]
        /\ \/ /\ n \in ToSet(path)
              /\ cycle' = CycleThrough(n) /\ pc' = "rejected"
              /\ UNCHANGED <<path, rest, visited>>
           \/ /\ n \in visited \ ToSet(path)
              /\ rest' = left /\ UNCHANGED <<pc, path, visited, cycle>>
           \/ /\ n \notin visited
              /\ Enter(n, left) /\ UNCHANGED <<pc, cycle>>
        /\ UNCHANGED <<deps, nodes, sortVars, levels, rollbackVars>>

Leave ==
    /\ pc = "search" /\ path # <<>> /\ rest[Top] = {}
    /\ path' = Front(path) /\ rest' = Front(rest)
    /\ UNCHANGED <<pc, deps, nodes, sortVars, levels, visited, cycle, rollbackVars>>

-----------------------------------------------------------------------------
(* analyzeDeploymentOrder                                                  *)

Processed == UNION ToSet(levels)

\* the resources whose dependencies are all in earlier levels
WithAProcessed == {n \in nodes \ Processed :
                     deps[n] \cap nodes = {} \/ deps[n] \cap Processed # {}}
Unblocked == {n \in nodes \ Processed : deps[n] \cap nodes \subseteq Processed}

AddLevel ==
    /\ pc = "levels" /\ Unblocked # {}
    /\ levels' = Append(levels, Unblocked)
    /\ UNCHANGED <<pc, deps, nodes, sortVars, cycleVars, rollbackVars>>

\* what of a sequence is in K
Among(s, K) ==
    FlattenSeq([k \in 1..Len(s) |-> IF s[k] \in K THEN <<s[k]>> ELSE <<>>])

\* resources in the order of their levels, those of a level as sorted
InLevels(ls, keep) ==
    FlattenSeq([k \in 1..Len(ls) |-> Among(sorted, ls[k] \cap keep)])

\* deployWithClosures: the results are recorded level by level, without the
\* resources that were not applied
Deploy(up) ==
    /\ pc = "levels" /\ Processed = nodes /\ record = <<>> /\ up # {}
    /\ record' = InLevels(levels, up)
    /\ pc' = "deployed"
    /\ UNCHANGED <<deps, nodes, sortVars, levels, cycleVars, skipped, mapped, order>>

-----------------------------------------------------------------------------
(* rollbackRecord                                                          *)

(* The ids of the record may differ from those of the graph, so not every  *)
(* resource is found.  buildDeletionSubgraph drops the nodes to be kept,   *)
(* with their edges.                                                       *)
Rollback(skip, found) ==
    /\ pc = "deployed" /\ pc' = "sort"
    /\ skipped' = skip /\ mapped' = found
    /\ Prepare(Nodes \ (skip \cap found))
    /\ UNCHANGED <<deps, cycleVars, record, order>>

\* resources to be deleted that the plan does not contain
NoneUnplanned == {}
Unplanned == ToSet(record) \ (skipped \cup mapped)

\* the levels reversed, or the reverse of the record
LevelsAsTheyAre(ls) == ls
LastLevelFirst(ls) == Reverse(ls)

Plan ==
    /\ pc = "levels" /\ Processed = nodes /\ record # <<>>
    /\ order' = IF Unplanned = {} THEN InLevels(LastLevelFirst(levels), mapped)
                ELSE Among(Reverse(record), Nodes \ skipped)
    /\ pc' = "planned"
    /\ UNCHANGED <<deps, nodes, sortVars, levels, cycleVars, record, skipped, mapped>>

Next ==
    \/ \E n \in Nodes : Take(n) \/ Root(n) \/ Follow(n)
    \/ Sorted \/ Leave \/ AddLevel \/ Plan
    \/ \E up \in SUBSET Nodes : Deploy(up)
    \/ \E skip, found \in SUBSET ToSet(record) : Rollback(skip, found)

Spec == Init /\ [][Next]_vars

-----------------------------------------------------------------------------
(* Properties                                                              *)

Before(s, n) == {s[k] : k \in {j \in 1..Len(s) : \A i \in 1..j : s[i] # n}}

(* The types of all variables. *)
TypeOK ==
    /\ pc \in {"sort", "search", "rejected", "levels", "deployed", "planned"}
    /\ deps \in [Nodes -> SUBSET Nodes] /\ nodes \subseteq Nodes
    /\ inDegree \in [Nodes -> Nat] /\ queue \subseteq nodes
    /\ sorted \in Seq(nodes) /\ levels \in Seq(SUBSET nodes)
    /\ path \in Seq(Nodes) /\ rest \in Seq(SUBSET Nodes) /\ Len(rest) = Len(path)
    /\ visited \subseteq Nodes /\ cycle \in Seq(Nodes)
    /\ record \in Seq(Nodes) /\ order \in Seq(Nodes)
    /\ skipped \subseteq ToSet(record) /\ mapped \subseteq ToSet(record)

\* a set of nodes each of which waits for another one in it
Circular(S) == S # {} /\ \A n \in S : deps[n] \cap S # {}

(* The sort takes a node after all its dependencies, no node twice, and no *)
(* node that waits for itself through others (getTopologicalOrder).        *)
SortedDependenciesFirst ==
    /\ \A n \in ToSet(sorted) : deps[n] \cap nodes \subseteq Before(sorted, n)
    /\ \A i, j \in 1..Len(sorted) : sorted[i] = sorted[j] => i = j

(* A graph is rejected only if it has a cycle, and planned only if it has  *)
(* none (validateNoCycles counts the sorted nodes).                        *)
RejectedIffCyclic ==
    /\ pc \in {"search", "rejected"} => \E S \in SUBSET nodes : Circular(S)
    /\ pc \in {"levels", "deployed", "planned"} =>
          \A S \in SUBSET nodes : ~Circular(S)

(* The cycle in the error is one: every node in it depends on the next and *)
(* the last is the first.  The search never ends without it (findCycles).  *)
CycleReported ==
    /\ pc = "rejected" =>
          /\ Len(cycle) > 1 /\ cycle[1] = Last(cycle)
          /\ \A k \in 1..Len(cycle) - 1 : cycle[k + 1] \in deps[cycle[k]]
          /\ IsInjective(Tail(cycle))
    /\ pc = "search" /\ path = <<>> => nodes \ visited # {}

(* The levels of a plan: each node in one, all its dependencies in earlier *)
(* ones, one of them in the level just before; so no node waits longer     *)
(* than it must, and there is always a next level (analyzeDeploymentOrder).*)
LevelsTight ==
    /\ \A k \in 1..Len(levels) : \A n \in levels[k] :
          /\ deps[n] \cap nodes \subseteq UNION {levels[j] : j \in 1..k - 1}
          /\ k > 1 => deps[n] \cap levels[k - 1] # {}
          /\ \A j \in 1..Len(levels) : n \in levels[j] => j = k
    /\ pc = "levels" /\ Processed # nodes => Unblocked # {}

\* n depends on m, directly or through nodes of G
DependsWithin(G, n, m) ==
    \A S \in SUBSET G :
        (deps[n] \cap G \subseteq S /\ \A s \in S : deps[s] \cap G \subseteq S)
        => m \in S

(* A deletion takes every resource of the record once that it does not     *)
(* retain, also when the ids of the graph and of the record do not match;  *)
(* and each before what it depends on, directly or through resources that  *)
(* are not retained (rollbackRecord).                                      *)
DeletionPlanned ==
    pc = "planned" =>
        /\ ToSet(order) = ToSet(record) \ skipped
        /\ IsInjective(order)
        /\ \A i, j \in 1..Len(order) :
              i < j => ~DependsWithin(Nodes \ skipped, order[j], order[i])
=============================================================================
