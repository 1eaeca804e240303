----------------------- MODULE DependencyOrder_proofs -----------------------
(***************************************************************************)
(* Proofs about DependencyOrder, for every finite set of resources and     *)
(* every graph over them: the sort respects the dependencies, a graph is   *)
(* rejected if and only if it has a cycle, the cycle in the error is one,  *)
(* the levels are tight, and a deletion takes what it must in an order     *)
(* that the dependencies allow.                                            *)
(***************************************************************************)
EXTENDS DependencyOrder, FiniteSetTheorems, WellFoundedInduction, TLAPS

Done == ToSet(sorted)

\* what n still waits for
Pending(n) == (deps[n] \cap nodes) \ Done

Types ==
    /\ deps \in [Nodes -> SUBSET Nodes] /\ nodes \subseteq Nodes
    /\ sorted \in Seq(nodes) /\ queue \subseteq nodes
    /\ inDegree \in [Nodes -> Nat]

\* the result so far: its length counts it, and it is closed
Result ==
    /\ Done \subseteq nodes /\ Cardinality(Done) = Len(sorted)
    /\ \A n \in Done : deps[n] \cap nodes \subseteq Done

\* the counters and the queue say what is still to come
Counters == pc = "sort" =>
    /\ \A n \in nodes : inDegree[n] = Cardinality(Pending(n))
    /\ queue = {n \in nodes \ Done : Pending(n) = {}}

\* no node of a cycle is ever taken
CyclesLeft == \A S \in SUBSET nodes : Circular(S) => S \cap Done = {}

Verdict ==
    /\ pc \in {"search", "rejected"} => Circular(nodes \ Done)
    /\ pc \in {"levels", "deployed", "planned"} => Done = nodes

SortInv ==
    Types /\ Result /\ Counters /\ SortedDependenciesFirst /\ CyclesLeft /\ Verdict

-----------------------------------------------------------------------------
(***************************************************************************)
(* The empty result, at the start of each sort                             *)
(***************************************************************************)

LEMMA EmptyResult == ToSet(<<>>) = {}
  BY DEF ToSet

StartOfSort ==
    /\ deps \in [Nodes -> SUBSET Nodes] /\ nodes \subseteq Nodes
    /\ sorted = <<>> /\ pc = "sort"
    /\ inDegree = [n \in Nodes |-> Cardinality(deps[n] \cap nodes)]
    /\ queue = {n \in nodes : deps[n] \cap nodes = {}}

LEMMA SortStarts == StartOfSort => SortInv
  <1> SUFFICES ASSUME StartOfSort PROVE SortInv
    OBVIOUS
  <1> USE DEF StartOfSort
  <1>1. Done = {}
    BY EmptyResult DEF Done
  <1>2. \A n : Pending(n) = deps[n] \cap nodes
    BY <1>1 DEF Pending
  <1>3. Types
    <2>1. ASSUME NEW n \in Nodes PROVE Cardinality(deps[n] \cap nodes) \in Nat
      <3>1. IsFiniteSet(deps[n] \cap nodes)
        BY NodesFinite, FS_Subset
      <3> QED
        BY <3>1, FS_CardinalityType
    <2> QED
      BY <2>1 DEF Types
  <1>4. Result
    BY <1>1, FS_EmptySet DEF Result
  <1>5. Counters
    BY <1>1, <1>2 DEF Counters
  <1>6. SortedDependenciesFirst
    BY <1>1 DEF SortedDependenciesFirst, Done
  <1>7. CyclesLeft /\ Verdict
    BY <1>1 DEF CyclesLeft, Verdict
  <1> QED
    BY <1>3, <1>4, <1>5, <1>6, <1>7 DEF SortInv

LEMMA SortInit == Init => SortInv
  <1> SUFFICES ASSUME Init PROVE SortInv
    OBVIOUS
  <1>1. \A n \in Nodes : deps[n] \cap nodes = deps[n]
    BY DEF Init
  <1>2. inDegree = [n \in Nodes |-> Cardinality(deps[n] \cap nodes)]
    BY <1>1 DEF Init
  <1>3. queue = {n \in nodes : deps[n] \cap nodes = {}}
    BY <1>1 DEF Init
  <1> QED
    BY <1>2, <1>3, SortStarts DEF StartOfSort, Init

-----------------------------------------------------------------------------
(***************************************************************************)
(* One step of the sort                                                    *)
(***************************************************************************)

LEMMA DoneGrows ==
    ASSUME NEW S, NEW s \in Seq(S), NEW n \in S
    PROVE  ToSet(Append(s, n)) = ToSet(s) \cup {n}
  <1>1. /\ DOMAIN Append(s, n) = 1..Len(s) + 1
        /\ Append(s, n)[Len(s) + 1] = n
        /\ \A k \in 1..Len(s) : Append(s, n)[k] = s[k]
    OBVIOUS
  <1>2. DOMAIN s = 1..Len(s)
    OBVIOUS
  <1>3. ToSet(Append(s, n)) \subseteq ToSet(s) \cup {n}
    BY <1>1, <1>2 DEF ToSet
  <1>4. ToSet(s) \subseteq ToSet(Append(s, n))
    <2> SUFFICES ASSUME NEW k \in 1..Len(s) PROVE s[k] \in ToSet(Append(s, n))
      BY <1>2 DEF ToSet
    <2>1. k \in DOMAIN Append(s, n) /\ Append(s, n)[k] = s[k]
      BY <1>1
    <2> QED
      BY <2>1 DEF ToSet
  <1>5. n \in ToSet(Append(s, n))
    <2>1. Len(s) + 1 \in DOMAIN Append(s, n)
      BY <1>1
    <2> QED
      BY <1>1, <2>1 DEF ToSet
  <1> QED
    BY <1>3, <1>4, <1>5

LEMMA PendingFinite == Types => \A n \in nodes :
    IsFiniteSet(Pending(n)) /\ Cardinality(Pending(n)) \in Nat
  <1> SUFFICES ASSUME Types, NEW n \in nodes
               PROVE  IsFiniteSet(Pending(n)) /\ Cardinality(Pending(n)) \in Nat
    OBVIOUS
  <1>1. Pending(n) \subseteq Nodes
    BY DEF Pending, Types
  <1>2. IsFiniteSet(Pending(n))
    BY <1>1, NodesFinite, FS_Subset
  <1> QED
    BY <1>2, FS_CardinalityType

\* a node is taken that waits for nothing and is new; everybody who waited
\* for it waits for it no more
LEMMA Taken ==
    ASSUME SortInv, NEW n \in Nodes, Take(n)
    PROVE  /\ n \in nodes \ Done /\ Pending(n) = {} /\ Done' = Done \cup {n}
           /\ \A m \in Nodes : Pending(m)' = Pending(m) \ {n}
  <1>1. n \in nodes \ Done /\ Pending(n) = {}
    BY DEF SortInv, Counters, Take
  <1>2. Done' = Done \cup {n}
    BY <1>1, DoneGrows DEF SortInv, Types, Take, Done
  <1>3. \A m \in Nodes : Pending(m)' = Pending(m) \ {n}
    BY <1>2 DEF Pending, Take
  <1> QED
    BY <1>1, <1>2, <1>3

LEMMA TakeCounters == SortInv /\ (\E n \in Nodes : Take(n)) => Counters'
  <1> SUFFICES ASSUME SortInv, NEW n \in Nodes, Take(n) PROVE Counters'
    OBVIOUS
  <1>1. /\ n \in nodes \ Done /\ Pending(n) = {} /\ Done' = Done \cup {n}
        /\ \A m \in Nodes : Pending(m)' = Pending(m) \ {n}
    BY Taken
  <1>2. /\ nodes' = nodes /\ deps' = deps /\ nodes \subseteq Nodes
        /\ inDegree' = [m \in Nodes |-> IF m \in Dependents(n) THEN inDegree[m] - 1
                                                              ELSE inDegree[m]]
        /\ queue' = (queue \ {n}) \cup Released(n)
        /\ \A m \in nodes : inDegree[m] = Cardinality(Pending(m))
        /\ queue = {m \in nodes \ Done : Pending(m) = {}}
    BY DEF Take, SortInv, Types, Counters
  <1>3. ASSUME NEW m \in nodes
        PROVE  m \in Dependents(n) <=> n \in Pending(m)
    BY <1>1 DEF Dependents, Pending
  <1>4. ASSUME NEW m \in nodes
        PROVE  /\ IsFiniteSet(Pending(m)) /\ Cardinality(Pending(m)) \in Nat
               /\ Cardinality(Pending(m) \ {n}) =
                     IF n \in Pending(m) THEN Cardinality(Pending(m)) - 1
                                         ELSE Cardinality(Pending(m))
    BY PendingFinite, FS_RemoveElement DEF SortInv
  <1>5. ASSUME NEW m \in nodes PROVE inDegree'[m] = Cardinality(Pending(m)')
    <2>1. m \in Nodes /\ inDegree[m] = Cardinality(Pending(m))
      BY <1>2
    <2>2. Pending(m)' = Pending(m) \ {n}
      BY <1>1, <2>1
    <2>3. inDegree'[m] = IF n \in Pending(m) THEN Cardinality(Pending(m)) - 1
                                              ELSE Cardinality(Pending(m))
      BY <1>2, <1>3, <2>1
    <2> QED
      BY <1>4, <2>2, <2>3
  <1>6. ASSUME NEW m \in nodes
        PROVE  m \in Released(n) <=> n \in Pending(m) /\ Pending(m) \ {n} = {}
    <2>1. m \in Released(n) <=> n \in Pending(m) /\ Cardinality(Pending(m)) = 1
      BY <1>2, <1>3 DEF Released, Dependents
    <2>2. IsFiniteSet(Pending(m) \ {n})
      BY <1>4, FS_RemoveElement
    <2>3. Cardinality(Pending(m) \ {n}) = 0 <=> Pending(m) \ {n} = {}
      BY <2>2, FS_EmptySet
    <2> QED
      BY <1>4, <2>1, <2>3
  <1>7. Released(n) \subseteq nodes
    BY DEF Released, Dependents
  <1>8. ASSUME NEW m \in nodes, n \in Pending(m) PROVE m \notin Done'
    <2>1. m \notin Done
      BY <1>1, <1>8 DEF SortInv, Result, Pending
    <2>2. m # n
      BY <1>1, <1>8
    <2> QED
      BY <1>1, <2>1, <2>2
  <1>9. queue' = {m \in nodes \ Done' : Pending(m)' = {}}
    <2>1. ASSUME NEW m \in nodes
          PROVE  m \in queue' <=> m \notin Done' /\ Pending(m)' = {}
      <3>1. Pending(m)' = Pending(m) \ {n}
        BY <1>1, <1>2
      <3>2. m \in queue <=> m \notin Done /\ Pending(m) = {}
        BY <1>2
      <3>3. m \in queue' <=> (m \in queue /\ m # n) \/ m \in Released(n)
        BY <1>2
      <3>4. CASE n \in Pending(m)
        BY <1>6, <1>8, <3>1, <3>2, <3>3, <3>4
      <3>5. CASE n \notin Pending(m)
        BY <1>1, <1>6, <3>1, <3>2, <3>3, <3>5
      <3> QED
        BY <3>4, <3>5
    <2>2. queue' \subseteq nodes
      BY <1>2, <1>7
    <2> QED
      BY <2>1, <2>2
  <1>10. ASSUME NEW m \in nodes' PROVE inDegree'[m] = Cardinality(Pending(m)')
    BY <1>2, <1>5
  <1> QED
    BY <1>2, <1>9, <1>10 DEF Counters

LEMMA TakeSort == SortInv /\ (\E n \in Nodes : Take(n)) => SortInv'
  <1> SUFFICES ASSUME SortInv, NEW n \in Nodes, Take(n) PROVE SortInv'
    OBVIOUS
  <1>1. /\ n \in nodes \ Done /\ Pending(n) = {} /\ Done' = Done \cup {n}
        /\ \A m \in Nodes : Pending(m)' = Pending(m) \ {n}
    BY Taken
  <1>2. /\ pc = "sort" /\ pc' = pc /\ nodes' = nodes /\ deps' = deps
        /\ sorted' = Append(sorted, n) /\ sorted \in Seq(nodes)
    BY DEF Take, SortInv, Types
  <1>3. Counters'
    BY TakeCounters
  <1>4. Types'
    <2>1. Append(sorted, n) \in Seq(nodes)
      BY <1>1, <1>2
    <2>2. inDegree' \in [Nodes -> Nat]
      <3>1. ASSUME NEW m \in nodes PROVE inDegree'[m] \in Nat
        <4>1. m \in Nodes
          BY DEF SortInv, Types
        <4>2. Pending(m)' = Pending(m) \ {n} /\ IsFiniteSet(Pending(m))
          BY <1>1, <4>1, PendingFinite DEF SortInv
        <4>3. IsFiniteSet(Pending(m)')
          BY <4>2, FS_Subset
        <4>4. inDegree'[m] = Cardinality(Pending(m)')
          BY <1>2, <1>3 DEF Counters
        <4> QED
          BY <4>3, <4>4, FS_CardinalityType
      <3>2. ASSUME NEW m \in Nodes \ nodes PROVE inDegree'[m] = inDegree[m]
        BY DEF Take, Dependents
      <3>3. DOMAIN inDegree' = Nodes /\ inDegree' = [m \in Nodes |-> inDegree'[m]]
        BY DEF Take
      <3>4. ASSUME NEW m \in Nodes PROVE inDegree'[m] \in Nat
        BY <3>1, <3>2 DEF SortInv, Types
      <3> QED
        BY <3>3, <3>4
    <2>3. queue' \subseteq nodes
      BY <1>2, <1>3 DEF Counters
    <2> QED
      BY <1>2, <2>1, <2>2, <2>3 DEF SortInv, Types
  <1>5. Result'
    <2>1. IsFiniteSet(Done)
      BY NodesFinite, FS_Subset DEF SortInv, Types, Result
    <2>2. Cardinality(Done \cup {n}) = Cardinality(Done) + 1
      BY <1>1, <2>1, FS_AddElement
    <2>3. Len(Append(sorted, n)) = Len(sorted) + 1
      BY <1>1, <1>2
    <2>4. \A m \in Done \cup {n} : deps[m] \cap nodes \subseteq Done \cup {n}
      BY <1>1 DEF SortInv, Result, Pending
    <2> QED
      BY <1>1, <1>2, <2>2, <2>3, <2>4 DEF SortInv, Result
  <1>6. SortedDependenciesFirst'
    <2> DEFINE s == Append(sorted, n)
    <2>1. /\ Len(s) = Len(sorted) + 1 /\ Len(sorted) \in Nat
          /\ s[Len(sorted) + 1] = n
          /\ \A k \in 1..Len(sorted) : s[k] = sorted[k] /\ sorted[k] \in Done
      BY <1>1, <1>2 DEF Done, ToSet
    <2>2. ASSUME NEW m PROVE Before(sorted, m) \subseteq Before(s, m)
      BY <2>1 DEF Before
    <2>3. Done \subseteq Before(s, n)
      <3> SUFFICES ASSUME NEW k \in 1..Len(sorted) PROVE sorted[k] \in Before(s, n)
        BY <1>2 DEF Done, ToSet
      <3>1. \A i \in 1..k : i \in 1..Len(sorted)
        BY <2>1
      <3>2. \A i \in 1..k : s[i] # n
        BY <1>1, <2>1, <3>1
      <3>3. k \in 1..Len(s) /\ s[k] = sorted[k]
        BY <2>1
      <3> QED
        BY <3>2, <3>3 DEF Before
    <2>4. \A m \in Done \cup {n} : deps[m] \cap nodes \subseteq Before(s, m)
      BY <1>1, <2>2, <2>3 DEF SortInv, SortedDependenciesFirst, Done, Pending
    <2>5. \A i, j \in 1..Len(s) : s[i] = s[j] => i = j
      <3> SUFFICES ASSUME NEW i \in 1..Len(s), NEW j \in 1..Len(s), s[i] = s[j]
                   PROVE  i = j
        OBVIOUS
      <3>1. \A k \in 1..Len(s) : k \in 1..Len(sorted) \/ k = Len(sorted) + 1
        BY <2>1
      <3>2. CASE i \in 1..Len(sorted) /\ j \in 1..Len(sorted)
        BY <2>1, <3>2 DEF SortInv, SortedDependenciesFirst
      <3> QED
        BY <1>1, <2>1, <3>1, <3>2
    <2> QED
      BY <1>1, <1>2, <2>4, <2>5 DEF SortedDependenciesFirst, Done
  <1>7. CyclesLeft'
    <2> SUFFICES ASSUME NEW S \in SUBSET nodes, Circular(S)
                 PROVE  n \notin S
      BY <1>1, <1>2 DEF CyclesLeft, Circular, SortInv
    <2>1. S \cap Done = {}
      BY DEF CyclesLeft, SortInv
    <2> QED
      BY <1>1, <2>1 DEF Circular, Pending
  <1>8. Verdict'
    BY <1>2 DEF Verdict
  <1> QED
    BY <1>3, <1>4, <1>5, <1>6, <1>7, <1>8 DEF SortInv

-----------------------------------------------------------------------------
(***************************************************************************)
(* The end of a sort, and the other steps                                  *)
(***************************************************************************)

LEMMA SortedSort == SortInv /\ Sorted => SortInv'
  <1> SUFFICES ASSUME SortInv, Sorted PROVE SortInv'
    OBVIOUS
  <1>1. UNCHANGED <<deps, nodes, inDegree, queue, sorted>>
    BY DEF Sorted, sortVars
  <1>2. Done' = Done /\ pc' # "sort" /\ pc = "sort" /\ queue = {}
    BY <1>1 DEF Done, Sorted
  <1>3. Types' /\ Result' /\ SortedDependenciesFirst'
    BY <1>1, <1>2 DEF SortInv, Types, Result, SortedDependenciesFirst, Done, Before
  <1>4. Counters' /\ CyclesLeft'
    BY <1>1, <1>2 DEF SortInv, Counters, CyclesLeft, Circular
  <1>5. Verdict'
    <2>1. IsFiniteSet(nodes) /\ Done \in SUBSET nodes
      BY NodesFinite, FS_Subset DEF SortInv, Types, Result
    <2>2. CASE Len(sorted) = Cardinality(nodes)
      <3>1. Done = nodes
        <4>1. Cardinality(nodes) = Cardinality(Done)
          BY <2>2 DEF SortInv, Result
        <4> QED
          BY <2>1, <4>1, FS_Subset
      <3>2. pc' = "levels"
        BY <2>2 DEF Sorted
      <3> QED
        BY <1>1, <1>2, <3>1, <3>2 DEF Verdict
    <2>3. CASE Len(sorted) # Cardinality(nodes)
      <3>1. nodes \ Done # {}
        <4>1. Done # nodes
          BY <2>3 DEF SortInv, Result
        <4> QED
          BY <2>1, <4>1
      <3>2. ASSUME NEW m \in nodes \ Done PROVE deps[m] \cap (nodes \ Done) # {}
        BY <1>2 DEF SortInv, Counters, Pending
      <3>3. Circular(nodes \ Done)
        BY <3>1, <3>2 DEF Circular
      <3>4. pc' = "search"
        BY <2>3 DEF Sorted
      <3>5. Circular(nodes \ Done)'
        BY <1>1, <1>2, <3>3 DEF Circular
      <3> QED
        BY <3>4, <3>5 DEF Verdict
    <2> QED
      BY <2>2, <2>3
  <1> QED
    BY <1>3, <1>4, <1>5 DEF SortInv

\* the steps that leave the sort alone keep its verdict
LEMMA OtherSteps ==
    ASSUME SortInv, UNCHANGED <<deps, nodes, sortVars>>, pc' # "sort" \/ pc' = pc,
           pc \in {"search", "rejected"} <=> pc' \in {"search", "rejected"},
           pc \in {"levels", "deployed", "planned"}
             <=> pc' \in {"levels", "deployed", "planned"}
    PROVE  SortInv'
  <1>1. UNCHANGED <<deps, nodes, inDegree, queue, sorted>>
    BY DEF sortVars
  <1>2. Done' = Done /\ \A n : Pending(n)' = Pending(n)
    BY <1>1 DEF Done, Pending
  <1>3. Types' /\ Result' /\ SortedDependenciesFirst'
    BY <1>1, <1>2 DEF SortInv, Types, Result, SortedDependenciesFirst, Done, Before
  <1>4. Counters'
    BY <1>1, <1>2 DEF SortInv, Counters
  <1>5. CyclesLeft' /\ Verdict'
    BY <1>1, <1>2 DEF SortInv, CyclesLeft, Circular, Verdict
  <1> QED
    BY <1>3, <1>4, <1>5 DEF SortInv

LEMMA RollbackSort ==
    SortInv /\ (\E skip, found \in SUBSET ToSet(record) : Rollback(skip, found))
      => SortInv'
  <1> SUFFICES ASSUME SortInv, NEW skip, NEW found, Rollback(skip, found)
               PROVE  SortInv'
    OBVIOUS
  <1> DEFINE g == Nodes \ (skip \cap found)
  <1>1. /\ pc' = "sort" /\ deps' = deps /\ nodes' = g /\ sorted' = <<>>
        /\ inDegree' = [n \in Nodes |-> Cardinality(deps[n] \cap g)]
        /\ queue' = {n \in g : deps[n] \cap g = {}}
        /\ deps \in [Nodes -> SUBSET Nodes] /\ g \subseteq Nodes
    BY DEF Rollback, Prepare, SortInv, Types
  <1>2. StartOfSort'
    BY <1>1 DEF StartOfSort
  <1> QED
    BY <1>2, SortStarts, PTL

LEMMA SortStep == SortInv /\ [Next]_vars => SortInv'
  <1> SUFFICES ASSUME SortInv, [Next]_vars PROVE SortInv'
    OBVIOUS
  <1>1. CASE \E n \in Nodes : Take(n)
    BY <1>1, TakeSort
  <1>2. CASE Sorted
    BY <1>2, SortedSort
  <1>3. CASE \E n \in Nodes : Root(n)
    BY <1>3, OtherSteps DEF Root
  <1>4. CASE \E n \in Nodes : Follow(n)
    BY <1>4, OtherSteps DEF Follow
  <1>5. CASE Leave
    BY <1>5, OtherSteps DEF Leave
  <1>6. CASE AddLevel
    BY <1>6, OtherSteps DEF AddLevel
  <1>7. CASE \E up \in SUBSET Nodes : Deploy(up)
    BY <1>7, OtherSteps DEF Deploy
  <1>8. CASE \E skip, found \in SUBSET ToSet(record) : Rollback(skip, found)
    BY <1>8, RollbackSort
  <1>9. CASE Plan
    BY <1>9, OtherSteps DEF Plan
  <1>10. CASE UNCHANGED vars
    BY <1>10, OtherSteps DEF vars
  <1> QED
    BY <1>1, <1>2, <1>3, <1>4, <1>5, <1>6, <1>7, <1>8, <1>9, <1>10 DEF Next

LEMMA SortInvariant == Spec => []SortInv
  <1>1. Init => SortInv
    BY SortInit
  <1>2. SortInv /\ [Next]_vars => SortInv'
    BY SortStep
  <1> QED
    BY <1>1, <1>2, PTL DEF Spec

-----------------------------------------------------------------------------
(***************************************************************************)
(* The levels                                                              *)
(***************************************************************************)

\* the nodes of the first k levels
UpTo(k) == UNION {levels[j] : j \in 1..k}

\* A node that is in no level yet waits for one of the last level or for one
\* that is in no level either: so the next level is not later than it must be.
LevelInv ==
    /\ levels \in Seq(SUBSET nodes)
    /\ \A k \in 1..Len(levels) : \A n \in levels[k] :
          /\ deps[n] \cap nodes \subseteq UpTo(k - 1)
          /\ k > 1 => deps[n] \cap levels[k - 1] # {}
          /\ \A j \in 1..Len(levels) : n \in levels[j] => j = k
    /\ levels # <<>> => \A n \in nodes \ Processed :
          ~(deps[n] \cap nodes \subseteq UpTo(Len(levels) - 1))

LEMMA ProcessedUpTo == LevelInv => Processed = UpTo(Len(levels))
  BY DEF LevelInv, Processed, UpTo, ToSet

LEMMA LevelAdded == LevelInv /\ AddLevel => LevelInv'
  <1> SUFFICES ASSUME LevelInv, AddLevel, NEW N, N = Len(levels) PROVE LevelInv'
    OBVIOUS
  <1> DEFINE new == Append(levels, Unblocked)
  <1>1. levels' = new /\ deps' = deps /\ nodes' = nodes
    BY DEF AddLevel, sortVars
  <1>2. Unblocked \subseteq nodes /\ levels \in Seq(SUBSET nodes) /\ N \in Nat
    BY DEF Unblocked, LevelInv
  <1>3. /\ new \in Seq(SUBSET nodes) /\ Len(new) = N + 1 /\ new[N + 1] = Unblocked
        /\ \A k \in 1..N : new[k] = levels[k]
    BY <1>2
  <1>4. ASSUME NEW k \in 0..N PROVE UpTo(k)' = UpTo(k)
    <2>1. \A j \in 1..k : j \in 1..N
      BY <1>2
    <2>2. {new[j] : j \in 1..k} = {levels[j] : j \in 1..k}
      BY <1>3, <2>1
    <2> QED
      BY <1>1, <2>2 DEF UpTo
  <1>5. Processed = UpTo(N)
    BY ProcessedUpTo
  <1>6. Processed' = Processed \cup Unblocked
    <2>1. ToSet(new) = ToSet(levels) \cup {Unblocked}
      BY <1>2, DoneGrows
    <2> QED
      BY <1>1, <2>1 DEF Processed
  <1>7. ASSUME NEW k \in 1..N, NEW n \in levels[k]
        PROVE  /\ deps[n] \cap nodes \subseteq UpTo(k - 1)
               /\ k > 1 => deps[n] \cap levels[k - 1] # {}
               /\ \A j \in 1..N : n \in levels[j] => j = k
               /\ n \in Processed
    <2>1. n \in UpTo(N)
      BY <1>7 DEF UpTo
    <2> QED
      BY <1>5, <2>1 DEF LevelInv
  <1>8. ASSUME NEW n \in Unblocked
        PROVE  /\ deps[n] \cap nodes \subseteq UpTo(N)
               /\ N > 0 => deps[n] \cap levels[N] # {}
               /\ n \notin Processed
    <2>1. n \in nodes \ Processed /\ deps[n] \cap nodes \subseteq UpTo(N)
      BY <1>5 DEF Unblocked
    <2>2. ASSUME N > 0 PROVE deps[n] \cap levels[N] # {}
      <3>1. levels # <<>>
        BY <2>2
      <3>2. ~(deps[n] \cap nodes \subseteq UpTo(N - 1))
        BY <2>1, <3>1 DEF LevelInv
      <3>3. UpTo(N) \subseteq UpTo(N - 1) \cup levels[N]
        <4>1. \A j \in 1..N : j \in 1..N - 1 \/ j = N
          BY <1>2
        <4> QED
          BY <4>1 DEF UpTo
      <3> QED
        BY <2>1, <3>2, <3>3
    <2> QED
      BY <2>1, <2>2
  <1>9. ASSUME NEW k \in 1..N + 1, NEW n \in new[k]
        PROVE  /\ deps[n] \cap nodes \subseteq UpTo(k - 1)'
               /\ k > 1 => deps[n] \cap new[k - 1] # {}
               /\ \A j \in 1..N + 1 : n \in new[j] => j = k
    <2>1. k - 1 \in 0..N
      BY <1>2
    <2>2. UpTo(k - 1)' = UpTo(k - 1)
      BY <1>4, <2>1
    <2>3. CASE k \in 1..N
      <3>1. n \in levels[k] /\ (k > 1 => new[k - 1] = levels[k - 1])
        BY <1>2, <1>3, <1>9, <2>3
      <3>2. n \notin Unblocked
        BY <1>7, <1>8, <2>3, <3>1
      <3>3. ASSUME NEW j \in 1..N + 1, n \in new[j] PROVE j = k
        <4>1. j \in 1..N
          BY <1>2, <1>3, <3>2, <3>3
        <4> QED
          BY <1>3, <1>7, <2>3, <3>1, <3>3, <4>1
      <3> QED
        BY <1>7, <2>2, <2>3, <3>1, <3>3
    <2>4. CASE k = N + 1
      <3>1. n \in Unblocked /\ k - 1 = N
        BY <1>2, <1>3, <1>9, <2>4
      <3>2. k > 1 => N > 0 /\ new[k - 1] = levels[N]
        <4>1. k > 1 => N \in 1..N
          BY <1>2, <2>4
        <4> QED
          BY <1>2, <1>3, <3>1, <4>1
      <3>3. ASSUME NEW j \in 1..N + 1, n \in new[j] PROVE j = k
        <4>1. CASE j \in 1..N
          <5>1. n \in levels[j]
            BY <1>3, <3>3, <4>1
          <5> QED
            BY <1>7, <1>8, <3>1, <4>1, <5>1
        <4> QED
          BY <1>2, <2>4, <4>1
      <3> QED
        BY <1>8, <2>2, <3>1, <3>2, <3>3
    <2> QED
      BY <1>2, <2>3, <2>4
  <1>10. ASSUME NEW n \in nodes \ Processed'
         PROVE  ~(deps[n] \cap nodes \subseteq UpTo(N)')
    <2>1. UpTo(N)' = UpTo(N)
      BY <1>2, <1>4
    <2> QED
      BY <1>5, <1>6, <2>1 DEF Unblocked
  <1>11. Len(levels') = N + 1 /\ Len(levels') - 1 = N
    BY <1>1, <1>2, <1>3
  <1>12. UpTo(Len(levels) - 1)' = UpTo(N)'
    BY <1>11 DEF UpTo
  <1>13. \A n \in (nodes \ Processed)' :
            ~(deps'[n] \cap nodes' \subseteq UpTo(Len(levels) - 1)')
    BY <1>1, <1>10, <1>12
  <1>14. \A k \in 1..Len(levels') : \A n \in levels'[k] :
            /\ deps'[n] \cap nodes' \subseteq UpTo(k - 1)'
            /\ k > 1 => deps'[n] \cap levels'[k - 1] # {}
            /\ \A j \in 1..Len(levels') : n \in levels'[j] => j = k
    BY <1>1, <1>9, <1>11
  <1>15. (levels \in Seq(SUBSET nodes))'
    BY <1>1, <1>3
  <1> QED
    BY <1>13, <1>14, <1>15 DEF LevelInv

LEMMA NoLevels == levels = <<>> => LevelInv
  BY DEF LevelInv

LEMMA LevelsKept == LevelInv /\ UNCHANGED <<deps, nodes, levels>> => LevelInv'
  BY DEF LevelInv, UpTo, Processed

LEMMA LevelStep == LevelInv /\ [Next]_vars => LevelInv'
  <1> SUFFICES ASSUME LevelInv, [Next]_vars PROVE LevelInv'
    OBVIOUS
  <1>1. CASE AddLevel
    BY <1>1, LevelAdded
  <1>2. CASE \E skip, found \in SUBSET ToSet(record) : Rollback(skip, found)
    <2>1. (levels = <<>>)'
      BY <1>2 DEF Rollback, Prepare
    <2> QED
      BY <2>1, NoLevels, PTL
  <1>3. CASE \E n \in Nodes : Take(n) \/ Root(n) \/ Follow(n)
    BY <1>3, LevelsKept DEF Take, Root, Follow
  <1>4. CASE Sorted \/ Leave \/ Plan
    BY <1>4, LevelsKept DEF Sorted, Leave, Plan
  <1>5. CASE \E up \in SUBSET Nodes : Deploy(up)
    BY <1>5, LevelsKept DEF Deploy
  <1>6. CASE UNCHANGED vars
    BY <1>6, LevelsKept DEF vars
  <1> QED
    BY <1>1, <1>2, <1>3, <1>4, <1>5, <1>6 DEF Next

LEMMA LevelInvariant == Spec => []LevelInv
  <1>1. Init => LevelInv
    BY NoLevels DEF Init
  <1>2. LevelInv /\ [Next]_vars => LevelInv'
    BY LevelStep
  <1> QED
    BY <1>1, <1>2, PTL DEF Spec

-----------------------------------------------------------------------------
(***************************************************************************)
(* Sequences that are joined and filtered                                  *)
(***************************************************************************)

\* induction for a set, from the well-foundedness of the numbers
LEMMA Induction ==
    ASSUME NEW S, 0 \in S, \A n \in Nat : n \in S => n + 1 \in S
    PROVE  Nat \subseteq S
  <1> SUFFICES ASSUME Nat \ S # {} PROVE FALSE
    OBVIOUS
  <1>1. PICK R : R = {ss \in Nat \X Nat : ss[1] < ss[2]}
    OBVIOUS
  <1>2. IsWellFoundedOn(R, Nat)
    BY <1>1, NatLessThanWellFounded DEF OpToRel
  <1>3. PICK x \in Nat \ S : \A y \in Nat \ S : ~(<<y, x>> \in R)
    BY <1>2, WFMin
  <1>4. x # 0 /\ x - 1 \in Nat
    BY <1>3
  <1>5. <<x - 1, x>> \in R
    BY <1>1, <1>4
  <1> QED
    BY <1>3, <1>4, <1>5

\* f joins the first n sequences of s, one after the other
Flattens(f, s, n) ==
    f = [k \in 1..n |-> IF k = 1 THEN s[k] ELSE f[k - 1] \o s[k]]

\* the recursive function that FlattenSeq is made of exists
LEMMA FlattenDefined == ASSUME NEW s, NEW n \in Nat PROVE \E f : Flattens(f, s, n)
  <1> DEFINE S == {m \in Nat : \E f : Flattens(f, s, m)}
  <1>1. 0 \in S
    <2>1. Flattens([k \in 1..0 |-> 0], s, 0)
      BY DEF Flattens
    <2> QED
      BY <2>1
  <1>2. ASSUME NEW m \in Nat, m \in S PROVE m + 1 \in S
    <2>1. PICK f : Flattens(f, s, m)
      BY <1>2
    <2>2. PICK e : e = IF m + 1 = 1 THEN s[m + 1] ELSE f[m] \o s[m + 1]
      OBVIOUS
    <2>3. PICK g : g = [k \in 1..m + 1 |-> IF k \in 1..m THEN f[k] ELSE e]
      OBVIOUS
    <2>4. ASSUME NEW k \in 1..m + 1
          PROVE  g[k] = IF k = 1 THEN s[k] ELSE g[k - 1] \o s[k]
      <3>1. CASE k \in 1..m
        <4>1. f[k] = IF k = 1 THEN s[k] ELSE f[k - 1] \o s[k]
          BY <2>1, <3>1 DEF Flattens
        <4>2. k # 1 => g[k - 1] = f[k - 1]
          BY <2>3, <3>1
        <4> QED
          BY <2>3, <3>1, <4>1, <4>2
      <3>2. CASE k = m + 1
        <4>1. k # 1 => g[k - 1] = f[m]
          BY <2>3, <3>2
        <4> QED
          BY <2>2, <2>3, <3>2, <4>1
      <3> QED
        BY <3>1, <3>2
    <2>5. Flattens(g, s, m + 1)
      BY <2>3, <2>4 DEF Flattens
    <2> QED
      BY <2>5
  <1> HIDE DEF S
  <1>3. Nat \subseteq S
    BY <1>1, <1>2, Induction
  <1> QED
    BY <1>3 DEF S

\* x is in the k-th sequence of s and y in the l-th, after it
Placed(s, k, l, x, y) ==
    \E a \in 1..Len(s[k]), b \in 1..Len(s[l]) :
        x = s[k][a] /\ y = s[l][b] /\ (k < l \/ (k = l /\ a < b))

\* t has the elements of the first n sequences of s, in that order
Joins(t, s, n) ==
    /\ \A k \in 1..n : \A a \in 1..Len(s[k]) : \E i \in 1..Len(t) : t[i] = s[k][a]
    /\ \A i \in 1..Len(t) : \E k \in 1..n : \E a \in 1..Len(s[k]) : t[i] = s[k][a]
    /\ \A i, j \in 1..Len(t) : i < j =>
          \E k, l \in 1..n : Placed(s, k, l, t[i], t[j])

LEMMA JoinOne ==
    ASSUME NEW S, NEW s \in Seq(Seq(S)), NEW n \in Nat, n + 1 \in 1..Len(s),
           NEW t \in Seq(S), Joins(t, s, n)
    PROVE  t \o s[n + 1] \in Seq(S) /\ Joins(t \o s[n + 1], s, n + 1)
  <1>1. PICK u \in Seq(S) : u = s[n + 1]
    OBVIOUS
  <1>2. PICK L \in Nat, M \in Nat : L = Len(t) /\ M = Len(u)
    OBVIOUS
  <1>0. t \o u \in Seq(S)
    OBVIOUS
  <1>3. PICK w \in Seq(S) : w = t \o u
    BY <1>0
  <1>4. /\ Len(w) = L + M
        /\ \A i \in 1..L : w[i] = t[i] /\ i \in 1..Len(w)
        /\ \A a \in 1..M : w[L + a] = u[a] /\ L + a \in 1..Len(w)
    BY <1>2, <1>3
  <1>5. \A i \in 1..Len(w) : i \in 1..L \/ (i - L \in 1..M /\ i = L + (i - L))
    BY <1>2, <1>4
  <1>6. \A k \in 1..n + 1 : k \in 1..n \/ k = n + 1
    OBVIOUS
  <1>7. \A k \in 1..n : k \in 1..n + 1 /\ k < n + 1
    OBVIOUS
  <1>8. \A k \in 1..n + 1 : \A a \in 1..Len(s[k]) : \E i \in 1..Len(w) : w[i] = s[k][a]
    <2>1. ASSUME NEW k \in 1..n, NEW a \in 1..Len(s[k])
          PROVE  \E i \in 1..Len(w) : w[i] = s[k][a]
      BY <1>2, <1>4 DEF Joins
    <2>2. ASSUME NEW a \in 1..M PROVE \E i \in 1..Len(w) : w[i] = u[a]
      BY <1>4
    <2> QED
      BY <1>1, <1>2, <1>6, <2>1, <2>2
  <1>9. \A i \in 1..Len(w) : \E k \in 1..n + 1 : \E a \in 1..Len(s[k]) : w[i] = s[k][a]
    <2>1. ASSUME NEW i \in 1..L
          PROVE  \E k \in 1..n + 1 : \E a \in 1..Len(s[k]) : w[i] = s[k][a]
      <3>1. PICK k \in 1..n : \E a \in 1..Len(s[k]) : t[i] = s[k][a]
        BY <1>2 DEF Joins
      <3> QED
        BY <1>4, <1>7, <3>1
    <2>2. ASSUME NEW i \in 1..Len(w), i - L \in 1..M, i = L + (i - L)
          PROVE  \E k \in 1..n + 1 : \E a \in 1..Len(s[k]) : w[i] = s[k][a]
      <3>1. w[i] = u[i - L]
        BY <1>4, <2>2
      <3> QED
        BY <1>1, <1>2, <2>2, <3>1
    <2> QED
      BY <1>5, <2>1, <2>2
  <1>10. ASSUME NEW i \in 1..Len(w), NEW j \in 1..Len(w), i < j
         PROVE  \E k, l \in 1..n + 1 : Placed(s, k, l, w[i], w[j])
    <2>1. CASE j \in 1..L
      <3>1. i \in 1..L
        BY <1>2, <1>10, <2>1
      <3>2. PICK k \in 1..n, l \in 1..n : Placed(s, k, l, t[i], t[j])
        BY <1>2, <1>10, <2>1, <3>1 DEF Joins
      <3>3. w[i] = t[i] /\ w[j] = t[j]
        BY <1>4, <2>1, <3>1
      <3> QED
        BY <1>7, <3>2, <3>3
    <2>2. CASE i \in 1..L /\ j - L \in 1..M
      <3>1. PICK k \in 1..n : \E a \in 1..Len(s[k]) : t[i] = s[k][a]
        BY <1>2, <2>2 DEF Joins
      <3>2. PICK a \in 1..Len(s[k]) : t[i] = s[k][a]
        BY <3>1
      <3>3. w[i] = s[k][a]
        BY <1>4, <2>2, <3>2
      <3>5. w[j] = s[n + 1][j - L] /\ j - L \in 1..Len(s[n + 1])
        <4>1. j = L + (j - L)
          BY <1>2
        <4> QED
          BY <1>1, <1>2, <1>4, <2>2, <4>1
      <3>4. k \in 1..n + 1 /\ n + 1 \in 1..n + 1 /\ k < n + 1
        BY <1>7
      <3> QED
        <4>1. Placed(s, k, n + 1, w[i], w[j])
          BY <3>2, <3>3, <3>4, <3>5 DEF Placed
        <4> QED
          BY <3>4, <4>1
    <2>3. CASE i - L \in 1..M /\ j - L \in 1..M
      <3>1. w[i] = s[n + 1][i - L] /\ i - L \in 1..Len(s[n + 1])
        <4>1. i = L + (i - L)
          BY <1>2
        <4> QED
          BY <1>1, <1>2, <1>4, <2>3, <4>1
      <3>2. w[j] = s[n + 1][j - L] /\ j - L \in 1..Len(s[n + 1])
        <4>1. j = L + (j - L)
          BY <1>2
        <4> QED
          BY <1>1, <1>2, <1>4, <2>3, <4>1
      <3>3. n + 1 \in 1..n + 1 /\ i - L < j - L
        BY <1>2, <1>10
      <3> QED
        <4>1. Placed(s, n + 1, n + 1, w[i], w[j])
          BY <3>1, <3>2, <3>3 DEF Placed
        <4> QED
          BY <3>3, <4>1
    <2> QED
      BY <1>2, <1>5, <1>10, <2>1, <2>2, <2>3
  <1>11. Joins(w, s, n + 1)
    BY <1>8, <1>9, <1>10 DEF Joins
  <1> QED
    BY <1>1, <1>3, <1>11

LEMMA FlattenJoins ==
    ASSUME NEW S, NEW s \in Seq(Seq(S))
    PROVE  FlattenSeq(s) \in Seq(S) /\ Joins(FlattenSeq(s), s, Len(s))
  <1>1. CASE Len(s) = 0
    <2>1. s = <<>> /\ FlattenSeq(s) = s
      BY <1>1 DEF FlattenSeq
    <2>2. <<>> \in Seq(S) /\ Joins(<<>>, <<>>, 0)
      BY DEF Joins
    <2> QED
      BY <1>1, <2>1, <2>2
  <1>2. CASE Len(s) # 0
    <2>1. FlattenSeq(s) = (CHOOSE f : Flattens(f, s, Len(s)))[Len(s)]
      BY <1>2 DEF FlattenSeq, Flattens
    <2>2. PICK N \in Nat \ {0} : N = Len(s)
      BY <1>2
    <2>3. PICK f : Flattens(f, s, N) /\ FlattenSeq(s) = f[N]
      BY <2>1, <2>2, FlattenDefined
    <2>9. \A k \in 1..N : f[k] = IF k = 1 THEN s[k] ELSE f[k - 1] \o s[k]
      BY <2>3 DEF Flattens
    <2> DEFINE P == {m \in Nat : m \in 1..N => f[m] \in Seq(S) /\ Joins(f[m], s, m)}
    <2>4. 0 \in P
      OBVIOUS
    <2>5. ASSUME NEW m \in Nat, m \in P, m + 1 \in 1..N
          PROVE  f[m + 1] \in Seq(S) /\ Joins(f[m + 1], s, m + 1)
      <3>1. CASE m = 0
        <4>1. f[m + 1] = s[1]
          BY <2>3, <2>5, <3>1 DEF Flattens
        <4>2. s[1] \in Seq(S)
          BY <2>2
        <4>3. Joins(s[1], s, 1)
          <5>1. PICK u \in Seq(S) : u = s[1]
            BY <4>2
          <5>2. ASSUME NEW i \in 1..Len(u), NEW j \in 1..Len(u), i < j
                PROVE  Placed(s, 1, 1, u[i], u[j])
            BY <5>1, <5>2 DEF Placed
          <5>3. \A k \in 1..1 : k = 1
            OBVIOUS
          <5>4. Joins(u, s, 1)
            BY <5>1, <5>2, <5>3 DEF Joins
          <5> QED
            BY <5>1, <5>4
        <4> QED
          BY <3>1, <4>1, <4>2, <4>3
      <3>2. CASE m # 0
        <4>1. m \in 1..N
          BY <2>5, <3>2
        <4>2. f[m] \in Seq(S) /\ Joins(f[m], s, m)
          BY <2>5, <4>1
        <4>3. f[m + 1] = f[m] \o s[m + 1]
          <5>1. (m + 1) - 1 = m /\ m + 1 # 1
            BY <3>2
          <5> QED
            BY <2>5, <2>9, <5>1
        <4> QED
          BY <2>2, <2>5, <4>2, <4>3, JoinOne
      <3> QED
        BY <3>1, <3>2
    <2>6. \A m \in Nat : m \in P => m + 1 \in P
      BY <2>5
    <2> HIDE DEF P
    <2>7. Nat \subseteq P
      BY <2>4, <2>6, Induction
    <2>8. N \in P
      BY <2>7
    <2> QED
      BY <2>2, <2>3, <2>8 DEF P
  <1> QED
    BY <1>1, <1>2

\* x comes before y in s
Ahead(s, x, y) == \E k, l \in 1..Len(s) : k < l /\ x = s[k] /\ y = s[l]

LEMMA AmongKeepsOrder ==
    ASSUME NEW S, NEW s \in Seq(S), NEW K, NEW t, t = Among(s, K)
    PROVE  /\ t \in Seq(S)
           /\ ToSet(t) = ToSet(s) \cap K
           /\ \A i, j \in 1..Len(t) : i < j => Ahead(s, t[i], t[j])
  <1>1. PICK w : w = [k \in 1..Len(s) |-> IF s[k] \in K THEN <<s[k]>> ELSE <<>>]
    OBVIOUS
  <1>2. t = FlattenSeq(w)
    BY <1>1 DEF Among
  <1>3. \A k \in 1..Len(s) : w[k] \in Seq(S)
    BY <1>1
  <1>4. w \in Seq(Seq(S)) /\ Len(w) = Len(s)
    BY <1>1, <1>3
  <1>5. \A k \in 1..Len(s) : \A a \in 1..Len(w[k]) : a = 1 /\ w[k][a] = s[k] /\ s[k] \in K
    BY <1>1
  <1>6. \A k \in 1..Len(s) : s[k] \in K => 1 \in 1..Len(w[k])
    BY <1>1
  <1>7. t \in Seq(S) /\ Joins(t, w, Len(s))
    BY <1>2, <1>4, FlattenJoins
  <1>8. DOMAIN t = 1..Len(t) /\ DOMAIN s = 1..Len(s)
    BY <1>7
  <1>9. ASSUME NEW i \in 1..Len(t) PROVE \E k \in 1..Len(s) : t[i] = s[k] /\ s[k] \in K
    <2>1. PICK k \in 1..Len(s) : \E a \in 1..Len(w[k]) : t[i] = w[k][a]
      BY <1>7 DEF Joins
    <2> QED
      BY <1>5, <2>1
  <1>10. ASSUME NEW k \in 1..Len(s), s[k] \in K PROVE \E i \in 1..Len(t) : t[i] = s[k]
    <2>1. PICK a \in 1..Len(w[k]) : a = 1
      BY <1>6, <1>10
    <2>2. PICK i \in 1..Len(t) : t[i] = w[k][a]
      BY <1>7 DEF Joins
    <2> QED
      BY <1>5, <2>2
  <1>11. ToSet(t) = ToSet(s) \cap K
    <2>1. \A n : n \in ToSet(t) <=> \E i \in 1..Len(t) : n = t[i]
      BY <1>8 DEF ToSet
    <2>2. \A n : n \in ToSet(s) <=> \E k \in 1..Len(s) : n = s[k]
      BY <1>8 DEF ToSet
    <2>3. \A n : n \in ToSet(t) => n \in ToSet(s) \cap K
      BY <1>9, <2>1, <2>2
    <2>4. \A n : n \in ToSet(s) \cap K => n \in ToSet(t)
      BY <1>10, <2>1, <2>2
    <2> QED
      BY <2>3, <2>4
  <1>12. ASSUME NEW i \in 1..Len(t), NEW j \in 1..Len(t), i < j
         PROVE  Ahead(s, t[i], t[j])
    <2>1. PICK k \in 1..Len(s), l \in 1..Len(s) : Placed(w, k, l, t[i], t[j])
      BY <1>7, <1>12 DEF Joins
    <2>2. PICK a \in 1..Len(w[k]), b \in 1..Len(w[l]) :
              /\ t[i] = w[k][a] /\ t[j] = w[l][b]
              /\ k < l \/ (k = l /\ a < b)
      BY <2>1 DEF Placed
    <2>3. a = 1 /\ b = 1 /\ w[k][a] = s[k] /\ w[l][b] = s[l]
      BY <1>5
    <2>4. k < l /\ t[i] = s[k] /\ t[j] = s[l]
      BY <2>2, <2>3
    <2> QED
      BY <2>4 DEF Ahead
  <1> QED
    BY <1>7, <1>11, <1>12

\* x is in the k-th level of ls and y in the l-th, after it
InLevelsAhead(ls, k, l, x, y) ==
    /\ x \in ls[k] /\ y \in ls[l]
    /\ k < l \/ (k = l /\ Ahead(sorted, x, y))

\* The resources in ls that are kept, those of an earlier level first and
\* those of one level as they are sorted
LEMMA LevelByLevel ==
    ASSUME NEW S, sorted \in Seq(S), NEW ls, NEW N \in Nat, N = Len(ls), NEW keep,
           NEW t, t = InLevels(ls, keep)
    PROVE  /\ t \in Seq(S)
           /\ \A n : n \in ToSet(t) <=>
                  n \in ToSet(sorted) \cap keep /\ \E k \in 1..N : n \in ls[k]
           /\ \A i, j \in 1..Len(t) : i < j =>
                 \E k, l \in 1..N : InLevelsAhead(ls, k, l, t[i], t[j])
  <1>1. PICK w : w = [k \in 1..N |-> Among(sorted, ls[k] \cap keep)]
    OBVIOUS
  <1>2. t = FlattenSeq(w)
    BY <1>1 DEF InLevels
  <1>12. PICK q \in Seq(S) : q = sorted
    OBVIOUS
  <1>3. ASSUME NEW k \in 1..N
        PROVE  /\ w[k] \in Seq(S) /\ ToSet(w[k]) = ToSet(sorted) \cap ls[k] \cap keep
               /\ \A i, j \in 1..Len(w[k]) : i < j => Ahead(sorted, w[k][i], w[k][j])
    <2>1. PICK K : K = ls[k] \cap keep
      OBVIOUS
    <2>2. w[k] = Among(q, K)
      BY <1>1, <1>12, <2>1
    <2>3. PICK v : v = w[k] /\ v = Among(q, K)
      BY <2>2
    <2>4. /\ v \in Seq(S) /\ ToSet(v) = ToSet(q) \cap K
          /\ \A i, j \in 1..Len(v) : i < j => Ahead(q, v[i], v[j])
      BY <2>3, AmongKeepsOrder
    <2>6. ToSet(v) = ToSet(sorted) \cap ls[k] \cap keep
      BY <1>12, <2>1, <2>4
    <2> QED
      BY <1>12, <2>3, <2>4, <2>6
  <1>4. w \in Seq(Seq(S)) /\ Len(w) = N
    BY <1>1, <1>3
  <1>5. t \in Seq(S) /\ Joins(t, w, N)
    BY <1>2, <1>4, FlattenJoins
  <1>6. \A k \in 1..N : DOMAIN w[k] = 1..Len(w[k])
    BY <1>3
  <1>7. DOMAIN t = 1..Len(t)
    BY <1>5
  <1>8. ASSUME NEW k \in 1..N, NEW a \in 1..Len(w[k])
        PROVE  w[k][a] \in ToSet(sorted) \cap ls[k] \cap keep
    <2>1. w[k][a] \in ToSet(w[k])
      BY <1>6 DEF ToSet
    <2> QED
      BY <1>3, <2>1
  <1>9. ASSUME NEW n \in ToSet(t)
        PROVE  n \in ToSet(sorted) \cap keep /\ \E k \in 1..N : n \in ls[k]
    <2>1. PICK i \in 1..Len(t) : n = t[i]
      BY <1>7 DEF ToSet
    <2>2. PICK k \in 1..N : \E a \in 1..Len(w[k]) : t[i] = w[k][a]
      BY <1>5 DEF Joins
    <2> QED
      BY <1>8, <2>1, <2>2
  <1>10. ASSUME NEW n \in ToSet(sorted) \cap keep, NEW k \in 1..N, n \in ls[k]
         PROVE  n \in ToSet(t)
    <2>1. n \in ToSet(w[k])
      BY <1>3, <1>10
    <2>2. PICK a \in 1..Len(w[k]) : n = w[k][a]
      BY <1>6, <2>1 DEF ToSet
    <2>3. PICK i \in 1..Len(t) : t[i] = w[k][a]
      BY <1>5 DEF Joins
    <2> QED
      BY <1>7, <2>2, <2>3 DEF ToSet
  <1>11. ASSUME NEW i \in 1..Len(t), NEW j \in 1..Len(t), i < j
         PROVE  \E k, l \in 1..N : InLevelsAhead(ls, k, l, t[i], t[j])
    <2>1. PICK k \in 1..N, l \in 1..N : Placed(w, k, l, t[i], t[j])
      BY <1>5, <1>11 DEF Joins
    <2>2. PICK a \in 1..Len(w[k]), b \in 1..Len(w[l]) :
              /\ t[i] = w[k][a] /\ t[j] = w[l][b]
              /\ k < l \/ (k = l /\ a < b)
      BY <2>1 DEF Placed
    <2>3. t[i] \in ls[k] /\ t[j] \in ls[l]
      BY <1>8, <2>2
    <2>4. CASE k = l /\ a < b
      <3>1. Ahead(sorted, w[k][a], w[k][b])
        BY <1>3, <2>4
      <3> QED
        BY <2>2, <2>3, <2>4, <3>1 DEF InLevelsAhead
    <2> QED
      BY <2>2, <2>3, <2>4 DEF InLevelsAhead
  <1> QED
    BY <1>5, <1>9, <1>10, <1>11
LEMMA Reversed ==
    ASSUME NEW S, NEW s \in Seq(S), NEW r, r = Reverse(s)
    PROVE  /\ r \in Seq(S) /\ Len(r) = Len(s) /\ ToSet(r) = ToSet(s)
           /\ \A k \in 1..Len(s) : /\ Len(s) + 1 - k \in 1..Len(s)
                                   /\ r[k] = s[Len(s) + 1 - k]
  <1>1. r = [k \in 1..Len(s) |-> s[(Len(s) - k) + 1]]
    BY DEF Reverse
  <1>2. PICK N \in Nat : N = Len(s)
    OBVIOUS
  <1>3. ASSUME NEW k \in 1..N
        PROVE  N + 1 - k \in 1..N /\ r[k] = s[N + 1 - k] /\ s[N + 1 - k] \in S
    <2>1. N + 1 - k \in 1..N /\ (N - k) + 1 = N + 1 - k
      OBVIOUS
    <2> QED
      BY <1>1, <1>2, <2>1
  <1>4. \A k \in 1..N : r[k] \in S
    BY <1>3
  <1>5. r \in Seq(S) /\ Len(r) = N
    BY <1>1, <1>2, <1>4
  <1>6. ToSet(r) = ToSet(s)
    <2>1. DOMAIN r = 1..N /\ DOMAIN s = 1..N
      BY <1>2, <1>5
    <2>2. ASSUME NEW x \in ToSet(r) PROVE x \in ToSet(s)
      <3>1. PICK k \in 1..N : x = r[k]
        BY <2>1 DEF ToSet
      <3> QED
        BY <1>3, <2>1, <3>1 DEF ToSet
    <2>3. ASSUME NEW x \in ToSet(s) PROVE x \in ToSet(r)
      <3>1. PICK k \in 1..N : x = s[k]
        BY <2>1 DEF ToSet
      <3>2. N + 1 - k \in 1..N /\ N + 1 - (N + 1 - k) = k
        OBVIOUS
      <3>3. r[N + 1 - k] = x
        BY <1>3, <3>1, <3>2
      <3> QED
        BY <2>1, <3>2, <3>3 DEF ToSet
    <2> QED
      BY <2>2, <2>3
  <1> QED
    BY <1>2, <1>3, <1>5, <1>6

-----------------------------------------------------------------------------
(***************************************************************************)
(* The deployment and its deletion: which graph is at hand, and the types  *)
(* of the record and of the plan                                           *)
(***************************************************************************)

Acyclic == \A S \in SUBSET Nodes : ~Circular(S)

\* only the graph of a deletion lacks nodes, and then the whole is known to
\* have no cycle
Phases ==
    /\ pc \in {"sort", "search", "rejected", "levels", "deployed", "planned"}
    /\ nodes = Nodes \ (skipped \cap mapped)
    /\ skipped \subseteq ToSet(record) /\ mapped \subseteq ToSet(record)
    /\ record \in Seq(Nodes) /\ order \in Seq(Nodes)
    /\ pc = "deployed" => nodes = Nodes /\ Acyclic
    /\ nodes # Nodes => Acyclic

LEMMA AllSorted == SortInv /\ pc = "levels" => \A S \in SUBSET nodes : ~Circular(S)
  BY DEF SortInv, Verdict, CyclesLeft, Circular

LEMMA PhasesInit == Init => Phases
  <1>1. Init => nodes = Nodes \ (skipped \cap mapped) /\ nodes = Nodes
    BY DEF Init
  <1> QED
    BY <1>1, EmptyResult DEF Init, Phases

LEMMA PhasesKept ==
    ASSUME Phases, UNCHANGED <<deps, nodes, rollbackVars>>,
           pc' \in {"sort", "search", "rejected", "levels", "planned"}
                  \/ (pc' = pc)
    PROVE  Phases'
  <1>1. UNCHANGED <<deps, nodes, record, skipped, mapped, order>>
    BY DEF rollbackVars
  <1>2. Acyclic' <=> Acyclic
    BY <1>1 DEF Acyclic, Circular
  <1> QED
    BY <1>1, <1>2 DEF Phases

LEMMA DeployPhases ==
    ASSUME Phases, SortInv, LevelInv, NEW up, Deploy(up)
    PROVE  Phases'
  <1>1. /\ pc = "levels" /\ record = <<>> /\ pc' = "deployed"
        /\ record' = InLevels(levels, up)
        /\ UNCHANGED <<deps, nodes, skipped, mapped, order>>
    BY DEF Deploy
  <1>2. skipped = {} /\ mapped = {}
    BY <1>1, EmptyResult DEF Phases
  <1>3. nodes = Nodes
    BY <1>2 DEF Phases
  <1>4. Acyclic
    BY <1>1, <1>3, AllSorted DEF Acyclic
  <1>5. Acyclic'
    BY <1>1, <1>4 DEF Acyclic, Circular
  <1>6. record' \in Seq(Nodes)
    <2>1. PICK r : r = InLevels(levels, up)
      OBVIOUS
    <2>2. PICK ls \in Seq(SUBSET nodes) : ls = levels
      BY DEF LevelInv
    <2>3. Len(ls) \in Nat /\ r = InLevels(ls, up) /\ sorted \in Seq(Nodes)
      BY <1>3, <2>1, <2>2 DEF SortInv, Types
    <2>4. r \in Seq(Nodes)
      BY <2>3, LevelByLevel
    <2> QED
      BY <1>1, <2>1, <2>4
  <1> QED
    BY <1>1, <1>2, <1>3, <1>5, <1>6 DEF Phases

LEMMA PlanPhases ==
    ASSUME Phases, SortInv, LevelInv, Plan
    PROVE  Phases'
  <1>1. /\ pc' = "planned" /\ UNCHANGED <<deps, nodes, record, skipped, mapped>>
        /\ order' = IF Unplanned = {} THEN InLevels(LastLevelFirst(levels), mapped)
                    ELSE Among(Reverse(record), Nodes \ skipped)
    BY DEF Plan
  <1>2. Acyclic' <=> Acyclic
    BY <1>1 DEF Acyclic, Circular
  <1>3. ASSUME NEW t, t = InLevels(LastLevelFirst(levels), mapped) PROVE t \in Seq(Nodes)
    <2>1. PICK ls \in Seq(SUBSET nodes) : ls = levels
      BY DEF LevelInv
    <2>2. PICK rs : rs = Reverse(ls)
      OBVIOUS
    <2>3. Len(rs) \in Nat
      BY <2>2, Reversed
    <2>4. t = InLevels(rs, mapped)
      BY <1>3, <2>1, <2>2 DEF LastLevelFirst
    <2>5. sorted \in Seq(Nodes)
      BY DEF SortInv, Types
    <2> QED
      BY <2>3, <2>4, <2>5, LevelByLevel
  <1>4. ASSUME NEW t, t = Among(Reverse(record), Nodes \ skipped) PROVE t \in Seq(Nodes)
    <2>1. PICK q \in Seq(Nodes) : q = record
      BY DEF Phases
    <2>2. PICK r : r = Reverse(q)
      OBVIOUS
    <2>3. r \in Seq(Nodes)
      BY <2>2, Reversed
    <2>4. PICK K : K = Nodes \ skipped
      OBVIOUS
    <2>5. t = Among(r, K)
      BY <1>4, <2>1, <2>2, <2>4
    <2> QED
      BY <2>3, <2>5, AmongKeepsOrder
  <1>5. order' \in Seq(Nodes)
    BY <1>1, <1>3, <1>4
  <1> QED
    BY <1>1, <1>2, <1>5 DEF Phases

LEMMA RollbackPhases ==
    ASSUME Phases, NEW skip \in SUBSET ToSet(record), NEW found \in SUBSET ToSet(record),
           Rollback(skip, found)
    PROVE  Phases'
  <1>1. /\ pc = "deployed" /\ pc' = "sort" /\ skipped' = skip /\ mapped' = found
        /\ nodes' = Nodes \ (skip \cap found)
        /\ UNCHANGED <<deps, record, order>>
    BY DEF Rollback, Prepare
  <1>2. Acyclic'
    BY <1>1 DEF Phases, Acyclic, Circular
  <1> QED
    BY <1>1, <1>2 DEF Phases

LEMMA PhasesStep == Phases /\ SortInv /\ LevelInv /\ [Next]_vars => Phases'
  <1> SUFFICES ASSUME Phases, SortInv, LevelInv, [Next]_vars PROVE Phases'
    OBVIOUS
  <1>1. CASE \E n \in Nodes : Take(n)
    BY <1>1, PhasesKept DEF Take
  <1>2. CASE Sorted
    BY <1>2, PhasesKept DEF Sorted
  <1>3. CASE \E n \in Nodes : Root(n)
    BY <1>3, PhasesKept DEF Root
  <1>4. CASE \E n \in Nodes : Follow(n)
    BY <1>4, PhasesKept DEF Follow
  <1>5. CASE Leave
    BY <1>5, PhasesKept DEF Leave
  <1>6. CASE AddLevel
    BY <1>6, PhasesKept DEF AddLevel
  <1>7. CASE \E up \in SUBSET Nodes : Deploy(up)
    BY <1>7, DeployPhases
  <1>8. CASE \E skip, found \in SUBSET ToSet(record) : Rollback(skip, found)
    BY <1>8, RollbackPhases
  <1>9. CASE Plan
    BY <1>9, PlanPhases
  <1>10. CASE UNCHANGED vars
    BY <1>10, PhasesKept DEF vars
  <1> QED
    BY <1>1, <1>2, <1>3, <1>4, <1>5, <1>6, <1>7, <1>8, <1>9, <1>10 DEF Next

LEMMA PhasesInvariant == Spec => []Phases
  <1>1. Init => Phases
    BY PhasesInit
  <1>2. Phases /\ SortInv /\ LevelInv /\ [Next]_vars => Phases'
    BY PhasesStep
  <1> QED
    BY <1>1, <1>2, SortInvariant, LevelInvariant, PTL DEF Spec

-----------------------------------------------------------------------------
(***************************************************************************)
(* The search for a cycle                                                  *)
(***************************************************************************)

\* the nodes that the search has left for good
Finished == visited \ ToSet(path)

SearchTypes ==
    /\ path \in Seq(Nodes) /\ rest \in Seq(SUBSET Nodes) /\ Len(rest) = Len(path)
    /\ visited \subseteq Nodes /\ ToSet(path) \subseteq visited

\* the path follows dependencies, meets no node twice, and what it does not
\* follow any more is finished or is the next node
PathInv ==
    /\ \A i, j \in 1..Len(path) : path[i] = path[j] => i = j
    /\ \A k \in 1..Len(path) :
          /\ rest[k] \subseteq deps[path[k]]
          /\ k < Len(path) => /\ path[k + 1] \in deps[path[k]]
                              /\ deps[path[k]] \ rest[k] \subseteq Finished \cup {path[k + 1]}
          /\ k = Len(path) => deps[path[k]] \ rest[k] \subseteq Finished

\* what is finished depends on nothing else, and has no cycle
FinishedInv ==
    /\ \A n \in Finished : deps[n] \subseteq Finished
    /\ \A S \in SUBSET Finished : ~Circular(S)

IsCycle(c) ==
    /\ c \in Seq(Nodes) /\ Len(c) > 1 /\ c[1] = Last(c)
    /\ \A k \in 1..Len(c) - 1 : c[k + 1] \in deps[c[k]]
    /\ IsInjective(Tail(c))

SearchInv ==
    /\ SearchTypes /\ PathInv /\ FinishedInv
    /\ cycle \in Seq(Nodes)
    /\ pc = "rejected" => IsCycle(cycle)

LEMMA SearchInit == Init => SearchInv
  <1> SUFFICES ASSUME Init PROVE SearchInv
    OBVIOUS
  <1>1. path = <<>> /\ rest = <<>> /\ visited = {} /\ cycle = <<>> /\ pc = "sort"
    BY DEF Init
  <1>2. ToSet(path) = {} /\ Finished = {}
    BY <1>1, EmptyResult DEF Finished
  <1>3. SearchTypes /\ PathInv
    BY <1>1, <1>2 DEF SearchTypes, PathInv
  <1>4. FinishedInv
    BY <1>2 DEF FinishedInv, Circular
  <1> QED
    BY <1>1, <1>3, <1>4 DEF SearchInv

LEMMA SearchKept ==
    ASSUME SearchInv, UNCHANGED <<deps, cycleVars>>, pc' = "rejected" => pc = "rejected"
    PROVE  SearchInv'
  <1>1. UNCHANGED <<deps, path, rest, visited, cycle>>
    BY DEF cycleVars
  <1>2. Finished' = Finished
    BY <1>1 DEF Finished
  <1>3. SearchTypes'
    BY <1>1 DEF SearchInv, SearchTypes
  <1>4. PathInv'
    BY <1>1, <1>2 DEF SearchInv, PathInv
  <1>5. FinishedInv'
    BY <1>1, <1>2 DEF SearchInv, FinishedInv, Circular
  <1>6. IsCycle(cycle)' <=> IsCycle(cycle)
    BY <1>1 DEF IsCycle
  <1> QED
    BY <1>1, <1>3, <1>4, <1>5, <1>6 DEF SearchInv

\* a new node on the path, below the rests left
LEMMA Entered ==
    ASSUME SearchInv, NEW n \in Nodes \ visited, NEW left \in Seq(SUBSET Nodes),
           Len(left) = Len(path), Enter(n, left), UNCHANGED <<deps, cycle>>,
           pc' = "search", deps \in [Nodes -> SUBSET Nodes],
           \A k \in 1..Len(path) : left[k] \subseteq rest[k],
           \A k \in 1..Len(path) : k < Len(path) => left[k] = rest[k],
           \A k \in 1..Len(path) : k = Len(path) =>
              rest[k] \ left[k] = {n}
    PROVE  SearchInv'
  <1>1. PICK N \in Nat, p \in Seq(Nodes) : p = path /\ N = Len(path)
    BY DEF SearchInv, SearchTypes
  <1>2. PICK q : q = Append(p, n)
    OBVIOUS
  <1>3. PICK r : r = Append(left, deps[n])
    OBVIOUS
  <1>4. /\ q \in Seq(Nodes) /\ Len(q) = N + 1 /\ q[N + 1] = n
        /\ \A k \in 1..N : q[k] = p[k] /\ p[k] \in Nodes
    BY <1>1, <1>2
  <1>5. /\ r \in Seq(SUBSET Nodes) /\ Len(r) = N + 1 /\ r[N + 1] = deps[n]
        /\ \A k \in 1..N : r[k] = left[k]
    BY <1>1, <1>3
  <1>6. path' = q /\ rest' = r /\ visited' = visited \cup {n} /\ deps' = deps
    BY <1>1, <1>2, <1>3 DEF Enter
  <1>7. ToSet(q) = ToSet(p) \cup {n}
    BY <1>2, DoneGrows
  <1>8. Finished' = Finished
    BY <1>1, <1>6, <1>7 DEF Finished, SearchInv, SearchTypes
  <1>9. SearchTypes'
    BY <1>1, <1>4, <1>5, <1>6, <1>7 DEF SearchInv, SearchTypes
  <1>10. \A k \in 1..N + 1 : k \in 1..N \/ k = N + 1
    OBVIOUS
  <1>11. \A k \in 1..N : p[k] \in visited
    BY <1>1 DEF SearchInv, SearchTypes, ToSet
  <1>12. ASSUME NEW i \in 1..N + 1, NEW j \in 1..N + 1, q[i] = q[j] PROVE i = j
    <2>1. CASE i \in 1..N /\ j \in 1..N
      BY <1>1, <1>4, <1>12, <2>1 DEF SearchInv, PathInv
    <2>2. CASE i = N + 1 \/ j = N + 1
      BY <1>4, <1>10, <1>11, <1>12, <2>2
    <2> QED
      BY <1>10, <2>1, <2>2
  <1>13. ASSUME NEW k \in 1..N + 1
         PROVE  /\ r[k] \subseteq deps[q[k]]
                /\ k < N + 1 => /\ q[k + 1] \in deps[q[k]]
                                /\ deps[q[k]] \ r[k] \subseteq Finished \cup {q[k + 1]}
                /\ k = N + 1 => deps[q[k]] \ r[k] \subseteq Finished
    <2>1. CASE k = N + 1
      BY <1>4, <1>5, <2>1
    <2>2. CASE k \in 1..N /\ k < N
      <3>1. k + 1 \in 1..N /\ k # N + 1 /\ k < Len(path) /\ k \in 1..Len(path)
        BY <1>1, <2>2
      <3>2. q[k] = p[k] /\ q[k + 1] = p[k + 1] /\ r[k] = rest[k]
        BY <1>1, <1>4, <1>5, <2>2, <3>1
      <3>3. /\ rest[k] \subseteq deps[p[k]] /\ p[k + 1] \in deps[p[k]]
            /\ deps[p[k]] \ rest[k] \subseteq Finished \cup {p[k + 1]}
        BY <1>1, <3>1 DEF SearchInv, PathInv
      <3> QED
        BY <3>1, <3>2, <3>3
    <2>3. CASE k = N /\ k \in 1..N
      <3>1. k + 1 = N + 1 /\ k # N + 1 /\ k = Len(path) /\ k \in 1..Len(path)
        BY <1>1, <2>3
      <3>2. q[k] = p[k] /\ q[k + 1] = n /\ r[k] = left[k]
        BY <1>4, <1>5, <2>3, <3>1
      <3>3. rest[k] \subseteq deps[p[k]] /\ deps[p[k]] \ rest[k] \subseteq Finished
        BY <1>1, <3>1 DEF SearchInv, PathInv
      <3>4. left[k] \subseteq rest[k] /\ rest[k] \ left[k] = {n}
        BY <3>1
      <3> QED
        BY <3>1, <3>2, <3>3, <3>4
    <2> QED
      BY <1>10, <2>1, <2>2, <2>3
  <1>14. PathInv'
    BY <1>4, <1>6, <1>8, <1>12, <1>13 DEF PathInv
  <1>15. FinishedInv'
    BY <1>6, <1>8 DEF SearchInv, FinishedInv, Circular
  <1>16. cycle' \in Seq(Nodes)
    BY DEF SearchInv
  <1> QED
    BY <1>9, <1>14, <1>15, <1>16 DEF SearchInv

LEMMA RootSearch ==
    ASSUME SearchInv, SortInv, NEW n \in Nodes, Root(n)
    PROVE  SearchInv'
  <1>1. /\ pc' = "search" /\ path = <<>> /\ n \in Nodes \ visited
        /\ Enter(n, rest) /\ UNCHANGED <<deps, cycle>>
    BY DEF Root
  <1>2. Len(path) = 0 /\ rest \in Seq(SUBSET Nodes) /\ Len(rest) = Len(path)
    BY <1>1 DEF SearchInv, SearchTypes
  <1>3. \A k \in 1..Len(path) : FALSE
    BY <1>2
  <1>4. deps \in [Nodes -> SUBSET Nodes]
    BY DEF SortInv, Types
  <1> QED
    BY <1>1, <1>2, <1>3, <1>4, Entered

\* the dependencies left, once n is followed from the top of the path
LEMMA LeftOver ==
    ASSUME SearchInv, path # <<>>, NEW n, n \in rest[Top],
           NEW left, left = [rest EXCEPT ![Top] = @ \ {n}]
    PROVE  /\ left \in Seq(SUBSET Nodes) /\ Len(left) = Len(path)
           /\ Len(path) \in Nat \ {0} /\ Top = Len(path)
           /\ \A k \in 1..Len(path) : left[k] \subseteq rest[k]
           /\ \A k \in 1..Len(path) : k < Len(path) => left[k] = rest[k]
           /\ \A k \in 1..Len(path) : k = Len(path) =>
                 left[k] = rest[k] \ {n} /\ rest[k] \ left[k] = {n}
  <1>1. PICK N \in Nat \ {0} : N = Len(path) /\ N = Top /\ N = Len(rest)
    BY DEF SearchInv, SearchTypes, Top
  <1>2. PICK r \in Seq(SUBSET Nodes) : r = rest
    BY DEF SearchInv, SearchTypes
  <1>3. \A k \in 1..N : r[k] \in SUBSET Nodes
    BY <1>1, <1>2
  <1>4. DOMAIN r = 1..N /\ N \in 1..N
    BY <1>1, <1>2
  <1>5. left = [k \in 1..N |-> IF k = N THEN r[N] \ {n} ELSE r[k]]
    BY <1>1, <1>2, <1>4
  <1>6. \A k \in 1..N : left[k] \in SUBSET Nodes
    BY <1>3, <1>4, <1>5
  <1>7. left \in Seq(SUBSET Nodes) /\ Len(left) = N
    <2>1. \A f \in [1..N -> SUBSET Nodes] : f \in Seq(SUBSET Nodes) /\ Len(f) = N
      OBVIOUS
    <2>2. DOMAIN left = 1..N
      BY <1>5
    <2>3. left = [k \in 1..N |-> left[k]]
      BY <1>5
    <2>4. left \in [1..N -> SUBSET Nodes]
      BY <1>6, <2>3
    <2> QED
      BY <2>1, <2>4
  <1>8. ASSUME NEW k \in 1..N
        PROVE  /\ left[k] \subseteq rest[k] /\ (k < N => left[k] = rest[k])
               /\ k = N => left[k] = rest[k] \ {n} /\ rest[k] \ left[k] = {n}
    <2>1. k < N => k # N
      OBVIOUS
    <2>2. left[k] = IF k = N THEN rest[N] \ {n} ELSE rest[k]
      BY <1>2, <1>5
    <2> QED
      BY <1>1, <2>1, <2>2
  <1> QED
    BY <1>1, <1>7, <1>8

LEMMA FollowNew ==
    ASSUME SearchInv, SortInv, NEW n \in Nodes, path # <<>>, n \in rest[Top],
           n \notin visited, Enter(n, [rest EXCEPT ![Top] = @ \ {n}]),
           UNCHANGED <<deps, cycle>>, pc' = "search"
    PROVE  SearchInv'
  <1>1. PICK left : left = [rest EXCEPT ![Top] = @ \ {n}]
    OBVIOUS
  <1>2. /\ left \in Seq(SUBSET Nodes) /\ Len(left) = Len(path)
        /\ \A k \in 1..Len(path) : left[k] \subseteq rest[k]
        /\ \A k \in 1..Len(path) : k < Len(path) => left[k] = rest[k]
        /\ \A k \in 1..Len(path) : k = Len(path) => rest[k] \ left[k] = {n}
    BY <1>1, LeftOver
  <1>3. Enter(n, left) /\ n \in Nodes \ visited
    BY <1>1
  <1>4. deps \in [Nodes -> SUBSET Nodes]
    BY DEF SortInv, Types
  <1> QED
    BY <1>2, <1>3, <1>4, Entered

LEMMA FollowSeen ==
    ASSUME SearchInv, NEW n \in Nodes, path # <<>>, n \in rest[Top], n \in Finished,
           rest' = [rest EXCEPT ![Top] = @ \ {n}],
           UNCHANGED <<pc, deps, path, visited, cycle>>
    PROVE  SearchInv'
  <1>1. PICK left : left = rest' /\ left = [rest EXCEPT ![Top] = @ \ {n}]
    OBVIOUS
  <1>2. /\ left \in Seq(SUBSET Nodes) /\ Len(left) = Len(path)
        /\ \A k \in 1..Len(path) : left[k] \subseteq rest[k]
        /\ \A k \in 1..Len(path) : k < Len(path) => left[k] = rest[k]
        /\ \A k \in 1..Len(path) : k = Len(path) => rest[k] \ left[k] = {n}
    BY <1>1, LeftOver
  <1>3. Finished' = Finished
    BY DEF Finished
  <1>4. SearchTypes'
    BY <1>1, <1>2 DEF SearchInv, SearchTypes
  <1>5. ASSUME NEW k \in 1..Len(path)
        PROVE  /\ left[k] \subseteq deps[path[k]]
               /\ k < Len(path) => /\ path[k + 1] \in deps[path[k]]
                                   /\ deps[path[k]] \ left[k] \subseteq Finished \cup {path[k + 1]}
               /\ k = Len(path) => deps[path[k]] \ left[k] \subseteq Finished
    <2>1. left[k] \subseteq deps[path[k]]
      BY <1>2 DEF SearchInv, PathInv
    <2>2. ASSUME k < Len(path)
          PROVE  /\ path[k + 1] \in deps[path[k]]
                 /\ deps[path[k]] \ left[k] \subseteq Finished \cup {path[k + 1]}
      <3>1. left[k] = rest[k]
        BY <1>2, <2>2
      <3> QED
        BY <2>2, <3>1 DEF SearchInv, PathInv
    <2>3. ASSUME k = Len(path) PROVE deps[path[k]] \ left[k] \subseteq Finished
      <3>1. rest[k] \ left[k] = {n}
        BY <1>2, <2>3
      <3>2. deps[path[k]] \ rest[k] \subseteq Finished
        BY <2>3 DEF SearchInv, PathInv
      <3> QED
        BY <3>1, <3>2
    <2> QED
      BY <2>1, <2>2, <2>3
  <1>6. PathInv'
    BY <1>1, <1>3, <1>5 DEF SearchInv, PathInv
  <1>7. FinishedInv'
    BY <1>3 DEF SearchInv, FinishedInv, Circular
  <1>8. IsCycle(cycle)' <=> IsCycle(cycle)
    BY DEF IsCycle
  <1> QED
    BY <1>4, <1>6, <1>7, <1>8 DEF SearchInv

\* the path from n to its top, and n again, is a cycle
LEMMA CycleFound ==
    ASSUME SearchInv, NEW n \in Nodes, path # <<>>, n \in rest[Top], n \in ToSet(path)
    PROVE  IsCycle(CycleThrough(n))
  <1>1. PICK N \in Nat \ {0}, p \in Seq(Nodes) : p = path /\ N = Len(path) /\ N = Top
    BY DEF SearchInv, SearchTypes, Top
  <1>0. path \in Seq(Nodes)
    BY DEF SearchInv, SearchTypes
  <1>17. DOMAIN p = 1..N /\ \A k \in 1..N : p[k] \in Nodes
    <2>1. DOMAIN p = 1..Len(p) /\ \A k \in 1..Len(p) : p[k] \in Nodes
      OBVIOUS
    <2>2. Len(p) = N
      BY <1>1
    <2> QED
      BY <2>1, <2>2
  <1>2. \E k \in 1..N : p[k] = n
    <2>1. \A x \in ToSet(p) : \E k \in 1..N : p[k] = x
      BY <1>17 DEF ToSet
    <2> QED
      BY <1>1, <2>1
  <1>3. PICK a \in 1..N : a = (CHOOSE k \in 1..N : p[k] = n) /\ p[a] = n
    BY <1>2
  <1>4. PICK u : u = SubSeq(p, a, N)
    OBVIOUS
  <1>5. /\ u \in Seq(Nodes) /\ Len(u) = N + 1 - a /\ N + 1 - a \in Nat \ {0}
        /\ \A k \in 1..N + 1 - a : u[k] = p[a + k - 1] /\ a + k - 1 \in 1..N
    <2>1. u = [k \in 1..(1 + N) - a |-> p[(k + a) - 1]]
      BY <1>1, <1>3, <1>4
    <2>2. N + 1 - a \in Nat \ {0} /\ (1 + N) - a = N + 1 - a
      OBVIOUS
    <2>3. ASSUME NEW k \in 1..N + 1 - a
          PROVE  (k + a) - 1 = a + k - 1 /\ a + k - 1 \in 1..N
      OBVIOUS
    <2>4. ASSUME NEW k \in 1..N + 1 - a
          PROVE  u[k] = p[a + k - 1] /\ u[k] \in Nodes
      <3>1. u[k] = p[(k + a) - 1]
        BY <2>1, <2>2
      <3>2. PICK b \in 1..N : b = a + k - 1 /\ b = (k + a) - 1
        BY <2>3
      <3>3. p[b] \in Nodes
        BY <1>17
      <3> QED
        BY <3>1, <3>2, <3>3
    <2>5. u \in [1..N + 1 - a -> Nodes]
      BY <2>1, <2>2, <2>4
    <2>6. u \in Seq(Nodes) /\ Len(u) = N + 1 - a
      BY <2>2, <2>5
    <2> QED
      BY <2>2, <2>3, <2>4, <2>6
  <1>6. PICK M \in Nat \ {0} : M = N + 1 - a
    BY <1>5
  <1>7. PICK c : c = u \o <<n>>
    OBVIOUS
  <1>8. CycleThrough(n) = c
    BY <1>1, <1>3, <1>4, <1>7 DEF CycleThrough
  <1>9. /\ c \in Seq(Nodes) /\ Len(c) = M + 1 /\ c[M + 1] = n
        /\ \A k \in 1..M : c[k] = u[k]
    BY <1>5, <1>6, <1>7
  <1>10. \A k \in 1..M : c[k] = p[a + k - 1] /\ a + k - 1 \in 1..N
    BY <1>5, <1>6, <1>9
  <1>11. c[1] = n
    <2>1. 1 \in 1..M /\ a + 1 - 1 = a
      BY <1>3, <1>6
    <2> QED
      BY <1>3, <1>10, <2>1
  <1>12. Len(c) > 1 /\ c[1] = Last(c)
    BY <1>6, <1>9, <1>11 DEF Last
  <1>13. ASSUME NEW k \in 1..M PROVE c[k + 1] \in deps[c[k]]
    <2>1. c[k] = p[a + k - 1] /\ a + k - 1 \in 1..N
      BY <1>10
    <2>2. CASE k = M
      <3>1. a + k - 1 = N /\ c[k + 1] = n
        BY <1>3, <1>6, <1>9, <2>2
      <3>2. rest[N] \subseteq deps[p[N]] /\ n \in rest[N]
        <4>1. N \in 1..Len(path)
          BY <1>1
        <4> QED
          BY <1>1, <4>1 DEF SearchInv, PathInv
      <3> QED
        BY <2>1, <3>1, <3>2
    <2>3. CASE k # M
      <3>1. k + 1 \in 1..M
        BY <2>3
      <3>2. c[k + 1] = p[(a + k - 1) + 1]
        <4>1. a + (k + 1) - 1 = (a + k - 1) + 1
          BY <1>3
        <4> QED
          BY <1>10, <3>1, <4>1
      <3>3. a + k - 1 < N
        BY <1>3, <1>6, <3>1
      <3>4. p[(a + k - 1) + 1] \in deps[p[a + k - 1]]
        BY <1>1, <2>1, <3>3 DEF SearchInv, PathInv
      <3> QED
        BY <2>1, <3>2, <3>4
    <2> QED
      BY <2>2, <2>3
  <1>14. IsInjective(Tail(c))
    <2>1. PICK t : t = Tail(c)
      OBVIOUS
    <2>2. DOMAIN t = 1..M /\ \A k \in 1..M : t[k] = c[k + 1]
      BY <1>6, <1>9, <2>1
    <2>3. ASSUME NEW k \in 1..M
          PROVE  /\ k = M => t[k] = p[a]
                 /\ k # M => t[k] = p[a + k] /\ a + k \in 1..N
      <3>1. CASE k = M
        BY <1>3, <1>9, <2>2, <3>1
      <3>2. CASE k # M
        <4>1. k + 1 \in 1..M /\ a + (k + 1) - 1 = a + k
          BY <1>3, <3>2
        <4> QED
          BY <1>10, <2>2, <3>2, <4>1
      <3> QED
        BY <3>1, <3>2
    <2>4. \A i, j \in 1..N : p[i] = p[j] => i = j
      BY <1>1 DEF SearchInv, PathInv
    <2>5. ASSUME NEW i \in 1..M, NEW j \in 1..M, t[i] = t[j] PROVE i = j
      <3>1. CASE i # M /\ j # M
        <4>1. a + i = a + j
          BY <2>3, <2>4, <2>5, <3>1
        <4> QED
          BY <1>3, <4>1
      <3>2. CASE i = M /\ j # M
        <4>1. t[i] = p[a] /\ t[j] = p[a + j] /\ a + j \in 1..N
          BY <2>3, <3>2
        <4>2. PICK b \in 1..N : b = a + j
          BY <4>1
        <4>3. a = b
          BY <2>4, <2>5, <4>1, <4>2
        <4> QED
          BY <4>2, <4>3
      <3>3. CASE i # M /\ j = M
        <4>1. t[j] = p[a] /\ t[i] = p[a + i] /\ a + i \in 1..N
          BY <2>3, <3>3
        <4>2. PICK b \in 1..N : b = a + i
          BY <4>1
        <4>3. a = b
          BY <2>4, <2>5, <4>1, <4>2
        <4> QED
          BY <4>2, <4>3
      <3> QED
        BY <3>1, <3>2, <3>3
    <2> QED
      BY <2>1, <2>2, <2>5 DEF IsInjective
  <1>15. Len(c) - 1 = M
    BY <1>9
  <1>16. IsCycle(c)
    BY <1>9, <1>12, <1>13, <1>14, <1>15 DEF IsCycle
  <1> QED
    BY <1>8, <1>16

LEMMA FollowSearch ==
    ASSUME SearchInv, SortInv, NEW n \in Nodes, Follow(n)
    PROVE  SearchInv'
  <1>1. /\ pc = "search" /\ path # <<>> /\ n \in rest[Top]
        /\ \/ /\ n \in ToSet(path)
              /\ cycle' = CycleThrough(n) /\ pc' = "rejected"
              /\ UNCHANGED <<path, rest, visited>>
           \/ /\ n \in visited \ ToSet(path)
              /\ rest' = [rest EXCEPT ![Top] = @ \ {n}]
              /\ UNCHANGED <<pc, path, visited, cycle>>
           \/ /\ n \notin visited
              /\ Enter(n, [rest EXCEPT ![Top] = @ \ {n}]) /\ UNCHANGED <<pc, cycle>>
        /\ UNCHANGED deps
    BY DEF Follow
  <1>2. ASSUME n \in ToSet(path), cycle' = CycleThrough(n),
               UNCHANGED <<path, rest, visited>>
        PROVE  SearchInv'
    <2>1. IsCycle(CycleThrough(n))
      BY <1>1, <1>2, CycleFound
    <2>2. IsCycle(cycle)'
      BY <1>1, <1>2, <2>1 DEF IsCycle
    <2>3. cycle' \in Seq(Nodes)
      BY <2>2 DEF IsCycle
    <2>4. Finished' = Finished
      BY <1>2 DEF Finished
    <2>5. SearchTypes' /\ PathInv'
      BY <1>1, <1>2, <2>4 DEF SearchInv, SearchTypes, PathInv
    <2>6. FinishedInv'
      BY <1>1, <2>4 DEF SearchInv, FinishedInv, Circular
    <2> QED
      BY <2>2, <2>3, <2>5, <2>6 DEF SearchInv
  <1>3. CASE n \in visited \ ToSet(path) /\ rest' = [rest EXCEPT ![Top] = @ \ {n}]
             /\ UNCHANGED <<pc, path, visited, cycle>>
    BY <1>1, <1>3, FollowSeen DEF Finished
  <1>4. CASE n \notin visited /\ Enter(n, [rest EXCEPT ![Top] = @ \ {n}])
             /\ UNCHANGED <<pc, cycle>>
    BY <1>1, <1>4, FollowNew
  <1> QED
    BY <1>1, <1>2, <1>3, <1>4

\* the top of the path is finished: a cycle with it would be one without it
LEMMA LeaveSearch ==
    ASSUME SearchInv, Leave
    PROVE  SearchInv'
  <1>1. PICK N \in Nat : N + 1 = Len(path) /\ N + 1 = Len(rest) /\ N + 1 = Top
    <2>1. Len(path) \in Nat \ {0} /\ Len(rest) = Len(path) /\ Top = Len(path)
      BY DEF Leave, SearchInv, SearchTypes, Top
    <2>2. Len(path) - 1 \in Nat /\ (Len(path) - 1) + 1 = Len(path)
      BY <2>1
    <2> QED
      BY <2>1, <2>2
  <1>2. PICK p : p = Front(path)
    OBVIOUS
  <1>3. PICK r : r = Front(rest)
    OBVIOUS
  <1>4. /\ p \in Seq(Nodes) /\ Len(p) = N /\ \A k \in 1..N : p[k] = path[k]
        /\ r \in Seq(SUBSET Nodes) /\ Len(r) = N /\ \A k \in 1..N : r[k] = rest[k]
    <2>1. path \in Seq(Nodes) /\ rest \in Seq(SUBSET Nodes)
      BY DEF SearchInv, SearchTypes
    <2>2. Len(path) - 1 = N /\ Len(rest) - 1 = N
      BY <1>1
    <2>3. p = SubSeq(path, 1, N) /\ r = SubSeq(rest, 1, N)
      BY <1>2, <1>3, <2>2 DEF Front
    <2>4. \A k \in 1..N : k \in 1..Len(path) /\ k \in 1..Len(rest)
      BY <1>1
    <2>5. \A k \in 1..N : path[k] \in Nodes /\ rest[k] \in SUBSET Nodes
      BY <2>1, <2>4
    <2>6. p = [k \in 1..N |-> path[k]] /\ r = [k \in 1..N |-> rest[k]]
      BY <2>1, <2>3
    <2>7. p \in [1..N -> Nodes] /\ r \in [1..N -> SUBSET Nodes]
      BY <2>5, <2>6
    <2>8. p \in Seq(Nodes) /\ Len(p) = N
      BY <2>7
    <2>9. r \in Seq(SUBSET Nodes) /\ Len(r) = N
      BY <2>7
    <2> QED
      BY <2>6, <2>8, <2>9
  <1>5. path' = p /\ rest' = r /\ UNCHANGED <<pc, deps, visited, cycle>>
    BY <1>2, <1>3 DEF Leave
  <1>6. PICK n : n = path[N + 1]
    OBVIOUS
  <1>7. \A k \in 1..N + 1 : k \in 1..N \/ k = N + 1
    OBVIOUS
  <1>8. \A k \in 1..N : k \in 1..N + 1 /\ k # N + 1 /\ k < N + 1
    OBVIOUS
  <1>9. \A i, j \in 1..N + 1 : path[i] = path[j] => i = j
    BY <1>1 DEF SearchInv, PathInv
  <1>10. ToSet(path) = ToSet(p) \cup {n} /\ n \notin ToSet(p)
    <2>1. DOMAIN path = 1..N + 1 /\ DOMAIN p = 1..N
      <3>1. path \in Seq(Nodes)
        BY DEF SearchInv, SearchTypes
      <3> QED
        BY <1>1, <1>4, <3>1
    <2>2. \A x : x \in ToSet(path) <=> \E k \in 1..N + 1 : x = path[k]
      BY <2>1 DEF ToSet
    <2>3. \A x : x \in ToSet(p) <=> \E k \in 1..N : x = p[k]
      BY <2>1 DEF ToSet
    <2>4. \A x : x \in ToSet(p) <=> \E k \in 1..N : x = path[k]
      BY <1>4, <2>3
    <2>5. N + 1 \in 1..N + 1
      OBVIOUS
    <2>6. ASSUME n \in ToSet(p) PROVE FALSE
      <3>1. PICK k \in 1..N : path[N + 1] = path[k]
        BY <1>6, <2>4, <2>6
      <3> QED
        BY <1>8, <1>9, <2>5, <3>1
    <2>7. \A x : x \in ToSet(path) <=> x \in ToSet(p) \/ x = n
      BY <1>6, <1>7, <1>8, <2>2, <2>4, <2>5
    <2> QED
      BY <2>6, <2>7
  <1>11. n \in visited \ Finished /\ Finished' = Finished \cup {n}
    BY <1>5, <1>10 DEF Finished, SearchInv, SearchTypes
  <1>12. deps[n] \subseteq Finished
    <2>1. rest[N + 1] = {} /\ N + 1 \in 1..Len(path)
      BY <1>1 DEF Leave
    <2> QED
      BY <1>1, <1>6, <2>1 DEF SearchInv, PathInv
  <1>13. SearchTypes'
    BY <1>4, <1>5, <1>10 DEF SearchInv, SearchTypes
  <1>14. ASSUME NEW k \in 1..N
         PROVE  /\ r[k] \subseteq deps[p[k]]
                /\ k < N => /\ p[k + 1] \in deps[p[k]]
                            /\ deps[p[k]] \ r[k] \subseteq Finished' \cup {p[k + 1]}
                /\ k = N => deps[p[k]] \ r[k] \subseteq Finished'
    <2>1. k \in 1..Len(path) /\ k < Len(path)
      BY <1>1
    <2>2. /\ rest[k] \subseteq deps[path[k]] /\ path[k + 1] \in deps[path[k]]
          /\ deps[path[k]] \ rest[k] \subseteq Finished \cup {path[k + 1]}
      BY <2>1 DEF SearchInv, PathInv
    <2>3. p[k] = path[k] /\ r[k] = rest[k]
      BY <1>4
    <2>4. ASSUME k < N
          PROVE  /\ p[k + 1] \in deps[p[k]]
                 /\ deps[p[k]] \ r[k] \subseteq Finished' \cup {p[k + 1]}
      <3>1. k + 1 \in 1..N
        BY <2>4
      <3>2. p[k + 1] = path[k + 1]
        BY <1>4, <3>1
      <3> QED
        BY <1>11, <2>2, <2>3, <3>2
    <2>5. ASSUME k = N PROVE deps[p[k]] \ r[k] \subseteq Finished'
      <3>1. path[k + 1] = n
        BY <1>6, <2>5
      <3> QED
        BY <1>11, <2>2, <2>3, <3>1
    <2> QED
      BY <2>2, <2>3, <2>4, <2>5
  <1>15. ASSUME NEW i \in 1..N, NEW j \in 1..N, p[i] = p[j] PROVE i = j
    <2>1. path[i] = path[j] /\ i \in 1..N + 1 /\ j \in 1..N + 1
      BY <1>4, <1>8, <1>15
    <2> QED
      BY <1>9, <2>1
  <1>16. PathInv'
    BY <1>4, <1>5, <1>14, <1>15 DEF PathInv
  <1>17. FinishedInv'
    <2>1. \A m \in Finished \cup {n} : deps[m] \subseteq Finished \cup {n}
      BY <1>12 DEF SearchInv, FinishedInv
    <2>2. ASSUME NEW S \in SUBSET (Finished \cup {n}), Circular(S) PROVE FALSE
      <3>1. \A m \in S : deps[m] \cap S # {}
        BY <2>2 DEF Circular
      <3>2. CASE n \notin S
        BY <2>2, <3>2 DEF SearchInv, FinishedInv
      <3>3. CASE n \in S
        <4>1. S \ {n} \in SUBSET Finished
          OBVIOUS
        <4>2. \A m \in S : deps[m] \subseteq Finished /\ n \notin deps[m]
          BY <1>11, <1>12 DEF SearchInv, FinishedInv
        <4>3. \A m \in S : deps[m] \cap (S \ {n}) # {}
          BY <3>1, <4>2
        <4>4. Circular(S \ {n})
          BY <3>3, <4>3 DEF Circular
        <4> QED
          BY <4>1, <4>4 DEF SearchInv, FinishedInv
      <3> QED
        BY <3>2, <3>3
    <2>3. \A S : Circular(S)' <=> Circular(S)
      BY <1>5 DEF Circular
    <2> QED
      BY <1>5, <1>11, <2>1, <2>2, <2>3 DEF FinishedInv
  <1>18. IsCycle(cycle)' <=> IsCycle(cycle)
    BY <1>5 DEF IsCycle
  <1> QED
    BY <1>5, <1>13, <1>16, <1>17, <1>18 DEF SearchInv

LEMMA SearchStep == SearchInv /\ SortInv /\ [Next]_vars => SearchInv'
  <1> SUFFICES ASSUME SearchInv, SortInv, [Next]_vars PROVE SearchInv'
    OBVIOUS
  <1>1. CASE \E n \in Nodes : Take(n)
    BY <1>1, SearchKept DEF Take
  <1>2. CASE Sorted
    BY <1>2, SearchKept DEF Sorted
  <1>3. CASE \E n \in Nodes : Root(n)
    BY <1>3, RootSearch
  <1>4. CASE \E n \in Nodes : Follow(n)
    BY <1>4, FollowSearch
  <1>5. CASE Leave
    BY <1>5, LeaveSearch
  <1>6. CASE AddLevel
    BY <1>6, SearchKept DEF AddLevel
  <1>7. CASE \E up \in SUBSET Nodes : Deploy(up)
    BY <1>7, SearchKept DEF Deploy
  <1>8. CASE \E skip, found \in SUBSET ToSet(record) : Rollback(skip, found)
    BY <1>8, SearchKept DEF Rollback
  <1>9. CASE Plan
    BY <1>9, SearchKept DEF Plan
  <1>10. CASE UNCHANGED vars
    BY <1>10, SearchKept DEF vars
  <1> QED
    BY <1>1, <1>2, <1>3, <1>4, <1>5, <1>6, <1>7, <1>8, <1>9, <1>10 DEF Next

LEMMA SearchInvariant == Spec => []SearchInv
  <1>1. Init => SearchInv
    BY SearchInit
  <1>2. SearchInv /\ SortInv /\ [Next]_vars => SearchInv'
    BY SearchStep
  <1> QED
    BY <1>1, <1>2, SortInvariant, PTL DEF Spec

-----------------------------------------------------------------------------
(***************************************************************************)
(* The record of a deployment and the plan of a deletion                   *)
(***************************************************************************)

LEMMA DependsMonotone ==
    ASSUME NEW G, NEW H, G \subseteq H, NEW n, NEW m, DependsWithin(G, n, m)
    PROVE  DependsWithin(H, n, m)
  <1> SUFFICES ASSUME NEW S \in SUBSET H, deps[n] \cap H \subseteq S,
                      \A s \in S : deps[s] \cap H \subseteq S
               PROVE  m \in S
    BY DEF DependsWithin
  <1>1. S \cap G \in SUBSET G /\ deps[n] \cap G \subseteq S \cap G
    OBVIOUS
  <1>2. \A s \in S \cap G : deps[s] \cap G \subseteq S \cap G
    OBVIOUS
  <1>3. m \in S \cap G
    BY <1>1, <1>2 DEF DependsWithin
  <1> QED
    BY <1>3

\* what a node depends on is in earlier levels
LEMMA DependsEarlier ==
    ASSUME LevelInv, NEW k \in 1..Len(levels), NEW n \in levels[k], NEW m,
           NEW l \in 1..Len(levels), m \in levels[l], DependsWithin(nodes, n, m)
    PROVE  l < k
  <1>1. PICK N \in Nat : N = Len(levels)
    BY DEF LevelInv
  <1>2. \A j \in 1..k - 1 : j \in 1..N /\ j < k
    BY <1>1
  <1>3. UpTo(k - 1) \subseteq nodes
    <2>1. \A j \in 1..N : levels[j] \subseteq nodes
      BY <1>1 DEF LevelInv
    <2> QED
      BY <1>2, <2>1 DEF UpTo
  <1>4. deps[n] \cap nodes \subseteq UpTo(k - 1)
    BY DEF LevelInv
  <1>5. ASSUME NEW s \in UpTo(k - 1) PROVE deps[s] \cap nodes \subseteq UpTo(k - 1)
    <2>1. PICK j \in 1..k - 1 : s \in levels[j]
      BY DEF UpTo
    <2>2. deps[s] \cap nodes \subseteq UpTo(j - 1)
      BY <1>1, <1>2, <2>1 DEF LevelInv
    <2>3. \A i \in 1..j - 1 : i \in 1..k - 1
      BY <1>1
    <2>4. UpTo(j - 1) \subseteq UpTo(k - 1)
      BY <2>3 DEF UpTo
    <2> QED
      BY <2>2, <2>4
  <1>6. m \in UpTo(k - 1)
    BY <1>3, <1>4, <1>5 DEF DependsWithin
  <1>7. PICK j \in 1..k - 1 : m \in levels[j]
    BY <1>6 DEF UpTo
  <1>8. j = l
    BY <1>1, <1>2, <1>7 DEF LevelInv
  <1> QED
    BY <1>2, <1>7, <1>8

LEMMA AheadOfOther ==
    ASSUME SortInv, NEW x, Ahead(sorted, x, x)
    PROVE  FALSE
  <1>1. PICK k \in 1..Len(sorted), l \in 1..Len(sorted) : k < l /\ sorted[k] = sorted[l]
    BY DEF Ahead
  <1>2. k = l
    BY <1>1 DEF SortInv, SortedDependenciesFirst
  <1>3. Len(sorted) \in Nat
    BY DEF SortInv, Types
  <1> QED
    BY <1>1, <1>2, <1>3

\* no two elements are equal, and nothing depends on what follows it
Independent(s, G) ==
    \A i, j \in 1..Len(s) : i < j => s[i] # s[j] /\ ~DependsWithin(G, s[i], s[j])

\* the same for the reverse order
Dependent(s, G) ==
    \A i, j \in 1..Len(s) : i < j => s[i] # s[j] /\ ~DependsWithin(G, s[j], s[i])

LEMMA DistinctIsInjective ==
    ASSUME NEW S, NEW s \in Seq(S), \A i, j \in 1..Len(s) : i < j => s[i] # s[j]
    PROVE  IsInjective(s)
  <1>1. PICK N \in Nat : N = Len(s)
    OBVIOUS
  <1>2. ASSUME NEW i \in 1..N, NEW j \in 1..N, s[i] = s[j] PROVE i = j
    <2>1. CASE i < j
      BY <1>1, <1>2, <2>1
    <2>2. CASE j < i
      BY <1>1, <1>2, <2>2
    <2> QED
      BY <2>1, <2>2
  <1>3. DOMAIN s = 1..N
    BY <1>1
  <1> QED
    BY <1>2, <1>3 DEF IsInjective

LEMMA RecordInOrder ==
    ASSUME SortInv, LevelInv, NEW up, NEW r, r = InLevels(levels, up)
    PROVE  Independent(r, nodes)
  <1>1. PICK N \in Nat : N = Len(levels)
    BY DEF LevelInv
  <1>2. PICK ls : ls = levels
    OBVIOUS
  <1>3. sorted \in Seq(nodes)
    BY DEF SortInv, Types
  <1>4. \A i, j \in 1..Len(r) : i < j =>
           \E k, l \in 1..N : InLevelsAhead(ls, k, l, r[i], r[j])
    BY <1>1, <1>2, <1>3, LevelByLevel
  <1>5. ASSUME NEW i \in 1..Len(r), NEW j \in 1..Len(r), i < j
        PROVE  r[i] # r[j] /\ ~DependsWithin(nodes, r[i], r[j])
    <2>0. PICK k \in 1..N, l \in 1..N : InLevelsAhead(ls, k, l, r[i], r[j])
      BY <1>4, <1>5
    <2>1. /\ r[i] \in ls[k] /\ r[j] \in ls[l]
          /\ k < l \/ (k = l /\ Ahead(sorted, r[i], r[j]))
      BY <2>0 DEF InLevelsAhead
    <2>2. r[i] \in levels[k] /\ r[j] \in levels[l]
      BY <1>2, <2>1
    <2>3. ASSUME r[i] = r[j] PROVE FALSE
      <3>1. k = l
        BY <1>1, <2>2, <2>3 DEF LevelInv
      <3>2. Ahead(sorted, r[i], r[i])
        BY <2>1, <2>3, <3>1
      <3> QED
        BY <3>2, AheadOfOther
    <2>4. ASSUME DependsWithin(nodes, r[i], r[j]) PROVE FALSE
      <3>1. l < k
        BY <1>1, <2>2, <2>4, DependsEarlier
      <3> QED
        BY <2>1, <3>1
    <2> QED
      BY <2>3, <2>4
  <1> QED
    BY <1>5 DEF Independent

LEMMA PlanByLevels ==
    ASSUME SortInv, LevelInv, Phases, pc = "levels", Processed = nodes, Unplanned = {},
           NEW t, t = InLevels(LastLevelFirst(levels), mapped)
    PROVE  ToSet(t) = ToSet(record) \ skipped /\ Dependent(t, Nodes \ skipped)
  <1>1. PICK ls \in Seq(SUBSET nodes), N \in Nat : ls = levels /\ N = Len(ls)
    BY DEF LevelInv
  <1>2. PICK rs : rs = Reverse(ls)
    OBVIOUS
  <1>3. /\ Len(rs) = N /\ ToSet(rs) = ToSet(levels)
        /\ \A k \in 1..N : N + 1 - k \in 1..N /\ rs[k] = levels[N + 1 - k]
    <2>1. /\ Len(rs) = Len(ls) /\ ToSet(rs) = ToSet(ls)
          /\ \A k \in 1..Len(ls) : Len(ls) + 1 - k \in 1..Len(ls)
                                   /\ rs[k] = ls[Len(ls) + 1 - k]
      BY <1>2, Reversed
    <2> QED
      BY <1>1, <2>1
  <1>4. rs \in Seq(SUBSET nodes)
    BY <1>2, Reversed
  <1>5. t = InLevels(rs, mapped)
    BY <1>1, <1>2 DEF LastLevelFirst
  <1>6. sorted \in Seq(nodes)
    BY DEF SortInv, Types
  <1>7. /\ \A n : n \in ToSet(t) <=>
               n \in ToSet(sorted) \cap mapped /\ \E k \in 1..N : n \in rs[k]
        /\ \A i, j \in 1..Len(t) : i < j =>
               \E k, l \in 1..N : InLevelsAhead(rs, k, l, t[i], t[j])
    <2>1. N = Len(rs)
      BY <1>3
    <2>2. \A n : n \in ToSet(t) <=>
             n \in ToSet(sorted) \cap mapped /\ \E k \in 1..N : n \in rs[k]
      BY <2>1, <1>5, <1>6, LevelByLevel
    <2>3. \A i, j \in 1..Len(t) : i < j =>
             \E k, l \in 1..N : InLevelsAhead(rs, k, l, t[i], t[j])
      BY <2>1, <1>5, <1>6, LevelByLevel
    <2> QED
      BY <2>2, <2>3
  <1>8. ASSUME NEW n PROVE n \in nodes <=> \E k \in 1..N : n \in rs[k]
    <2>1. DOMAIN rs = 1..N
      BY <1>3, <1>4
    <2>2. nodes = UNION ToSet(rs)
      BY <1>3 DEF Processed
    <2> QED
      BY <2>1, <2>2 DEF ToSet
  <1>9. ToSet(sorted) = nodes
    BY DEF SortInv, Verdict, Done
  <1>10. \A n : n \in ToSet(t) <=> n \in nodes /\ n \in mapped
    BY <1>7, <1>8, <1>9
  <1>11. ToSet(t) = ToSet(record) \ skipped
    <2>1. \A n \in ToSet(record) : n \in Nodes
      BY DEF Phases, ToSet
    <2>2. \A n \in ToSet(record) : n \in skipped \/ n \in mapped
      BY DEF Unplanned
    <2>3. nodes = Nodes \ (skipped \cap mapped) /\ mapped \subseteq ToSet(record)
      BY DEF Phases
    <2> QED
      BY <1>10, <2>1, <2>2, <2>3
  <1>12. ASSUME NEW i \in 1..Len(t), NEW j \in 1..Len(t), i < j
         PROVE  t[i] # t[j] /\ ~DependsWithin(Nodes \ skipped, t[j], t[i])
    <2>1. PICK k \in 1..N, l \in 1..N : InLevelsAhead(rs, k, l, t[i], t[j])
      BY <1>7, <1>12
    <2>2. /\ t[i] \in rs[k] /\ t[j] \in rs[l]
          /\ k < l \/ (k = l /\ Ahead(sorted, t[i], t[j]))
      BY <2>1 DEF InLevelsAhead
    <2>3. PICK a \in 1..N : a = N + 1 - k /\ t[i] \in levels[a]
      BY <1>3, <2>2
    <2>4. PICK b \in 1..N : b = N + 1 - l /\ t[j] \in levels[b]
      BY <1>3, <2>2
    <2>5. N = Len(levels)
      BY <1>1
    <2>6. ASSUME t[i] = t[j] PROVE FALSE
      <3>1. a = b
        BY <2>3, <2>4, <2>5, <2>6 DEF LevelInv
      <3>2. k = l
        BY <2>3, <2>4, <3>1
      <3>3. Ahead(sorted, t[i], t[i])
        BY <2>2, <2>6, <3>2
      <3> QED
        BY <3>3, AheadOfOther
    <2>7. ASSUME DependsWithin(Nodes \ skipped, t[j], t[i]) PROVE FALSE
      <3>1. Nodes \ skipped \subseteq nodes
        BY DEF Phases
      <3>2. DependsWithin(nodes, t[j], t[i])
        BY <2>7, <3>1, DependsMonotone
      <3>3. a < b
        BY <2>3, <2>4, <2>5, <3>2, DependsEarlier
      <3>4. l < k
        BY <2>3, <2>4, <3>3
      <3> QED
        BY <2>2, <3>4
    <2> QED
      BY <2>6, <2>7
  <1> QED
    BY <1>11, <1>12 DEF Dependent

LEMMA PlanByRecord ==
    ASSUME Phases, Independent(record, Nodes),
           NEW t, t = Among(Reverse(record), Nodes \ skipped)
    PROVE  ToSet(t) = ToSet(record) \ skipped /\ Dependent(t, Nodes \ skipped)
  <1>1. PICK q \in Seq(Nodes), N \in Nat : q = record /\ N = Len(q)
    BY DEF Phases
  <1>2. PICK r : r = Reverse(q)
    OBVIOUS
  <1>3. /\ r \in Seq(Nodes) /\ Len(r) = Len(q) /\ ToSet(r) = ToSet(q)
        /\ \A k \in 1..Len(q) : Len(q) + 1 - k \in 1..Len(q) /\ r[k] = q[Len(q) + 1 - k]
    BY <1>2, Reversed
  <1>4. Len(r) = N /\ \A k \in 1..N : N + 1 - k \in 1..N /\ r[k] = q[N + 1 - k]
    BY <1>1, <1>3
  <1>5. PICK K : K = Nodes \ skipped
    OBVIOUS
  <1>6. t = Among(r, K)
    BY <1>1, <1>2, <1>5
  <1>7. /\ ToSet(t) = ToSet(r) \cap K
        /\ \A i, j \in 1..Len(t) : i < j => Ahead(r, t[i], t[j])
    <2>1. r \in Seq(Nodes)
      BY <1>3
    <2> QED
      BY <2>1, <1>6, AmongKeepsOrder
  <1>8. ToSet(t) = ToSet(record) \ skipped
    <2>1. \A n \in ToSet(record) : n \in Nodes
      BY DEF Phases, ToSet
    <2> QED
      BY <1>1, <1>3, <1>5, <1>7, <2>1
  <1>9. ASSUME NEW i \in 1..Len(t), NEW j \in 1..Len(t), i < j
        PROVE  t[i] # t[j] /\ ~DependsWithin(Nodes \ skipped, t[j], t[i])
    <2>1. Ahead(r, t[i], t[j])
      BY <1>7, <1>9
    <2>2. PICK k \in 1..N, l \in 1..N : k < l /\ t[i] = r[k] /\ t[j] = r[l]
      BY <1>4, <2>1 DEF Ahead
    <2>3. PICK a \in 1..N : a = N + 1 - k /\ t[i] = record[a]
      BY <1>1, <1>4, <2>2
    <2>4. PICK b \in 1..N : b = N + 1 - l /\ t[j] = record[b]
      BY <1>1, <1>4, <2>2
    <2>5. b < a
      BY <2>2, <2>3, <2>4
    <2>6. record[b] # record[a] /\ ~DependsWithin(Nodes, record[b], record[a])
      BY <1>1, <2>5 DEF Independent
    <2>7. Nodes \ skipped \subseteq Nodes
      OBVIOUS
    <2>8. ~DependsWithin(Nodes \ skipped, record[b], record[a])
      BY <2>6, <2>7, DependsMonotone
    <2> QED
      BY <2>3, <2>4, <2>6, <2>8
  <1> QED
    BY <1>8, <1>9 DEF Dependent

PlanInv ==
    /\ Independent(record, Nodes)
    /\ pc = "planned" => /\ ToSet(order) = ToSet(record) \ skipped
                         /\ Dependent(order, Nodes \ skipped)

LEMMA PlanKept ==
    ASSUME PlanInv, UNCHANGED <<deps, record, skipped, order>>,
           pc' = "planned" => pc = "planned"
    PROVE  PlanInv'
  BY DEF PlanInv, Independent, Dependent, DependsWithin

LEMMA PlanStep == PlanInv /\ Phases /\ SortInv /\ LevelInv /\ [Next]_vars => PlanInv'
  <1> SUFFICES ASSUME PlanInv, Phases, SortInv, LevelInv, [Next]_vars PROVE PlanInv'
    OBVIOUS
  <1>1. CASE \E n \in Nodes : Take(n)
    BY <1>1, PlanKept DEF Take, rollbackVars
  <1>2. CASE Sorted
    BY <1>2, PlanKept DEF Sorted, rollbackVars
  <1>3. CASE \E n \in Nodes : Root(n)
    BY <1>3, PlanKept DEF Root, rollbackVars
  <1>4. CASE \E n \in Nodes : Follow(n)
    BY <1>4, PlanKept DEF Follow, rollbackVars
  <1>5. CASE Leave
    BY <1>5, PlanKept DEF Leave, rollbackVars
  <1>6. CASE AddLevel
    BY <1>6, PlanKept DEF AddLevel, rollbackVars
  <1>7. CASE \E up \in SUBSET Nodes : Deploy(up)
    <2>1. PICK up \in SUBSET Nodes : Deploy(up)
      BY <1>7
    <2>2. /\ record = <<>> /\ pc' = "deployed" /\ deps' = deps
          /\ record' = InLevels(levels, up)
      BY <2>1 DEF Deploy
    <2>3. nodes = Nodes
      BY <2>2, EmptyResult DEF Phases
    <2>4. Independent(record', nodes)
      BY <2>2, RecordInOrder
    <2>5. Independent(record, Nodes)'
      BY <2>2, <2>3, <2>4 DEF Independent, DependsWithin
    <2> QED
      BY <2>2, <2>5 DEF PlanInv
  <1>8. CASE \E skip, found \in SUBSET ToSet(record) : Rollback(skip, found)
    <2>1. /\ pc' = "sort" /\ deps' = deps /\ record' = record
      BY <1>8 DEF Rollback
    <2> QED
      BY <2>1 DEF PlanInv, Independent, DependsWithin
  <1>9. CASE Plan
    <2>1. /\ pc = "levels" /\ Processed = nodes
          /\ order' = IF Unplanned = {} THEN InLevels(LastLevelFirst(levels), mapped)
                      ELSE Among(Reverse(record), Nodes \ skipped)
          /\ UNCHANGED <<deps, record, skipped>>
      BY <1>9 DEF Plan
    <2>2. ToSet(order') = ToSet(record) \ skipped /\ Dependent(order', Nodes \ skipped)
      <3>1. CASE Unplanned = {}
        <4>1. order' = InLevels(LastLevelFirst(levels), mapped)
          BY <2>1, <3>1
        <4> QED
          BY <2>1, <3>1, <4>1, PlanByLevels
      <3>2. CASE Unplanned # {}
        <4>1. order' = Among(Reverse(record), Nodes \ skipped)
          BY <2>1, <3>2
        <4> QED
          BY <4>1, PlanByRecord DEF PlanInv
      <3> QED
        BY <3>1, <3>2
    <2>3. Dependent(order, Nodes \ skipped)'
      <3>1. \A i, j \in 1..Len(order') : i < j =>
               /\ order'[i] # order'[j]
               /\ ~DependsWithin(Nodes \ skipped, order'[j], order'[i])
        BY <2>2 DEF Dependent
      <3>2. \A G, n, m : DependsWithin(G, n, m)' <=> DependsWithin(G, n, m)
        BY <2>1 DEF DependsWithin
      <3>3. skipped' = skipped
        BY <2>1
      <3> QED
        BY <3>1, <3>2, <3>3 DEF Dependent
    <2>4. Independent(record, Nodes)'
      BY <2>1 DEF PlanInv, Independent, DependsWithin
    <2> QED
      BY <2>1, <2>2, <2>3, <2>4 DEF PlanInv
  <1>10. CASE UNCHANGED vars
    BY <1>10, PlanKept DEF vars, rollbackVars
  <1> QED
    BY <1>1, <1>2, <1>3, <1>4, <1>5, <1>6, <1>7, <1>8, <1>9, <1>10 DEF Next

LEMMA PlanInvariant == Spec => []PlanInv
  <1>1. Init => PlanInv
    <2>1. \A i \in 1..Len(<<>>) : FALSE
      OBVIOUS
    <2> QED
      BY <2>1 DEF Init, PlanInv, Independent
  <1>2. PlanInv /\ Phases /\ SortInv /\ LevelInv /\ [Next]_vars => PlanInv'
    BY PlanStep
  <1> QED
    BY <1>1, <1>2, PhasesInvariant, SortInvariant, LevelInvariant, PTL DEF Spec

-----------------------------------------------------------------------------
(***************************************************************************)
(* Theorems                                                                *)
(***************************************************************************)

(* getTopologicalOrder takes a node once, and after all its dependencies.  *)
THEOREM SortRespectsDependencies == Spec => []SortedDependenciesFirst
  <1>1. SortInv => SortedDependenciesFirst
    BY DEF SortInv
  <1> QED
    BY <1>1, SortInvariant, PTL

(* A graph, the graph of a deletion included, is rejected if it has a      *)
(* cycle, and only then; so counting the sorted nodes is enough.           *)
THEOREM RejectionIsExact == Spec => []RejectedIffCyclic
  <1>1. SortInv => RejectedIffCyclic
    <2> SUFFICES ASSUME SortInv PROVE RejectedIffCyclic
      OBVIOUS
    <2>1. pc \in {"search", "rejected"} => \E S \in SUBSET nodes : Circular(S)
      BY DEF SortInv, Verdict
    <2>2. ASSUME pc \in {"levels", "deployed", "planned"}, NEW S \in SUBSET nodes
          PROVE  ~Circular(S)
      <3>1. Done = nodes
        BY <2>2 DEF SortInv, Verdict
      <3> QED
        BY <3>1 DEF SortInv, CyclesLeft, Circular
    <2> QED
      BY <2>1, <2>2 DEF RejectedIffCyclic
  <1> QED
    BY <1>1, SortInvariant, PTL

(* A node is deployed in the first level that its dependencies allow, and  *)
(* no plan gets stuck (analyzeDeploymentOrder never throws).               *)
THEOREM LevelsAreTight == Spec => []LevelsTight
  <1>1. SortInv /\ LevelInv => LevelsTight
    <2> SUFFICES ASSUME SortInv, LevelInv PROVE LevelsTight
      OBVIOUS
    <2>1. ASSUME pc = "levels", Processed # nodes PROVE Unblocked # {}
      <3> DEFINE S == nodes \ Processed
      <3>1. Processed \subseteq nodes
        BY DEF LevelInv, Processed, ToSet
      <3>2. S # {} /\ S \in SUBSET nodes
        BY <2>1, <3>1
      <3>3. Done = nodes
        BY <2>1 DEF SortInv, Verdict
      <3>4. ~Circular(S)
        BY <3>2, <3>3 DEF SortInv, CyclesLeft
      <3>5. PICK n \in S : deps[n] \cap S = {}
        BY <3>2, <3>4 DEF Circular
      <3> QED
        BY <3>5 DEF Unblocked
    <2>2. \A k \in 1..Len(levels) : \A n \in levels[k] :
             deps[n] \cap nodes \subseteq UNION {levels[j] : j \in 1..k - 1}
      BY DEF LevelInv, UpTo
    <2> QED
      BY <2>1, <2>2 DEF LevelsTight, LevelInv
  <1> QED
    BY <1>1, SortInvariant, LevelInvariant, PTL

(* All variables have their types; in particular no counter of the sort    *)
(* falls below zero, and what is retained or found is of the record.       *)
THEOREM TypeCorrect == Spec => []TypeOK
  <1>1. Phases /\ SortInv /\ LevelInv /\ SearchInv => TypeOK
    BY DEF Phases, SortInv, Types, LevelInv, SearchInv, SearchTypes, TypeOK
  <1> QED
    BY <1>1, PhasesInvariant, SortInvariant, LevelInvariant, SearchInvariant, PTL

(* The error of a rejected graph names a cycle that it has, and the search *)
(* finds one before it runs out of roots (findCycles).                     *)
THEOREM ReportedCycleIsOne == Spec => []CycleReported
  <1>1. Phases /\ SortInv /\ SearchInv => CycleReported
    <2> SUFFICES ASSUME Phases, SortInv, SearchInv PROVE CycleReported
      OBVIOUS
    <2>1. pc = "rejected" => IsCycle(cycle)
      BY DEF SearchInv
    <2>2. ASSUME pc = "search", path = <<>>, nodes \ visited = {} PROVE FALSE
      <3>1. Circular(nodes \ Done) /\ nodes \subseteq Nodes
        BY <2>2 DEF SortInv, Types, Verdict
      <3>2. nodes = Nodes
        BY <3>1 DEF Phases, Acyclic
      <3>3. Finished = visited
        BY <2>2, EmptyResult DEF Finished
      <3>4. nodes \ Done \in SUBSET Finished
        BY <2>2, <3>3
      <3> QED
        BY <3>1, <3>4 DEF SearchInv, FinishedInv
    <2> QED
      BY <2>1, <2>2 DEF CycleReported, IsCycle
  <1> QED
    BY <1>1, PhasesInvariant, SortInvariant, SearchInvariant, PTL

(* A deletion takes every resource of the record that it does not retain,  *)
(* once, and before all that it depends on (rollbackRecord).               *)
THEOREM DeletionIsPlanned == Spec => []DeletionPlanned
  <1>1. Phases /\ PlanInv => DeletionPlanned
    <2> SUFFICES ASSUME Phases, PlanInv, pc = "planned" PROVE DeletionPlanned
      BY DEF DeletionPlanned
    <2>1. PICK s \in Seq(Nodes) : s = order
      BY DEF Phases
    <2>2. \A i, j \in 1..Len(s) :
             i < j => s[i] # s[j] /\ ~DependsWithin(Nodes \ skipped, s[j], s[i])
      BY <2>1 DEF PlanInv, Dependent
    <2>3. IsInjective(s)
      BY <2>2, DistinctIsInjective
    <2> QED
      BY <2>1, <2>2, <2>3 DEF PlanInv, DeletionPlanned
  <1> QED
    BY <1>1, PhasesInvariant, PlanInvariant, PTL
=============================================================================
