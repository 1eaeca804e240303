------------------------ MODULE NamespaceGate_proofs ------------------------
(***************************************************************************)
(* The safety of the gated deletion of a Namespace, for every number of    *)
(* deployments, deletions, kinds, incarnations and objects: its types, the *)
(* occupants and claims it spares, and the Namespaces of others it keeps.  *)
(*                                                                         *)
(* The invariant says of every run, over what it has read, what is still   *)
(* true of the Namespace now: which of the occupants it may have missed    *)
(* (Seen), how old the incarnation is that it read and the claims that it  *)
(* captured (Proven), and that nobody else's Namespace took its place      *)
(* unnoticed (Adopted).                                                    *)
(***************************************************************************)
EXTENDS NamespaceGate, TLAPS

Reading == {"list", "deleteByName", "listClaims", "deleteByUid"}

\* an occupant that the gate read is of a kind it still lists, or a claim
Seen(t) ==
    /\ t.stayed \subseteq content
    /\ t.pc = "list" =>
          \A o \in t.stayed : o.kind \in t.todo \/ (t.claims /\ o.kind = Claim)
    /\ t.pc \in Reading \ {"list"} => \A o \in t.stayed : o.kind = Claim

\* incarnations are read in the order of their uids
Proven(t) ==
    /\ t.uid <= uid
    /\ t.pc \in Reading /\ ns.state # "absent" => t.uid <= ns.uid
    /\ t.pc = "deleteByUid" =>
          \A l \in t.leases :
             /\ t.uid <= l.inside /\ l.inside <= uid
             /\ ns.state # "absent" => l.inside <= ns.uid
    /\ t.pc = "deleteClaims" => \A l \in t.leases : l.inside = t.uid

Ours == ns.by = "us" \/ ns.swapped

ReliesOn(t) == (t.pc = "patch" /\ t.owned) \/ t.pc \in Reading
Adopted(t) == ReliesOn(t) /\ ns.state # "absent" => Ours

Good(t) == t \in Procs /\ Seen(t) /\ Proven(t) /\ Adopted(t)

Present == ns.state # "absent" => ns.uid \in 1..uid
Stamped == ns.stamp => Ours

IInv == TypeOK /\ Present /\ Stamped /\ \A p \in Runs : Good(proc[p])

-----------------------------------------------------------------------------
(* The states                                                              *)

\* a run in another step
LEMMA StepFacts ==
    ASSUME NEW t \in Procs, NEW pc \in Steps
    PROVE  /\ [t EXCEPT !.pc = pc] \in Procs
           /\ [t EXCEPT !.pc = pc].pc = pc
           /\ [t EXCEPT !.pc = pc].uid = t.uid
           /\ [t EXCEPT !.pc = pc].owned = t.owned
           /\ [t EXCEPT !.pc = pc].leases = t.leases
           /\ [t EXCEPT !.pc = pc].stayed = t.stayed
  BY DEF Procs

LEMMA StartFacts ==
    /\ Start \in Procs /\ Start.pc = "start" /\ Start.uid = 0
    /\ Start.stayed = {} /\ Start.leases = {}
  <1>1. 0 \in 0..MaxUid
    BY GateAssumption
  <1> QED
    BY <1>1 DEF Start, Procs, Steps

LEMMA RelyingRuns == \A p \in Runs : Relies(p) => ReliesOn(proc[p])
  BY DEF Relies, ReliesOn, Reading, At

LEMMA InitGood == Init => IInv
  <1> SUFFICES ASSUME Init PROVE IInv
    OBVIOUS
  <1>1. ns \in NamespaceStates /\ uid \in 0..MaxUid /\ ns.uid = uid
    <2>1. 0 \in 0..MaxUid /\ 1 \in 0..MaxUid
      BY GateAssumption
    <2>2. uid = ns.uid
      BY DEF Init
    <2>3. CASE ns = Gone
      BY <2>1, <2>2, <2>3 DEF Gone, NamespaceStates
    <2>4. CASE ns = [state |-> "live", uid |-> 1, stamp |-> TRUE, by |-> "us",
                     swapped |-> FALSE]
      BY <2>1, <2>2, <2>4 DEF NamespaceStates
    <2> QED
      BY <2>3, <2>4 DEF Init
  <1>2. ns.state = "absent" => ns = Gone
    BY DEF Init
  <1>3. content = {} /\ objects \in 0..MaxObjects
    BY GateAssumption DEF Init
  <1>4. \A p \in Runs : proc[p] = Start
    BY DEF Init
  <1>5. proc \in [Runs -> Procs]
    BY StartFacts DEF Init
  <1>6. TypeOK
    BY <1>1, <1>2, <1>3, <1>5, GateAssumption DEF TypeOK
  <1>7. Present
    BY GateAssumption DEF Init, Gone, Present
  <1>8. Stamped
    BY DEF Init, Gone, Stamped, Ours
  <1>9. Good(Start)
    BY <1>1, <1>3, StartFacts, GateAssumption
    DEF Good, Seen, Proven, Adopted, ReliesOn, Reading
  <1> QED
    BY <1>4, <1>6, <1>7, <1>8, <1>9 DEF IInv

-----------------------------------------------------------------------------
(* Steps of one run that leave the Namespace as it is                      *)

\* a run moves to a state that is good for the Namespace as it is
LEMMA OwnStep ==
    ASSUME IInv, NEW p \in Runs, NEW t, Good(t), Set(p, t),
           UNCHANGED <<ns, uid, content, objects>>
    PROVE  IInv'
  <1>1. proc \in [Runs -> Procs] /\ t \in Procs
    BY DEF IInv, TypeOK, Good
  <1>2. proc' \in [Runs -> Procs]
    BY <1>1 DEF Set
  <1>3. \A q \in Runs : proc'[q] = IF q = p THEN t ELSE proc[q]
    BY <1>1 DEF Set
  <1>4. \A q \in Runs : Good(proc'[q])
    BY <1>3 DEF IInv
  <1>5. \A q \in Runs : Good(proc[q])'
    BY <1>4 DEF Good, Seen, Proven, Adopted, Ours
  <1>6. TypeOK'
    BY <1>2 DEF IInv, TypeOK
  <1>7. (Present /\ Stamped)'
    BY DEF IInv, Present, Stamped, Ours
  <1> QED
    BY <1>5, <1>6, <1>7 DEF IInv

\* a run that ends relies on nothing any more
LEMMA EndIsGood ==
    ASSUME IInv
    PROVE  /\ Good([Start EXCEPT !.pc = "end"])
           /\ \A p \in Runs, pc \in {"end", "read", "await"} :
                 Good([proc[p] EXCEPT !.pc = pc])
  <1>1. Good([Start EXCEPT !.pc = "end"])
    <2> DEFINE t == [Start EXCEPT !.pc = "end"]
    <2>1. /\ t \in Procs /\ t.pc = "end" /\ t.uid = 0
          /\ t.stayed = {} /\ t.leases = {}
      BY StartFacts, StepFacts DEF Steps
    <2>2. uid \in Nat
      BY GateAssumption DEF IInv, TypeOK
    <2> HIDE DEF t
    <2>3. Seen(t) /\ Proven(t) /\ Adopted(t)
      BY <2>1, <2>2 DEF Seen, Proven, Adopted, ReliesOn, Reading
    <2> QED
      BY <2>1, <2>3 DEF Good, t
  <1>2. ASSUME NEW p \in Runs, NEW pc \in {"end", "read", "await"}
        PROVE  Good([proc[p] EXCEPT !.pc = pc])
    <2> DEFINE t == [proc[p] EXCEPT !.pc = pc]
    <2>1. Good(proc[p]) /\ proc[p] \in Procs
      BY DEF IInv, Good
    <2>2. t \in Procs
      BY <2>1, StepFacts DEF Steps
    <2>3. t.pc = pc /\ t.stayed = proc[p].stayed /\ t.uid = proc[p].uid
      BY <2>1, StepFacts DEF Steps
    <2> HIDE DEF t
    <2>4. Seen(t) /\ Proven(t) /\ Adopted(t)
      BY <2>1, <2>3 DEF Good, Seen, Proven, Adopted, ReliesOn, Reading
    <2> QED
      BY <2>2, <2>4 DEF Good, t
  <1> QED
    BY <1>1, <1>2

LEMMA EndGateKeeps ==
    ASSUME IInv, NEW p \in Runs, EndGate(p),
           UNCHANGED <<ns, uid, content, objects>>
    PROVE  IInv'
  BY OwnStep, EndIsGood DEF EndGate

LEMMA GotoKeeps ==
    ASSUME IInv, NEW p \in Runs, NEW pc \in {"end", "read", "await"},
           Goto(p, pc), UNCHANGED <<ns, uid, content, objects>>
    PROVE  IInv'
  BY OwnStep, EndIsGood DEF Goto

LEMMA ReadOwnerKeeps ==
    ASSUME IInv, NEW p \in Runs, ReadOwner(p)
    PROVE  IInv'
  <1> DEFINE t == [proc[p] EXCEPT !.owned = ns.stamp,
                      !.pc = IF ns.state = "absent" THEN "end" ELSE "patch"]
  <1>1. Good(proc[p]) /\ proc[p] \in Procs /\ ns.stamp \in BOOLEAN
    BY DEF IInv, Good, TypeOK, NamespaceStates
  <1>2. t \in Procs
    BY <1>1 DEF Procs, Steps
  <1>3. /\ t.stayed = proc[p].stayed /\ t.uid = proc[p].uid
        /\ t.owned = ns.stamp /\ t.pc \in {"end", "patch"}
    BY <1>1 DEF Procs
  <1> HIDE DEF t
  <1>4. Seen(t) /\ Proven(t)
    BY <1>1, <1>3 DEF Good, Seen, Proven, Reading
  <1>5. Adopted(t)
    BY <1>3 DEF IInv, Stamped, Adopted, ReliesOn, Reading
  <1>6. Set(p, t)
    BY DEF ReadOwner, t
  <1> QED
    BY <1>2, <1>4, <1>5, <1>6, OwnStep DEF Good, ReadOwner

LEMMA ReadKeeps ==
    ASSUME IInv, NEW p \in Runs, Read(p)
    PROVE  IInv'
  <1>1. CASE ~StampedByUs
    BY <1>1, EndGateKeeps DEF Read
  <1>2. CASE StampedByUs
    <2> DEFINE t == [proc[p] EXCEPT !.pc = "list", !.uid = ns.uid,
                        !.todo = Kinds, !.stayed = content]
    <2>1. Good(proc[p]) /\ proc[p] \in Procs
      BY DEF IInv, Good
    <2>2. content \subseteq Objects /\ ns.uid \in 0..MaxUid /\ ns.uid <= uid
      BY DEF IInv, TypeOK, NamespaceStates
    <2>3. t \in Procs
      BY <2>1, <2>2 DEF Procs, Steps
    <2>4. /\ t.pc = "list" /\ t.uid = ns.uid /\ t.todo = Kinds
          /\ t.stayed = content
      BY <2>1 DEF Procs
    <2>5. Set(p, t)
      BY <1>2 DEF Read
    <2> HIDE DEF t
    <2>6. Seen(t)
      BY <2>2, <2>4 DEF Seen, Objects, Reading
    <2>7. Proven(t)
      BY <2>2, <2>4 DEF Proven
    <2>8. Adopted(t)
      BY <1>2 DEF StampedByUs, IInv, Stamped, Adopted
    <2> QED
      BY <2>3, <2>5, <2>6, <2>7, <2>8, OwnStep DEF Good, Read
  <1> QED
    BY <1>1, <1>2

\* a run that moves on between its reads, with fewer occupants to fear
LEMMA ReadingOn ==
    ASSUME IInv, NEW p \in Runs, proc[p].pc \in Reading, NEW t \in Procs,
           t.pc \in Reading \ {"deleteByUid"},
           t.uid = proc[p].uid, t.stayed = proc[p].stayed, Seen(t)
    PROVE  Good(t)
  <1>1. Good(proc[p])
    BY DEF IInv
  <1>2. Proven(t)
    BY <1>1 DEF Good, Proven, Reading
  <1>3. Adopted(t)
    BY <1>1 DEF Good, Adopted, ReliesOn
  <1> QED
    BY <1>2, <1>3 DEF Good

LEMMA ListKeeps ==
    ASSUME IInv, NEW p \in Runs, NEW k \in Kinds, List(p, k)
    PROVE  IInv'
  <1> DEFINE Next1 == [proc[p] EXCEPT !.todo = @ \ {k}]
             Next2 == [proc[p] EXCEPT !.claims = TRUE, !.todo = Kinds \ {Claim}]
  <1>1. Good(proc[p]) /\ proc[p] \in Procs /\ proc[p].pc = "list"
    BY DEF IInv, Good, List, At
  <1>2. UNCHANGED <<ns, uid, content, objects>>
    BY DEF List
  <1>3. \A o \in proc[p].stayed : o \in content /\ o.kind \in Kinds
    BY <1>1 DEF Good, Seen, IInv, TypeOK, Objects
  <1>4. CASE Of(k) = {} /\ Set(p, Next1)
    <2>1. Next1 \in Procs
      BY <1>1 DEF Procs
    <2>2. /\ Next1.pc = "list" /\ Next1.uid = proc[p].uid
          /\ Next1.stayed = proc[p].stayed /\ Next1.claims = proc[p].claims
          /\ Next1.todo = proc[p].todo \ {k}
      BY <1>1 DEF Procs
    <2> HIDE DEF Next1
    <2>3. \A o \in proc[p].stayed : o.kind # k
      BY <1>3, <1>4 DEF Of
    <2>4. Seen(Next1)
      BY <1>1, <2>2, <2>3 DEF Good, Seen, Reading
    <2>5. Good(Next1)
      BY <1>1, <2>1, <2>2, <2>4, ReadingOn DEF Reading
    <2> QED
      BY <1>2, <1>4, <2>5, OwnStep
  <1>5. CASE Set(p, Next2)
    <2>1. Next2 \in Procs
      BY <1>1 DEF Procs
    <2>2. /\ Next2.pc = "list" /\ Next2.uid = proc[p].uid
          /\ Next2.stayed = proc[p].stayed /\ Next2.claims = TRUE
          /\ Next2.todo = Kinds \ {Claim}
      BY <1>1 DEF Procs
    <2> HIDE DEF Next2
    <2>3. Seen(Next2)
      BY <1>1, <1>3, <2>2 DEF Good, Seen, Reading
    <2>4. Good(Next2)
      BY <1>1, <2>1, <2>2, <2>3, ReadingOn DEF Reading
    <2> QED
      BY <1>2, <1>5, <2>4, OwnStep
  <1>6. CASE EndGate(p)
    BY <1>2, <1>6, EndGateKeeps
  <1> QED
    BY <1>4, <1>5, <1>6 DEF List

LEMMA EmptyKeeps ==
    ASSUME IInv, NEW p \in Runs, Empty(p)
    PROVE  IInv'
  <1> DEFINE pc == IF proc[p].claims THEN "listClaims" ELSE "deleteByName"
             t == [proc[p] EXCEPT !.pc = pc]
  <1>1. Good(proc[p]) /\ proc[p] \in Procs
    BY DEF IInv, Good
  <1>2. proc[p].pc = "list" /\ proc[p].todo = {}
    BY DEF Empty, At
  <1>3. \A o \in proc[p].stayed : o.kind = Claim
    BY <1>1, <1>2 DEF Good, Seen
  <1>4. t \in Procs
    BY <1>1 DEF Procs, Steps
  <1>5. /\ t.pc \in {"listClaims", "deleteByName"} /\ t.uid = proc[p].uid
        /\ t.stayed = proc[p].stayed
    BY <1>1 DEF Procs
  <1>6. Set(p, t) /\ UNCHANGED <<ns, uid, content, objects>>
    BY DEF Empty, Goto
  <1> HIDE DEF t
  <1>7. Seen(t)
    BY <1>1, <1>3, <1>5 DEF Good, Seen
  <1>8. Good(t)
    BY <1>2, <1>4, <1>5, <1>7, ReadingOn DEF Reading
  <1> QED
    BY <1>6, <1>8, OwnStep

LEMMA ListClaimsKeeps ==
    ASSUME IInv, NEW p \in Runs, ListClaims(p)
    PROVE  IInv'
  <1> DEFINE t == [proc[p] EXCEPT !.pc = "deleteByUid", !.leases = Of(Claim)]
  <1>1. Good(proc[p]) /\ proc[p] \in Procs /\ proc[p].pc = "listClaims"
    BY DEF IInv, Good, ListClaims, At
  <1>2. /\ content \subseteq Objects /\ ns.uid \in 0..MaxUid /\ ns.uid <= uid
        /\ \A o \in content : o.inside = ns.uid
        /\ ns.state = "absent" => content = {}
    BY DEF IInv, TypeOK, NamespaceStates
  <1>3. Of(Claim) \subseteq content
    BY DEF Of
  <1>4. t \in Procs
    BY <1>1, <1>2, <1>3 DEF Procs, Steps
  <1>5. /\ t.pc = "deleteByUid" /\ t.uid = proc[p].uid
        /\ t.stayed = proc[p].stayed /\ t.leases = Of(Claim)
    BY <1>1 DEF Procs
  <1>6. Set(p, t) /\ UNCHANGED <<ns, uid, content, objects>>
    BY DEF ListClaims
  <1> HIDE DEF t
  <1>7. Seen(t)
    BY <1>1, <1>5 DEF Good, Seen, Reading
  <1>8. \A l \in t.leases : ns.state # "absent" /\ l.inside = ns.uid
    BY <1>2, <1>3, <1>5
  <1>9. Proven(t)
    BY <1>1, <1>2, <1>5, <1>8 DEF Good, Proven, Reading
  <1>10. Adopted(t)
    BY <1>1 DEF Good, Adopted, ReliesOn, Reading
  <1> QED
    BY <1>4, <1>6, <1>7, <1>9, <1>10, OwnStep DEF Good

-----------------------------------------------------------------------------
(* Steps that change the Namespace                                         *)

\* what a deletion request leaves
LEMMA TerminatedFacts ==
    ASSUME IInv
    PROVE  /\ Terminated \in NamespaceStates
           /\ Terminated.uid = ns.uid /\ Terminated.stamp = ns.stamp
           /\ Terminated.by = ns.by /\ Terminated.swapped = ns.swapped
           /\ Terminated.state = "absent" <=> ns.state = "absent"
           /\ ns.state = "absent" => Terminated = ns
  <1>1. ns \in NamespaceStates
    BY DEF IInv, TypeOK
  <1> QED
    BY <1>1 DEF Terminated, NamespaceStates

\* a deletion request keeps what the runs have read
LEMMA TerminatedKeeps ==
    ASSUME IInv, ns' = Terminated, UNCHANGED <<uid, content, objects, proc>>
    PROVE  IInv'
  <1>1. /\ ns' \in NamespaceStates
        /\ ns'.uid = ns.uid /\ ns'.stamp = ns.stamp
        /\ ns'.by = ns.by /\ ns'.swapped = ns.swapped
        /\ ns'.state = "absent" <=> ns.state = "absent"
        /\ ns.state = "absent" => ns' = ns
    BY TerminatedFacts
  <1>2. TypeOK'
    BY <1>1 DEF IInv, TypeOK
  <1>3. (Present /\ Stamped)'
    BY <1>1 DEF IInv, Present, Stamped, Ours
  <1>4. ASSUME NEW q \in Runs PROVE Good(proc[q])'
    <2>1. Good(proc[q])
      BY DEF IInv
    <2> QED
      BY <1>1, <2>1 DEF Good, Seen, Proven, Adopted, Ours
  <1> QED
    BY <1>2, <1>3, <1>4 DEF IInv

\* a run that sends one moves on, to a state good for the Namespace before it
LEMMA TerminatedStep ==
    ASSUME IInv, NEW p \in Runs, NEW t, Good(t), Set(p, t),
           ns' = Terminated, UNCHANGED <<uid, content, objects>>
    PROVE  IInv'
  <1>1. /\ ns' \in NamespaceStates
        /\ ns'.uid = ns.uid /\ ns'.stamp = ns.stamp
        /\ ns'.by = ns.by /\ ns'.swapped = ns.swapped
        /\ ns'.state = "absent" <=> ns.state = "absent"
        /\ ns.state = "absent" => ns' = ns
    BY TerminatedFacts
  <1>2. proc \in [Runs -> Procs] /\ t \in Procs
    BY DEF IInv, TypeOK, Good
  <1>3. proc' \in [Runs -> Procs]
    BY <1>2 DEF Set
  <1>4. \A q \in Runs : proc'[q] = IF q = p THEN t ELSE proc[q]
    BY <1>2 DEF Set
  <1>5. \A q \in Runs : Good(proc'[q])
    BY <1>4 DEF IInv
  <1>6. ASSUME NEW q \in Runs PROVE Good(proc[q])'
    <2>1. Good(proc'[q])
      BY <1>5
    <2> QED
      BY <1>1, <2>1 DEF Good, Seen, Proven, Adopted, Ours
  <1>7. TypeOK'
    BY <1>1, <1>3 DEF IInv, TypeOK
  <1>8. (Present /\ Stamped)'
    BY <1>1 DEF IInv, Present, Stamped, Ours
  <1> QED
    BY <1>6, <1>7, <1>8 DEF IInv

LEMMA DeleteByNameKeeps ==
    ASSUME IInv, NEW p \in Runs, DeleteByName(p)
    PROVE  IInv'
  BY TerminatedStep, EndIsGood DEF DeleteByName, Goto

(* The claims were captured when the Namespace had the uid it has now.     *)
LEMMA DeleteByUidKeeps ==
    ASSUME IInv, NEW p \in Runs, DeleteByUid(p)
    PROVE  IInv'
  <1>1. CASE ~SameUid(p)
    BY <1>1, EndGateKeeps DEF DeleteByUid
  <1>2. CASE SameUid(p)
    <2> DEFINE t == [proc[p] EXCEPT !.pc = "deleteClaims"]
    <2>1. Good(proc[p]) /\ proc[p] \in Procs /\ proc[p].pc = "deleteByUid"
      BY DEF IInv, Good, DeleteByUid, At
    <2>2. /\ t \in Procs /\ t.pc = "deleteClaims" /\ t.uid = proc[p].uid
          /\ t.leases = proc[p].leases /\ t.stayed = proc[p].stayed
      BY <2>1, StepFacts DEF Steps
    <2>3. /\ Set(p, t) /\ ns' = Terminated
          /\ UNCHANGED <<uid, content, objects>>
      BY <1>2 DEF DeleteByUid, Goto
    <2> HIDE DEF t
    <2>4. ASSUME NEW l \in t.leases PROVE l.inside = t.uid
      <3>1. /\ t.uid <= l.inside /\ l.inside <= ns.uid /\ ns.uid = t.uid
        BY <1>2, <2>1, <2>2 DEF Good, Proven, SameUid
      <3>2. l.inside \in Nat /\ t.uid \in Nat
        BY <2>2, GateAssumption DEF Procs, Objects
      <3> QED
        BY <3>1, <3>2
    <2>5. Seen(t) /\ Proven(t) /\ Adopted(t)
      BY <2>1, <2>2, <2>4
      DEF Good, Seen, Proven, Adopted, ReliesOn, Reading
    <2> QED
      BY <2>2, <2>3, <2>5, TerminatedStep DEF Good
  <1> QED
    BY <1>1, <1>2

(* The Namespace is created anew: it is empty and its uid is the newest,   *)
(* so nothing that was read before is contradicted; and whoever relies on  *)
(* the old one makes it a swapped one.                                     *)
LEMMA CreatedFacts ==
    ASSUME IInv, NEW who \in {"us", "other"}, NEW stamp \in BOOLEAN, uid < MaxUid
    PROVE  /\ Created(who, stamp) \in NamespaceStates
           /\ Created(who, stamp).state = "live"
           /\ Created(who, stamp).uid = uid + 1
           /\ Created(who, stamp).stamp = stamp
           /\ who = "us" => Created(who, stamp).by = "us"
           /\ (\E p \in Runs : Relies(p)) /\ who = "other"
              => Created(who, stamp).swapped
  <1>1. uid \in 0..MaxUid /\ uid + 1 \in 0..MaxUid
    BY GateAssumption DEF IInv, TypeOK
  <1>2. (\E p \in Runs : Relies(p)) \in BOOLEAN
    OBVIOUS
  <1> QED
    BY <1>1, <1>2 DEF Created, NamespaceStates

LEMMA CreatedKeeps ==
    ASSUME IInv, ns.state = "absent", uid < MaxUid, uid' = uid + 1,
           NEW who \in {"us", "other"}, NEW stamp \in BOOLEAN,
           who = "other" => ~stamp,
           ns' = Created(who, stamp), UNCHANGED <<content, objects>>,
           proc' \in [Runs -> Procs],
           \A q \in Runs : /\ Good(proc'[q])
                           /\ ReliesOn(proc'[q]) => Relies(q)
    PROVE  IInv'
  <1>1. /\ ns' \in NamespaceStates /\ ns'.state = "live"
        /\ ns'.uid = uid' /\ ns'.stamp = stamp
        /\ who = "us" => ns'.by = "us"
        /\ (\E p \in Runs : Relies(p)) /\ who = "other" => ns'.swapped
    BY CreatedFacts
  <1>2. uid \in 0..MaxUid /\ uid' \in 1..MaxUid /\ uid < uid'
    BY GateAssumption DEF IInv, TypeOK
  <1>3. content = {} /\ content' = {}
    BY DEF IInv, TypeOK
  <1>4. TypeOK'
    BY <1>1, <1>2, <1>3 DEF IInv, TypeOK
  <1>5. Present'
    BY <1>1, <1>2 DEF Present
  <1>6. Stamped'
    BY <1>1 DEF Stamped, Ours
  <1>7. ASSUME NEW q \in Runs PROVE Good(proc[q])'
    <2>1. Good(proc'[q]) /\ proc'[q] \in Procs
      BY DEF Good
    <2>2. Seen(proc[q])'
      BY <1>3, <2>1 DEF Good, Seen
    <2>3. Proven(proc[q])'
      <3>1. proc'[q].uid \in Nat /\ proc'[q].uid <= uid
        BY <2>1, GateAssumption DEF Good, Proven, Procs
      <3>2. proc'[q].uid <= uid' /\ proc'[q].uid <= ns'.uid
        BY <1>1, <1>2, <3>1, GateAssumption
      <3>3. ASSUME proc'[q].pc = "deleteByUid", NEW l \in proc'[q].leases
            PROVE  /\ proc'[q].uid <= l.inside /\ l.inside <= uid'
                   /\ l.inside <= ns'.uid
        <4>1. l.inside \in Nat /\ l.inside <= uid /\ proc'[q].uid <= l.inside
          BY <2>1, <3>3, GateAssumption DEF Good, Proven, Procs, Objects
        <4> QED
          BY <1>1, <1>2, <4>1, GateAssumption
      <3>4. ASSUME proc'[q].pc = "deleteClaims", NEW l \in proc'[q].leases
            PROVE  l.inside = proc'[q].uid
        BY <2>1, <3>4 DEF Good, Proven
      <3> QED
        BY <3>2, <3>3, <3>4 DEF Proven
    <2>4. Adopted(proc[q])'
      BY <1>1 DEF Adopted, Ours, ReliesOn
    <2> QED
      BY <2>1, <2>2, <2>3, <2>4 DEF Good
  <1> QED
    BY <1>4, <1>5, <1>6, <1>7 DEF IInv

\* a run that ends while the Namespace is created
LEMMA CreatedByRunKeeps ==
    ASSUME IInv, NEW p \in Runs, ns.state = "absent", uid < MaxUid,
           uid' = uid + 1, NEW stamp \in BOOLEAN, ns' = Created("us", stamp),
           Goto(p, "end"), UNCHANGED <<content, objects>>
    PROVE  IInv'
  <1> DEFINE t == [proc[p] EXCEPT !.pc = "end"]
  <1>1. proc \in [Runs -> Procs] /\ t \in Procs /\ t.pc = "end" /\ Good(t)
    BY StepFacts, EndIsGood DEF IInv, TypeOK, Steps
  <1>2. proc' \in [Runs -> Procs]
    BY <1>1 DEF Goto, Set
  <1>3. \A q \in Runs : proc'[q] = IF q = p THEN t ELSE proc[q]
    BY <1>1 DEF Goto, Set
  <1> HIDE DEF t
  <1>4. \A q \in Runs : Good(proc'[q]) /\ (ReliesOn(proc'[q]) => Relies(q))
    BY <1>1, <1>3 DEF IInv, ReliesOn, Relies, Reading, At
  <1> QED
    BY <1>2, <1>4, CreatedKeeps

LEMMA CreateKeeps ==
    ASSUME IInv, NEW p \in Runs, Create(p)
    PROVE  IInv'
  <1>1. CASE ns.state = "absent"
    BY <1>1, CreatedByRunKeeps DEF Create
  <1>2. CASE ns.state # "absent"
    BY <1>2, GotoKeeps DEF Create
  <1> QED
    BY <1>1, <1>2

(* A deployment stamps only a Namespace that it found stamped: one that    *)
(* took its place since then is a swapped one.                             *)
LEMMA PatchKeeps ==
    ASSUME IInv, NEW p \in Runs, Patch(p)
    PROVE  IInv'
  <1>1. Good(proc[p]) /\ proc[p] \in Procs /\ proc[p].pc = "patch"
    BY DEF IInv, Good, Patch, At
  <1>2. proc[p].owned \in BOOLEAN
    BY <1>1 DEF Procs
  <1>3. CASE ns.state = "absent"
    BY <1>2, <1>3, CreatedByRunKeeps DEF Patch
  <1>4. CASE ns.state # "absent"
    <2> DEFINE t == [proc[p] EXCEPT !.pc = "end"]
    <2>1. ns \in NamespaceStates /\ proc \in [Runs -> Procs]
      BY DEF IInv, TypeOK
    <2>2. /\ ns' = [ns EXCEPT !.stamp = @ \/ proc[p].owned]
          /\ UNCHANGED <<uid, content, objects>> /\ Set(p, t)
      BY <1>4 DEF Patch, Goto
    <2>3. /\ ns' \in NamespaceStates
          /\ ns'.uid = ns.uid /\ ns'.state = ns.state
          /\ ns'.by = ns.by /\ ns'.swapped = ns.swapped
          /\ ns'.stamp = (ns.stamp \/ proc[p].owned)
      BY <1>2, <2>1, <2>2 DEF NamespaceStates
    <2>4. t \in Procs /\ Good(t)
      BY <2>1, StepFacts, EndIsGood DEF Steps
    <2>5. proc' \in [Runs -> Procs]
      BY <2>1, <2>2, <2>4 DEF Set
    <2>6. \A q \in Runs : proc'[q] = IF q = p THEN t ELSE proc[q]
      BY <2>1, <2>2 DEF Set
    <2>7. \A q \in Runs : Good(proc'[q])
      BY <2>4, <2>6 DEF IInv
    <2>8. ASSUME NEW q \in Runs PROVE Good(proc[q])'
      <3>1. Good(proc'[q])
        BY <2>7
      <3> QED
        BY <2>2, <2>3, <3>1 DEF Good, Seen, Proven, Adopted, Ours
    <2>9. TypeOK'
      BY <1>4, <2>2, <2>3, <2>5 DEF IInv, TypeOK
    <2>10. Present'
      BY <2>2, <2>3 DEF IInv, Present
    <2>11. Stamped'
      BY <1>1, <1>4, <2>3
      DEF IInv, Stamped, Ours, Good, Adopted, ReliesOn
    <2> QED
      BY <2>8, <2>9, <2>10, <2>11 DEF IInv
  <1> QED
    BY <1>3, <1>4

LEMMA OtherCreatesKeeps ==
    ASSUME IInv, OtherCreates
    PROVE  IInv'
  <1>1. \A q \in Runs : Good(proc[q]) /\ (ReliesOn(proc[q]) => Relies(q))
    BY DEF IInv, ReliesOn, Relies, Reading, At
  <1>2. proc' = proc /\ proc \in [Runs -> Procs]
    BY DEF OtherCreates, IInv, TypeOK
  <1> QED
    BY <1>1, <1>2, CreatedKeeps DEF OtherCreates

-----------------------------------------------------------------------------
(* Steps that change the content                                           *)

LEMMA PutKeeps ==
    ASSUME IInv, NEW k \in Kinds, Put(k)
    PROVE  IInv'
  <1> DEFINE o == [kind |-> k, id |-> objects + 1, inside |-> ns.uid]
  <1>1. UNCHANGED <<ns, uid, proc>> /\ content' = content \cup {o}
    BY DEF Put
  <1>2. ns.uid \in 1..MaxUid
    BY GateAssumption DEF Put, IInv, TypeOK, Present
  <1>3. objects + 1 \in 1..MaxObjects /\ objects' \in 0..MaxObjects
    BY GateAssumption DEF Put, IInv, TypeOK
  <1>4. o \in Objects /\ o.inside = ns.uid
    BY <1>2, <1>3 DEF Objects
  <1> HIDE DEF o
  <1>5. TypeOK'
    BY <1>1, <1>3, <1>4 DEF IInv, TypeOK, Put
  <1>6. (Present /\ Stamped)'
    BY <1>1 DEF IInv, Present, Stamped, Ours
  <1>7. ASSUME NEW q \in Runs PROVE Good(proc[q])'
    <2>1. Good(proc[q])
      BY DEF IInv
    <2> QED
      BY <1>1, <2>1 DEF Good, Seen, Proven, Adopted, Ours
  <1> QED
    BY <1>5, <1>6, <1>7 DEF IInv

\* objects leave the content, and with it what has stayed of it
LEMMA ShrinkKeeps ==
    ASSUME IInv, NEW H, content' = content \ H, UNCHANGED <<ns, uid, objects>>,
           NEW L, L \in [Runs -> SUBSET Objects],
           \A q \in Runs : L[q] \subseteq proc[q].leases,
           proc' = [q \in Runs |->
                      [proc[q] EXCEPT !.stayed = @ \ H, !.leases = L[q]]]
    PROVE  IInv'
  <1>1. proc \in [Runs -> Procs]
    BY DEF IInv, TypeOK
  <1>2. ASSUME NEW q \in Runs
        PROVE  /\ proc'[q] \in Procs
               /\ proc'[q].pc = proc[q].pc /\ proc'[q].uid = proc[q].uid
               /\ proc'[q].owned = proc[q].owned
               /\ proc'[q].todo = proc[q].todo
               /\ proc'[q].claims = proc[q].claims
               /\ proc'[q].stayed = proc[q].stayed \ H
               /\ proc'[q].leases = L[q]
    <2>1. proc[q] \in Procs /\ L[q] \in SUBSET Objects
      BY <1>1
    <2>2. proc'[q] = [proc[q] EXCEPT !.stayed = @ \ H, !.leases = L[q]]
      OBVIOUS
    <2> QED
      BY <2>1, <2>2 DEF Procs
  <1>3. proc' \in [Runs -> Procs]
    BY <1>2
  <1>4. TypeOK'
    BY <1>3 DEF IInv, TypeOK
  <1>5. (Present /\ Stamped)'
    BY DEF IInv, Present, Stamped, Ours
  <1>6. ASSUME NEW q \in Runs PROVE Good(proc[q])'
    <2>1. Good(proc[q])
      BY DEF IInv
    <2>2. L[q] \subseteq proc[q].leases
      OBVIOUS
    <2>3. Seen(proc[q])'
      <3>1. proc'[q].stayed = proc[q].stayed \ H
        BY <1>2
      <3>2. proc'[q].stayed \subseteq content'
        BY <2>1, <3>1 DEF Good, Seen
      <3>3. proc'[q].stayed \subseteq proc[q].stayed
        BY <3>1
      <3>4. proc'[q].pc = "list" =>
               \A o \in proc'[q].stayed :
                  o.kind \in proc'[q].todo \/ (proc'[q].claims /\ o.kind = Claim)
        BY <1>2, <2>1, <3>3 DEF Good, Seen
      <3>5. proc'[q].pc \in Reading \ {"list"} =>
               \A o \in proc'[q].stayed : o.kind = Claim
        BY <1>2, <2>1, <3>3 DEF Good, Seen
      <3> QED
        BY <3>2, <3>4, <3>5 DEF Seen
    <2>4. Proven(proc[q])'
      BY <1>2, <2>1, <2>2 DEF Good, Proven
    <2>5. Adopted(proc[q])'
      BY <1>2, <2>1 DEF Good, Adopted, ReliesOn, Ours
    <2> QED
      BY <1>2, <2>3, <2>4, <2>5 DEF Good
  <1> QED
    BY <1>4, <1>5, <1>6 DEF IInv

LEMMA RemoveKeeps ==
    ASSUME IInv, NEW o \in content, Remove(o)
    PROVE  IInv'
  <1> DEFINE L == [q \in Runs |-> proc[q].leases]
  <1>1. \A q \in Runs : proc[q] \in Procs
    BY DEF IInv, TypeOK
  <1>2. L \in [Runs -> SUBSET Objects]
    BY <1>1 DEF Procs
  <1>3. \A q \in Runs : [proc[q] EXCEPT !.stayed = @ \ {o}]
                        = [proc[q] EXCEPT !.stayed = @ \ {o}, !.leases = L[q]]
    BY <1>1 DEF Procs
  <1>4. proc' = [q \in Runs |->
                   [proc[q] EXCEPT !.stayed = @ \ {o}, !.leases = L[q]]]
    BY <1>3 DEF Remove
  <1> HIDE DEF L
  <1>5. \A q \in Runs : L[q] \subseteq proc[q].leases
    BY DEF L
  <1>6. content' = content \ {o} /\ UNCHANGED <<ns, uid, objects>>
    BY DEF Remove
  <1> DEFINE H == {o}
  <1>7. /\ content' = content \ H
        /\ proc' = [q \in Runs |->
                      [proc[q] EXCEPT !.stayed = @ \ H, !.leases = L[q]]]
    BY <1>4, <1>6
  <1> HIDE DEF H
  <1> QED
    BY <1>2, <1>5, <1>6, <1>7, ShrinkKeeps

LEMMA DeleteClaimKeeps ==
    ASSUME IInv, NEW p \in Runs, NEW l, DeleteClaim(p, l)
    PROVE  IInv'
  <1> DEFINE H == {o \in content : SameClaim(o, l)}
             L == [q \in Runs |-> IF q = p THEN proc[q].leases \ {l}
                                  ELSE proc[q].leases]
  <1>1. \A q \in Runs : proc[q] \in Procs
    BY DEF IInv, TypeOK
  <1>2. L \in [Runs -> SUBSET Objects]
    BY <1>1 DEF Procs
  <1>3. \A q \in Runs :
           [proc[q] EXCEPT !.stayed = @ \ H,
               !.leases = IF q = p THEN @ \ {l} ELSE @]
           = [proc[q] EXCEPT !.stayed = @ \ H, !.leases = L[q]]
    BY <1>1 DEF Procs
  <1>4. proc' = [q \in Runs |->
                   [proc[q] EXCEPT !.stayed = @ \ H, !.leases = L[q]]]
    BY <1>3 DEF DeleteClaim
  <1>5. \A q \in Runs : L[q] \subseteq proc[q].leases
    OBVIOUS
  <1>6. content' = content \ H /\ UNCHANGED <<ns, uid, objects>>
    BY DEF DeleteClaim
  <1> HIDE DEF L, H
  <1> QED
    BY <1>2, <1>4, <1>5, <1>6, ShrinkKeeps

\* with the Namespace everything in it is gone
LEMMA FinalizeKeeps ==
    ASSUME IInv, Finalize
    PROVE  IInv'
  <1>1. /\ ns' = Gone /\ content' = {} /\ UNCHANGED <<uid, objects>>
        /\ ns'.state = "absent" /\ ns'.uid = 0 /\ ~ns'.stamp
    BY DEF Finalize, Gone
  <1>2. ASSUME NEW q \in Runs
        PROVE  /\ proc'[q] \in Procs /\ proc'[q].stayed = {}
               /\ proc'[q].pc = proc[q].pc /\ proc'[q].uid = proc[q].uid
               /\ proc'[q].leases = proc[q].leases
    <2>1. proc[q] \in Procs
      BY DEF IInv, TypeOK
    <2>2. proc'[q] = [proc[q] EXCEPT !.stayed = {}]
      BY DEF Finalize
    <2> QED
      BY <2>1, <2>2 DEF Procs
  <1>3. proc' \in [Runs -> Procs]
    <2>1. proc' = [q \in Runs |-> [proc[q] EXCEPT !.stayed = {}]]
      BY DEF Finalize
    <2> QED
      BY <1>2, <2>1
  <1>4. ns' \in NamespaceStates /\ uid \in 0..MaxUid /\ 0 <= uid
    BY <1>1, GateAssumption DEF Gone, NamespaceStates, IInv, TypeOK
  <1>5. TypeOK'
    BY <1>1, <1>3, <1>4 DEF IInv, TypeOK
  <1>6. (Present /\ Stamped)'
    BY <1>1 DEF Present, Stamped
  <1>7. ASSUME NEW q \in Runs PROVE Good(proc[q])'
    <2>1. Good(proc[q])
      BY DEF IInv
    <2>2. Seen(proc[q])'
      BY <1>1, <1>2 DEF Seen
    <2>3. Proven(proc[q])'
      BY <1>1, <1>2, <2>1 DEF Good, Proven
    <2>4. Adopted(proc[q])'
      BY <1>1 DEF Adopted
    <2> QED
      BY <1>2, <2>2, <2>3, <2>4 DEF Good
  <1> QED
    BY <1>5, <1>6, <1>7 DEF IInv

-----------------------------------------------------------------------------
(* The invariant                                                           *)

LEMMA GateStepKeeps ==
    ASSUME IInv, NEW p \in Deleters,
           \/ Read(p) \/ Empty(p) \/ GateFails(p) \/ DeleteByName(p)
           \/ ListClaims(p) \/ DeleteByUid(p) \/ ClaimsDeleted(p)
           \/ AwaitGone(p)
    PROVE  IInv'
  <1>1. p \in Runs
    BY DEF Runs
  <1>2. CASE Read(p)
    BY <1>1, <1>2, ReadKeeps
  <1>3. CASE Empty(p)
    BY <1>1, <1>3, EmptyKeeps
  <1>4. CASE GateFails(p)
    BY <1>1, <1>4, EndGateKeeps DEF GateFails
  <1>5. CASE DeleteByName(p)
    BY <1>1, <1>5, DeleteByNameKeeps
  <1>6. CASE ListClaims(p)
    BY <1>1, <1>6, ListClaimsKeeps
  <1>7. CASE DeleteByUid(p)
    BY <1>1, <1>7, DeleteByUidKeeps
  <1>8. CASE ClaimsDeleted(p)
    BY <1>1, <1>8, GotoKeeps DEF ClaimsDeleted
  <1>9. CASE AwaitGone(p)
    BY <1>1, <1>9, GotoKeeps DEF AwaitGone
  <1> QED
    BY <1>2, <1>3, <1>4, <1>5, <1>6, <1>7, <1>8, <1>9

LEMMA NextKeeps ==
    ASSUME IInv, [Next]_vars
    PROVE  IInv'
  <1>1. ASSUME NEW p \in Deployers, Create(p) \/ ReadOwner(p) \/ Patch(p)
        PROVE  IInv'
    BY <1>1, CreateKeeps, ReadOwnerKeeps, PatchKeeps DEF Runs
  <1>2. ASSUME NEW p \in Deleters, NEW k \in Kinds, List(p, k)
        PROVE  IInv'
    BY <1>2, ListKeeps DEF Runs
  <1>3. ASSUME NEW p \in Deleters, NEW l \in proc[p].leases, DeleteClaim(p, l)
        PROVE  IInv'
    BY <1>3, DeleteClaimKeeps DEF Runs
  <1>4. CASE OtherDeletes
    BY <1>4, TerminatedKeeps DEF OtherDeletes
  <1>5. CASE UNCHANGED vars
    <2>1. UNCHANGED <<ns, uid, content, objects, proc>>
      BY <1>5 DEF vars
    <2>2. ASSUME NEW q \in Runs PROVE Good(proc[q])'
      BY <2>1 DEF IInv, Good, Seen, Proven, Adopted, Ours
    <2> QED
      BY <2>1, <2>2 DEF IInv, TypeOK, Present, Stamped, Ours
  <1> QED
    BY <1>1, <1>2, <1>3, <1>4, <1>5, GateStepKeeps, OtherCreatesKeeps,
       FinalizeKeeps, PutKeeps, RemoveKeeps
    DEF Next

LEMMA Invariance == Spec => []IInv
  <1>1. IInv /\ [Next]_vars => IInv'
    BY NextKeeps
  <1> QED
    BY <1>1, InitGood, PTL DEF Spec

-----------------------------------------------------------------------------
(* The theorems                                                            *)

(* The types: with every deployment and deletion at any step, the content  *)
(* is in the Namespace that exists, and no run knows a newer incarnation.  *)
THEOREM TypeCorrect == Spec => []TypeOK
  <1>1. IInv => TypeOK
    BY DEF IInv
  <1> QED
    BY Invariance, <1>1, PTL

(* An object that was in the Namespace when the gate read it, and is still *)
(* there when the gate has it deleted, is a claim: no interleaving of the  *)
(* lists with what others put into the Namespace loses an occupant.        *)
THEOREM OccupantsAreSpared == Spec => OccupantsSpared
  <1> DEFINE Spares ==
                \A p \in Deleters : TakesDown(p) =>
                   \A o \in proc[p].stayed : o.kind = Claim
  <1>1. IInv /\ [Next]_vars => [Spares]_vars
    <2>1. ASSUME IInv, NEW p \in Deleters, TakesDown(p),
                 NEW o \in proc[p].stayed
          PROVE  o.kind = Claim
      <3>1. Good(proc[p])
        BY <2>1 DEF IInv, Runs
      <3>2. proc[p].pc \in Reading \ {"list"}
        BY <2>1 DEF TakesDown, Reading
      <3> QED
        BY <2>1, <3>1, <3>2 DEF Good, Seen
    <2> QED
      BY <2>1
  <1>2. OccupantsSpared <=> [][Spares]_vars
    BY DEF OccupantsSpared
  <1> QED
    BY Invariance, <1>1, <1>2, PTL DEF Spec

(* A claim that the gate deletes was in the very incarnation whose stamp   *)
(* the gate read: the uid of the deletion, the uids of the claims and the  *)
(* order of the requests leave no room for a Namespace made since.         *)
THEOREM ClaimsAreOfProvenNamespace == Spec => ClaimsOfProvenNamespace
  <1> DEFINE Proves ==
                \A p \in Deleters, l \in Objects :
                   /\ At(p, "deleteClaims") /\ proc'[p].leases # proc[p].leases
                   /\ l \in content \ content'
                   => l.inside = proc[p].uid
  <1>1. IInv /\ [Next]_vars => [Proves]_vars
    <2> SUFFICES ASSUME IInv, Next, NEW p \in Deleters, NEW l \in Objects,
                        At(p, "deleteClaims"),
                        proc'[p].leases # proc[p].leases,
                        l \in content \ content'
                 PROVE  l.inside = proc[p].uid
      BY DEF vars
    <2>1. l \in proc[p].leases
      <3> DEFINE Goal == l \in proc[p].leases
      <3>1. proc \in [Runs -> Procs] /\ p \in Runs
        BY DEF IInv, TypeOK, Runs
      <3>2. ASSUME content' = content PROVE Goal
        BY <3>2
      <3>3. ASSUME \A q \in Runs : proc'[q].leases = proc[q].leases PROVE Goal
        BY <3>1, <3>3
      <3>4. ASSUME NEW q \in Deleters, NEW c \in proc[q].leases,
                   DeleteClaim(q, c)
            PROVE  Goal
        <4>1. proc'[p] = [proc[p] EXCEPT
                             !.stayed = @ \ {o \in content : SameClaim(o, c)},
                             !.leases = IF p = q THEN @ \ {c} ELSE @]
          BY <3>1, <3>4 DEF DeleteClaim
        <4>2. proc[p] \in Procs
          BY <3>1
        <4>3. p = q
          BY <4>1, <4>2 DEF Procs
        <4>4. l = c
          BY <3>4 DEF DeleteClaim, SameClaim
        <4> QED
          BY <4>3, <4>4
      <3>5. ASSUME NEW o \in content, Remove(o) PROVE Goal
        <4>1. ASSUME NEW q \in Runs PROVE proc'[q].leases = proc[q].leases
          <5>1. proc'[q] = [proc[q] EXCEPT !.stayed = @ \ {o}]
            BY <3>5 DEF Remove
          <5>2. proc[q] \in Procs
            BY <3>1
          <5> QED
            BY <5>1, <5>2 DEF Procs
        <4> QED
          BY <3>3, <4>1
      <3>6. ASSUME Finalize PROVE Goal
        <4>1. ASSUME NEW q \in Runs PROVE proc'[q].leases = proc[q].leases
          <5>1. proc'[q] = [proc[q] EXCEPT !.stayed = {}]
            BY <3>6 DEF Finalize
          <5>2. proc[q] \in Procs
            BY <3>1
          <5> QED
            BY <5>1, <5>2 DEF Procs
        <4> QED
          BY <3>3, <4>1
      <3>7. ASSUME NEW k \in Kinds, Put(k) PROVE Goal
        BY <3>3, <3>7 DEF Put
      <3> HIDE DEF Goal
      <3>8. \/ content' = content
            \/ \E q \in Deleters : \E c \in proc[q].leases : DeleteClaim(q, c)
            \/ \E o \in content : Remove(o)
            \/ \E k \in Kinds : Put(k)
            \/ Finalize
        BY DEF Next, Create, ReadOwner, Patch, Read, Empty, GateFails,
               DeleteByName, ListClaims, DeleteByUid, ClaimsDeleted, AwaitGone,
               List, OtherCreates, OtherDeletes
      <3>9. Goal
        BY <3>2, <3>4, <3>5, <3>6, <3>7, <3>8
      <3> QED
        BY <3>9 DEF Goal
    <2>2. Good(proc[p])
      BY DEF IInv, Runs
    <2> QED
      BY <2>1, <2>2 DEF Good, Proven, At
  <1>2. ClaimsOfProvenNamespace <=> [][Proves]_vars
    BY DEF ClaimsOfProvenNamespace
  <1> QED
    BY Invariance, <1>1, <1>2, PTL DEF Spec

(* A Namespace created by somebody else is never taken down on the word of *)
(* an older stamp alone: only one that replaced the stamped Namespace while *)
(* a run was between its read and the write relying on it can be.          *)
THEOREM AdoptedAreKept == Spec => AdoptedKept
  <1> DEFINE Keeps ==
                \A p \in Deleters : TakesDown(p) => ns.by = "us" \/ ns.swapped
  <1>1. IInv /\ [Next]_vars => [Keeps]_vars
    <2>1. ASSUME IInv, NEW p \in Deleters, TakesDown(p)
          PROVE  ns.by = "us" \/ ns.swapped
      <3>1. Good(proc[p])
        BY <2>1 DEF IInv, Runs
      <3>2. proc[p].pc \in Reading /\ ns.state # "absent"
        BY <2>1 DEF TakesDown, Reading
      <3> QED
        BY <3>1, <3>2 DEF Good, Adopted, ReliesOn, Ours
    <2> QED
      BY <2>1
  <1>2. AdoptedKept <=> [][Keeps]_vars
    BY DEF AdoptedKept
  <1> QED
    BY Invariance, <1>1, <1>2, PTL DEF Spec
=============================================================================
