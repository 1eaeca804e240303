--------------------------- MODULE NamespaceGate ---------------------------
(***************************************************************************)
(* One Namespace name that deployments of an RGD apply, deletions of its   *)
(* instances tear down and others use: the create-first decision of        *)
(* ownership, and the deletion gated on ownership and emptiness.           *)
(*                                                                         *)
(* Ownership is the stamp created-by-rgd, put on the Namespace by the      *)
(* create; emptiness is read kind by kind.  Between these reads and the    *)
(* deletion the Namespace may be filled, or be deleted and created again   *)
(* under its name by somebody else.                                        *)
(*                                                                         *)
(* Abstractions: the objects that every Namespace has and the Events are   *)
(* no content; the stamp is this RGD's or none; a list of one kind is one  *)
(* request; a uid is a number that grows.                                  *)
(***************************************************************************)
EXTENDS Naturals, FiniteSets

CONSTANTS
    Deployers,   \* runs of applyRetainedHoistedNamespace
    Deleters,    \* runs of deleteNamespaceIfEmpty
    Kinds,       \* namespaced kinds that discovery finds
    Claim,       \* the kind PersistentVolumeClaim
    MaxUid,      \* bound: incarnations of the Namespace
    MaxObjects   \* bound: objects ever put into it

ASSUME GateAssumption ==
    /\ Claim \in Kinds /\ IsFiniteSet(Kinds)
    /\ Deployers \cap Deleters = {}
    /\ MaxUid \in Nat \ {0} /\ MaxObjects \in Nat

VARIABLES
    ns,        \* the Namespace
    uid,       \* uids given out
    content,   \* the objects in it
    objects,   \* number of objects ever made
    proc       \* proc[p]: where run p is, and what it has read

vars == <<ns, uid, content, objects, proc>>

-----------------------------------------------------------------------------
(* State and types                                                         *)

\* by: who created this incarnation; swapped: it was created by another
\* while a run was between its read and the write that relies on it
Gone == [state |-> "absent", uid |-> 0, stamp |-> FALSE, by |-> "nobody",
         swapped |-> FALSE]
NamespaceStates ==
    [state : {"absent", "live", "terminating"}, uid : 0..MaxUid,
     stamp : BOOLEAN, by : {"nobody", "us", "other"}, swapped : BOOLEAN]

Objects == [kind : Kinds, id : 1..MaxObjects, inside : 1..MaxUid]

Steps == {"start", "read", "patch",                             \* deployment
          "list", "deleteByName", "listClaims", "deleteByUid",  \* deletion
          "deleteClaims", "await", "end"}

Procs ==
    [pc     : Steps,
     uid    : 0..MaxUid,           \* live.metadata.uid
     owned  : BOOLEAN,             \* decision.owned
     todo   : SUBSET Kinds,        \* kinds that are still to be listed
     claims : BOOLEAN,             \* pvcIsOnlyKnownOccupant
     leases : SUBSET Objects,      \* pvcLeases
     \* history: content when the gate read the Namespace, still there
     stayed : SUBSET Objects]

Start == [pc |-> "start", uid |-> 0, owned |-> FALSE, todo |-> {},
          claims |-> FALSE, leases |-> {}, stayed |-> {}]

Runs == Deployers \cup Deleters

(* The states of all variables; the content is in the live incarnation.    *)
TypeOK ==
    /\ ns \in NamespaceStates /\ uid \in 0..MaxUid
    /\ content \subseteq Objects /\ objects \in 0..MaxObjects
    /\ proc \in [Runs -> Procs]
    /\ ns.uid <= uid
    /\ ns.state = "absent" => ns = Gone /\ content = {}
    /\ \A o \in content : o.inside = ns.uid

Init ==
    /\ ns \in {Gone,
               [state |-> "live", uid |-> 1, stamp |-> TRUE, by |-> "us",
                swapped |-> FALSE]}
    /\ uid = ns.uid
    /\ content = {} /\ objects = 0
    /\ proc = [p \in Runs |-> Start]

-----------------------------------------------------------------------------
(* applyRetainedHoistedNamespace                                           *)

At(p, pc) == proc[p].pc = pc
Set(p, t) == proc' = [proc EXCEPT ![p] = t]
Goto(p, pc) == Set(p, [proc[p] EXCEPT !.pc = pc])

\* a run relies on what it read of the Namespace
Relies(p) ==
    \/ At(p, "patch") /\ proc[p].owned
    \/ proc[p].pc \in {"list", "deleteByName", "listClaims", "deleteByUid"}

Created(who, stamp) ==
    [state |-> "live", uid |-> uid + 1, stamp |-> stamp, by |-> who,
     swapped |-> who = "other" /\ \E p \in Runs : Relies(p)]

\* create-first: 201 lands the stamp, 409 leads to the read
Create(p) ==
    /\ At(p, "start") /\ UNCHANGED <<content, objects>>
    /\ IF ns.state = "absent"
       THEN /\ uid < MaxUid /\ uid' = uid + 1
            /\ ns' = Created("us", TRUE) /\ Goto(p, "end")
       ELSE Goto(p, "read") /\ UNCHANGED <<ns, uid>>

\* owned iff a prior create stamped it; the Namespace may be gone by now
ReadOwner(p) ==
    /\ At(p, "read")
    /\ Set(p, [proc[p] EXCEPT !.owned = ns.stamp,
                  !.pc = IF ns.state = "absent" THEN "end" ELSE "patch"])
    /\ UNCHANGED <<ns, uid, content, objects>>

\* server-side apply, with the stamp if owned; it creates what is gone
Patch(p) ==
    /\ At(p, "patch") /\ Goto(p, "end")
    /\ IF ns.state = "absent"
       THEN /\ uid < MaxUid /\ uid' = uid + 1
            /\ ns' = Created("us", proc[p].owned)
       ELSE /\ ns' = [ns EXCEPT !.stamp = @ \/ proc[p].owned]
            /\ UNCHANGED uid
    /\ UNCHANGED <<content, objects>>

-----------------------------------------------------------------------------
(* deleteNamespaceIfEmpty                                                  *)

\* the deletion ends with the Namespace retained or absent, or throws
EndGate(p) == Set(p, [Start EXCEPT !.pc = "end"])

\* one read for existence, ownership and uid
StampedByAny == ns.state # "absent"
StampedByUs == ns.state # "absent" /\ ns.stamp

Read(p) ==
    /\ At(p, "start")
    /\ IF StampedByUs
       THEN Set(p, [proc[p] EXCEPT !.pc = "list", !.uid = ns.uid,
                       !.todo = Kinds, !.stayed = content])
       ELSE EndGate(p)
    /\ UNCHANGED <<ns, uid, content, objects>>

Of(k) == {o \in content : o.kind = k}

\* a classification that takes the other kinds as seen once a claim is found
ListOnce(p, k) ==
    LET t == proc[p]
    IN  /\ At(p, "list") /\ k \in t.todo
        /\ \/ Of(k) = {} /\ Set(p, [t EXCEPT !.todo = @ \ {k}])
           \/ /\ Of(k) # {} /\ k = Claim
              /\ Set(p, [t EXCEPT !.claims = TRUE, !.todo = {}])
           \/ Of(k) # {} /\ k # Claim /\ EndGate(p)
        /\ UNCHANGED <<ns, uid, content, objects>>

(* classifyNamespaceEmptiness, one kind: the first occupant decides.  When *)
(* it is a claim, all other kinds are classified again.                    *)
List(p, k) ==
    LET t == proc[p]
    IN  /\ At(p, "list") /\ k \in t.todo
        /\ \/ Of(k) = {} /\ Set(p, [t EXCEPT !.todo = @ \ {k}])
           \/ /\ Of(k) # {} /\ k = Claim
              /\ Set(p, [t EXCEPT !.claims = TRUE, !.todo = Kinds \ {Claim}])
           \/ Of(k) # {} /\ k # Claim /\ EndGate(p)
        /\ UNCHANGED <<ns, uid, content, objects>>

\* discovery, a list or another call fails: the Namespace is kept as it is
GateFails(p) ==
    /\ proc[p].pc \in {"list", "listClaims", "deleteByUid", "deleteClaims",
                       "deleteByName", "await"}
    /\ EndGate(p) /\ UNCHANGED <<ns, uid, content, objects>>

Empty(p) ==
    /\ At(p, "list") /\ proc[p].todo = {}
    /\ Goto(p, IF proc[p].claims THEN "listClaims" ELSE "deleteByName")
    /\ UNCHANGED <<ns, uid, content, objects>>

\* a deletion that is over when the request is answered
GoneAtOnce == [ns EXCEPT !.state = IF @ = "live" THEN "absent" ELSE @]

\* what a deletion request does; a precondition may have refused it
Terminated == [ns EXCEPT !.state = IF @ = "live" THEN "terminating" ELSE @]

\* an empty Namespace is deleted by its name, whichever it is by now
DeleteByName(p) ==
    /\ At(p, "deleteByName") /\ Goto(p, "await")
    /\ ns' = Terminated
    /\ UNCHANGED <<uid, content, objects>>

ListClaims(p) ==
    /\ At(p, "listClaims")
    /\ Set(p, [proc[p] EXCEPT !.pc = "deleteByUid", !.leases = Of(Claim)])
    /\ UNCHANGED <<ns, uid, content, objects>>

\* a Namespace with claims is deleted with its uid as a precondition
AnyUid(p) == ns.state # "absent"
SameUid(p) == ns.state # "absent" /\ ns.uid = proc[p].uid

DeleteByUid(p) ==
    /\ At(p, "deleteByUid")
    /\ IF SameUid(p) THEN ns' = Terminated /\ Goto(p, "deleteClaims")
       ELSE EndGate(p) /\ UNCHANGED ns
    /\ UNCHANGED <<uid, content, objects>>

\* every captured claim is deleted with its uid as a precondition
SameName(o, l) == o.kind = l.kind
SameClaim(o, l) == o = l

DeleteClaim(p, l) ==
    LET Hit == {o \in content : SameClaim(o, l)}
    IN  /\ At(p, "deleteClaims") /\ l \in proc[p].leases
        /\ content' = content \ Hit
        /\ proc' = [q \in Runs |->
                      [proc[q] EXCEPT !.stayed = @ \ Hit,
                          !.leases = IF q = p THEN @ \ {l} ELSE @]]
        /\ UNCHANGED <<ns, uid, objects>>

ClaimsDeleted(p) ==
    /\ At(p, "deleteClaims") /\ proc[p].leases = {} /\ Goto(p, "await")
    /\ UNCHANGED <<ns, uid, content, objects>>

\* the poll for a 404 goes by name
AwaitGone(p) ==
    /\ At(p, "await") /\ ns.state = "absent" /\ Goto(p, "end")
    /\ UNCHANGED <<ns, uid, content, objects>>

-----------------------------------------------------------------------------
(* Others and the cluster                                                  *)

OtherCreates ==
    /\ ns.state = "absent" /\ uid < MaxUid
    /\ ns' = Created("other", FALSE) /\ uid' = uid + 1
    /\ UNCHANGED <<content, objects, proc>>

OtherDeletes ==
    /\ ns.state = "live" /\ ns' = Terminated
    /\ UNCHANGED <<uid, content, objects, proc>>

\* nothing can be created in a Namespace that is being deleted
Put(k) ==
    /\ ns.state = "live" /\ objects < MaxObjects /\ objects' = objects + 1
    /\ content' = content \cup
          {[kind |-> k, id |-> objects + 1, inside |-> ns.uid]}
    /\ UNCHANGED <<ns, uid, proc>>

Remove(o) ==
    /\ o \in content /\ content' = content \ {o}
    /\ proc' = [q \in Runs |-> [proc[q] EXCEPT !.stayed = @ \ {o}]]
    /\ UNCHANGED <<ns, uid, objects>>

\* the Namespace controller deletes the content and the Namespace
Finalize ==
    /\ ns.state = "terminating" /\ ns' = Gone /\ content' = {}
    /\ proc' = [q \in Runs |-> [proc[q] EXCEPT !.stayed = {}]]
    /\ UNCHANGED <<uid, objects>>

Next ==
    \/ \E p \in Deployers : Create(p) \/ ReadOwner(p) \/ Patch(p)
    \/ \E p \in Deleters :
          \/ Read(p) \/ Empty(p) \/ GateFails(p) \/ DeleteByName(p)
          \/ ListClaims(p) \/ DeleteByUid(p) \/ ClaimsDeleted(p)
          \/ AwaitGone(p)
          \/ \E k \in Kinds : List(p, k)
          \/ \E l \in proc[p].leases : DeleteClaim(p, l)
    \/ OtherCreates \/ OtherDeletes \/ Finalize
    \/ \E k \in Kinds : Put(k)
    \/ \E o \in content : Remove(o)

Spec == Init /\ [][Next]_vars

-----------------------------------------------------------------------------
(* Properties                                                              *)

\* run p takes the Namespace down in this step
TakesDown(p) ==
    /\ proc[p].pc \in {"deleteByName", "deleteByUid"}
    /\ ns.state = "live" /\ ns'.state = "terminating"

(* What was in the Namespace when the gate read it, and has been there     *)
(* ever since, is never destroyed with it; only claims may be.  (The kinds *)
(* are listed one after the other, and again without the claims.)          *)
OccupantsSpared ==
    [][\A p \in Deleters : TakesDown(p) =>
          \A o \in proc[p].stayed : o.kind = Claim]_vars

(* A claim that the gate deletes was in the incarnation of the Namespace   *)
(* whose stamp it read: never a claim in a Namespace created since.        *)
ClaimsOfProvenNamespace ==
    [][\A p \in Deleters, l \in Objects :
          /\ At(p, "deleteClaims") /\ proc'[p].leases # proc[p].leases
          /\ l \in content \ content'
          => l.inside = proc[p].uid]_vars

(* A Namespace that somebody else created is taken down only if it was     *)
(* created while a run stood between its read and the write that relies    *)
(* on it: a deletion, or a deployment that then stamps it.                 *)
AdoptedKept ==
    [][\A p \in Deleters : TakesDown(p) => ns.by = "us" \/ ns.swapped]_vars
=============================================================================
