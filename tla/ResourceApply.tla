--------------------------- MODULE ResourceApply ---------------------------
(***************************************************************************)
(* One call of applyArtifactResource: an object is read, created, patched, *)
(* applied or replaced as its policy says, with retries and the handling   *)
(* of conflicts, while other clients and the garbage collector work on the *)
(* object of the same name and answers get lost.                           *)
(*                                                                         *)
(* Abstractions: of an object we keep whether it equals the desired state  *)
(* and, if not, whether a patch can make it so; the delays and the         *)
(* serialization are left out; a dry run, which sends nothing, too; a      *)
(* request and the processing of its answer are one step.  That no answer  *)
(* comes back, or an error of the server, is one outcome, with or without  *)
(* the effect.                                                             *)
(***************************************************************************)
EXTENDS Naturals

CONSTANT MaxAttempts    \* retryPolicy.maxRetries + 1

ASSUME AttemptsAssumption == MaxAttempts \in Nat \ {0}

VARIABLES
    obj,       \* the object of that name in the cluster
    call,      \* the call: its policy and its locals
    aborted,   \* options.abortSignal
    lateWrites \* history: effects of the call after the abort, at most 2

vars == <<obj, call, aborted, lateWrites>>

-----------------------------------------------------------------------------
(* Policies, objects and types                                             *)

Handlings == {"warn", "fail", "patch", "replace"}

\* defined: an ArtifactApplyPolicy is given; recreate: the immutableFieldPolicy;
\* force: the fieldConflictPolicy; conflictStrategy: that of the options
Policies ==
    {p \in [defined : BOOLEAN, existing : Handlings, recreate : BOOLEAN,
            force : BOOLEAN, conflictStrategy : Handlings,
            strategy : {"create-or-patch", "server-side-apply", "create-only",
                        "replace"}] :
        /\ p.strategy = "server-side-apply" => p.existing = "patch"
        /\ p.strategy = "create-only" => p.existing = "fail" /\ ~p.recreate
        /\ p.strategy = "replace" => p.existing = "replace" /\ ~p.recreate
        /\ p.force => p.strategy = "server-side-apply"
        /\ ~p.defined => /\ p.strategy = "create-or-patch"
                         /\ p.existing = "patch" /\ ~p.recreate}

\* content: equal to the desired state; different; different in a field that
\* no patch can change
Objects ==
    [state : {"live", "terminating"}, content : {"equal", "other", "immutable"},
     by : {"call", "others"}]
Absent == [state |-> "absent", content |-> "equal", by |-> "others"]
Created(content, by) == [state |-> "live", content |-> content, by |-> by]

Exists == obj.state # "absent"

Steps == {"start", "read", "create", "patch", "apply", "applyCreate",
          "applyAgain", "delete", "wait", "poll", "delay", "done"}

(* The types of all variables; no call makes more attempts than it may.    *)
TypeOK ==
    /\ obj \in Objects \cup {Absent}
    /\ call \in [policy : Policies, pc : Steps, attempt : 1..MaxAttempts,
                 handling : BOOLEAN,   \* in handleConflictStrategy
                 expired  : BOOLEAN,   \* the wait for a deletion took too long
                 unread   : BOOLEAN,   \* history: that read of the object failed
                 result   : {"none", "applied", "conflict", "error"},
                 returned : Objects \cup {Absent}]
    /\ aborted \in BOOLEAN /\ lateWrites \in 0..2

Init ==
    /\ obj \in {Absent} \cup {o \in Objects : o.by = "others"}
    /\ \E p \in Policies :
          call = [policy |-> p, pc |-> "start", attempt |-> 1,
                  handling |-> FALSE, expired |-> FALSE, unread |-> FALSE,
                  result |-> "none", returned |-> Absent]
    /\ aborted = FALSE /\ lateWrites = 0

-----------------------------------------------------------------------------
(* Steps of the call                                                       *)

P == call.policy
At(pc) == call.pc = pc
Goto(pc) == call' = [call EXCEPT !.pc = pc]

End(result) == call' = [call EXCEPT !.pc = "done", !.result = result]
Return(o) ==
    call' = [call EXCEPT !.pc = "done", !.result = "applied", !.returned = o]

Reads == UNCHANGED <<obj, aborted, lateWrites>>

\* the effect of a request on the object
Becomes(o) ==
    /\ obj' = o
    /\ lateWrites' = IF aborted /\ o # obj /\ lateWrites < 2
                     THEN lateWrites + 1 ELSE lateWrites
    /\ UNCHANGED aborted

OneRetryMore == call.attempt <= MaxAttempts
RetriesLeft == call.attempt < MaxAttempts

Retry == IF RetriesLeft THEN Goto("delay") ELSE End("error")

\* conflictStrategy: the policy prevails over the options
OptionsOnly == P.conflictStrategy
ConflictStrategy ==
    IF ~P.defined THEN P.conflictStrategy ELSE P.existing

(* The catch of an attempt.                                                *)
Caught(error) ==
    IF aborted \/ error = "unsupported" THEN End("error")
    ELSE IF error # "conflict" THEN Retry
    ELSE IF P.strategy = "server-side-apply" \/ ConflictStrategy = "fail"
         THEN End("conflict")
    ELSE call' = [call EXCEPT !.handling = TRUE,
                     !.pc = CASE ConflictStrategy = "warn"    -> "read"
                              [] ConflictStrategy = "patch"   -> "patch"
                              [] ConflictStrategy = "replace" -> "delete"]

(* A request of handleConflictStrategy that fails: the attempt has failed  *)
(* with the conflict.                                                      *)
Unhandled ==
    IF aborted /\ ConflictStrategy = "replace" THEN End("error") ELSE Retry

Throw(error) == IF call.handling THEN Unhandled ELSE Caught(error)

Errors == {"other", "unsupported"}

\* the next attempt starts with no locals
Begin ==
    /\ At("start") /\ Reads
    /\ IF aborted THEN End("error")
       ELSE Goto(IF P.strategy = "server-side-apply" THEN "apply" ELSE "read")

Delay ==
    /\ At("delay") /\ Reads
    /\ IF aborted THEN End("error")
       ELSE call' = [call EXCEPT !.pc = "start", !.attempt = @ + 1,
                                 !.handling = FALSE, !.unread = FALSE]

(* checkResourceExists, and what the policy says of an existing object; a  *)
(* Secret is patched without being compared.                               *)
Read ==
    /\ At("read") /\ ~call.handling /\ Reads
    /\ \/ ~Exists /\ Goto("create")
       \/ Exists /\ P.existing = "fail" /\ End("conflict")
       \/ Exists /\ P.existing = "replace" /\ Goto("delete")
       \/ Exists /\ P.existing = "warn" /\ Return(obj)
       \/ Exists /\ P.existing = "patch" /\ Goto("patch")
       \/ Exists /\ P.existing = "patch" /\ obj.content = "equal" /\ Return(obj)
       \/ \E e \in Errors : Throw(e)

(* After a conflict, warn takes the object that is there; when it cannot   *)
(* be read, the object is patched.                                         *)
ConflictRead ==
    /\ At("read") /\ call.handling /\ Reads
    /\ \/ Exists /\ Return(obj)
       \/ call' = [call EXCEPT !.pc = "patch", !.unread = TRUE]

(* A request that creates the object if it is absent.                      *)
Creates ==
    LET new == Created("equal", "call")
    IN  ~Exists /\ Becomes(new) /\ (Return(new) \/ Throw("other"))

Create ==
    /\ At("create")
    /\ \/ Creates
       \/ Exists /\ Throw("conflict") /\ Reads
       \/ (\E e \in Errors : Throw(e)) /\ Reads

(* A request that brings an existing object into the desired state.        *)
Writes ==
    LET new == [obj EXCEPT !.content = "equal"]
    IN  /\ Exists /\ obj.content # "immutable"
        /\ Becomes(new) /\ (Return(new) \/ Throw("other"))

\* 422: the object is deleted and created anew if the policy says so
AlwaysRecreates == ~call.handling
Recreates == P.recreate /\ ~call.handling

Refused ==
    /\ Exists /\ obj.content = "immutable" /\ Reads
    /\ IF Recreates THEN Goto("delete") ELSE Throw("other")

Patch ==
    /\ At("patch")
    /\ \/ Writes \/ Refused
       \/ Exists /\ Throw("conflict") /\ Reads
       \/ (\E e \in Errors : Throw(e)) /\ Reads

(* serverSideApply: a 404 leads to a create, its conflict to an apply.  A  *)
(* server may also create what it is to apply.                             *)
Apply ==
    /\ At("apply") \/ At("applyAgain")
    /\ \/ Creates \/ Writes \/ Refused
       \/ /\ ~Exists /\ Reads
          /\ IF At("apply") THEN Goto("applyCreate") ELSE Throw("other")
       \/ obj.content = "other" /\ ~P.force /\ Throw("conflict") /\ Reads
       \/ (\E e \in Errors : Throw(e)) /\ Reads

ApplyCreate ==
    /\ At("applyCreate")
    /\ \/ Creates
       \/ Exists /\ Goto("applyAgain") /\ Reads
       \/ (\E e \in Errors : Throw(e)) /\ Reads

(* replaceResource, also as a conflict strategy: delete, wait for the 404, *)
(* create.                                                                 *)
Delete ==
    /\ At("delete")
    /\ \/ /\ Exists
          /\ Becomes([obj EXCEPT !.state = "terminating"])
          /\ \/ call' = [call EXCEPT !.pc = "wait", !.expired = FALSE]
             \/ Throw("other")
       \/ (\E e \in Errors : Throw(e)) /\ Reads

WaitOn == Goto("poll")
WaitUnlessAborted == IF aborted THEN End("error") ELSE Goto("poll")

Wait == At("wait") /\ Reads /\ WaitUnlessAborted

Never == FALSE
Expired == call.expired

Poll ==
    /\ At("poll") /\ Reads
    /\ \/ ~Exists /\ Goto("create")
       \/ Exists /\ (IF Expired THEN End("error") ELSE Goto("wait"))
       \/ \E e \in Errors : Throw(e)

Step ==
    \/ Begin \/ Delay \/ Read \/ ConflictRead \/ Create \/ Patch \/ Apply
    \/ ApplyCreate \/ Delete \/ Wait \/ Poll

-----------------------------------------------------------------------------
(* The caller, the clock and other clients                                 *)

Abort ==
    /\ ~aborted /\ ~At("done") /\ aborted' = TRUE
    /\ UNCHANGED <<obj, call, lateWrites>>

Expire ==
    /\ call.pc \in {"wait", "poll"} /\ ~call.expired
    /\ call' = [call EXCEPT !.expired = TRUE]
    /\ UNCHANGED <<obj, aborted, lateWrites>>

Others ==
    /\ \/ ~Exists /\ \E c \in {"equal", "other", "immutable"} :
             obj' = Created(c, "others")
       \/ Exists /\ obj.content # "immutable" /\ \E c \in {"equal", "other"} :
             obj' = [obj EXCEPT !.content = c]
       \/ Exists /\ obj' = [obj EXCEPT !.state = "terminating"]
       \/ obj.state = "terminating" /\ obj' = Absent
    /\ UNCHANGED <<call, aborted, lateWrites>>

Next == Step \/ Abort \/ Expire \/ Others
Spec == Init /\ [][Next]_vars

\* the call goes on, every request is answered or fails, and time passes;
\* nothing is assumed of the others, so a deleted object may stay for ever
FairSpec == Spec /\ WF_vars(Step) /\ WF_vars(Expire)

-----------------------------------------------------------------------------
(* Properties                                                              *)

\* the policy, or without one the options, say so of an existing object
Says(h) == P.existing = h \/ (~P.defined /\ P.conflictStrategy = h)

(* A call that succeeds returns an object in the desired state, which a    *)
(* policy that replaces has created anew; only "warn" may return what      *)
(* others have made.  However the creations race and answers are lost.     *)
SuccessHonest ==
    call.result = "applied" =>
        /\ Says("warn") \/ call.returned.content = "equal"
        /\ P.existing = "replace" => call.returned.by = "call"

\* the call changes an object of others
Overwrites == obj.by = "others" /\ Exists /\ obj'.content # obj.content
Deletes == obj.by = "others" /\ obj.state = "live" /\ obj'.state = "terminating"

(* What others have made is overwritten only if it is to be patched or, on *)
(* "warn", when it could not be read after a lost race; and deleted only   *)
(* if it is to be replaced, or to be patched and recreated.                *)
PolicyKept ==
    [][Step =>
        /\ Overwrites => Says("patch") \/ (Says("warn") /\ call.unread)
        /\ Deletes => Says("replace") \/ (Says("patch") /\ P.recreate)]_vars

(* After an abort at most one more request takes effect, so an aborted     *)
(* replacement deletes or creates but does not start over.                 *)
OneWriteAfterAbort == lateWrites <= 1

(* Every call returns, also when a finalizer holds the deleted object or   *)
(* others create it again and again.                                       *)
Returns == <>At("done")
=============================================================================
