------------------------ MODULE ResourceApply_proofs ------------------------
(***************************************************************************)
(* The safety of one call of applyArtifactResource, for every number of    *)
(* attempts and whatever others do to the object: its types, what it may   *)
(* report as applied, which objects of others it may touch, and how much   *)
(* it still does after an abort.                                           *)
(*                                                                         *)
(* The invariant says under which policies the call can be at each of its  *)
(* requests (Where) and where it is after its one late write (Late).       *)
(***************************************************************************)
EXTENDS ResourceApply, TLAPS

CallType ==
    [policy : Policies, pc : Steps, attempt : 1..MaxAttempts,
     handling : BOOLEAN, expired : BOOLEAN, unread : BOOLEAN,
     result : {"none", "applied", "conflict", "error"},
     returned : Objects \cup {Absent}]

Applying == {"apply", "applyCreate", "applyAgain"}

Where ==
    /\ At("start") => ~call.handling
    /\ At("delay") => call.attempt < MaxAttempts
    /\ At("read") /\ call.handling => ConflictStrategy = "warn"
    /\ At("patch") => Says("patch")
                      \/ (Says("warn") /\ call.unread /\ call.handling)
    /\ At("delete") => Says("replace") \/ (Says("patch") /\ P.recreate)
    /\ call.pc \in Applying => P.strategy = "server-side-apply"

Late ==
    /\ lateWrites <= 1
    /\ lateWrites = 1 => aborted /\ call.pc \in {"done", "delay", "wait"}

IInv == TypeOK /\ Where /\ Late /\ SuccessHonest

-----------------------------------------------------------------------------
(* Policies and objects                                                    *)

LEMMA PolicyFacts ==
    ASSUME NEW p \in Policies
    PROVE  /\ p.existing \in Handlings /\ p.conflictStrategy \in Handlings
           /\ p.strategy = "server-side-apply" => p.existing = "patch"
           /\ ~p.defined => p.existing = "patch"
  BY DEF Policies

LEMMA StrategyFacts ==
    ASSUME TypeOK
    PROVE  /\ ConflictStrategy \in Handlings
           /\ \A h \in Handlings : ConflictStrategy = h => Says(h)
           /\ P.strategy = "server-side-apply" => Says("patch")
           /\ P.existing = "replace" => ~Says("patch") /\ ~Says("warn")
           /\ P.existing = "replace" => ConflictStrategy # "warn"
  <1>1. P \in Policies
    BY DEF TypeOK, P
  <1> QED
    BY <1>1, PolicyFacts DEF ConflictStrategy, Says, Handlings

LEMMA ObjectFacts ==
    /\ \A s \in {"live", "terminating"} : \A o \in Objects :
          [o EXCEPT !.state = s] \in Objects
    /\ \A c \in {"equal", "other", "immutable"} : \A o \in Objects :
          [o EXCEPT !.content = c] \in Objects
    /\ \A c \in {"equal", "other", "immutable"}, b \in {"call", "others"} :
          Created(c, b) \in Objects
    /\ \A o \in Objects \cup {Absent} : o.state # "absent" => o \in Objects
  BY DEF Objects, Created, Absent

LEMMA Typed == TypeOK <=> /\ obj \in Objects \cup {Absent}
                          /\ call \in CallType
                          /\ aborted \in BOOLEAN /\ lateWrites \in 0..2
  BY DEF TypeOK, CallType

-----------------------------------------------------------------------------
(* What a step leaves of the call                                          *)

Kept == /\ call' \in CallType /\ call'.policy = call.policy
Ended == /\ Kept /\ call'.pc = "done"
         /\ call'.result # "applied" /\ call'.returned = call.returned
Same == /\ call'.result = call.result /\ call'.returned = call.returned
Moved(pc) == /\ Kept /\ Same /\ call'.pc = pc
             /\ call'.handling = call.handling /\ call'.unread = call.unread
             /\ call'.attempt = call.attempt
Delayed == Moved("delay") /\ call.attempt < MaxAttempts
Handled ==
    /\ Kept /\ Same /\ call'.handling /\ ~aborted
    /\ \/ call'.pc = "read" /\ ConflictStrategy = "warn"
       \/ call'.pc = "patch" /\ ConflictStrategy = "patch"
       \/ call'.pc = "delete" /\ ConflictStrategy = "replace"

LEMMA GotoMoves ==
    ASSUME TypeOK, NEW pc \in Steps, Goto(pc)
    PROVE  Moved(pc)
  <1>1. call \in CallType
    BY Typed
  <1>2. call' = [call EXCEPT !.pc = pc]
    BY DEF Goto
  <1> QED
    BY <1>1, <1>2 DEF Moved, Kept, Same, CallType

LEMMA EndEnds ==
    ASSUME TypeOK, NEW r \in {"conflict", "error"}, End(r)
    PROVE  Ended
  <1>1. call \in CallType
    BY Typed
  <1>2. call' = [call EXCEPT !.pc = "done", !.result = r]
    BY DEF End
  <1> QED
    BY <1>1, <1>2 DEF Ended, Kept, CallType, Steps

LEMMA ReturnReturns ==
    ASSUME TypeOK, NEW o \in Objects, Return(o)
    PROVE  Kept /\ call'.pc = "done" /\ call'.returned = o
  <1>1. call \in CallType
    BY Typed
  <1>2. call' = [call EXCEPT !.pc = "done", !.result = "applied", !.returned = o]
    BY DEF Return
  <1> QED
    BY <1>1, <1>2 DEF Kept, CallType, Steps

LEMMA RetryRetries ==
    ASSUME TypeOK, Retry
    PROVE  Ended \/ Delayed
  <1>1. CASE RetriesLeft
    BY <1>1, GotoMoves DEF Retry, RetriesLeft, Delayed, Steps
  <1>2. CASE ~RetriesLeft
    BY <1>2, EndEnds DEF Retry
  <1> QED
    BY <1>1, <1>2

LEMMA CatchEffect ==
    ASSUME TypeOK, NEW e \in {"other", "unsupported", "conflict"}, Caught(e)
    PROVE  Ended \/ Delayed \/ Handled
  <1>1. CASE aborted \/ e = "unsupported"
    BY <1>1, EndEnds DEF Caught
  <1>2. CASE ~aborted /\ e = "other"
    BY <1>2, RetryRetries DEF Caught
  <1>3. CASE ~aborted /\ e = "conflict"
    <2>1. CASE P.strategy = "server-side-apply" \/ ConflictStrategy = "fail"
      BY <1>3, <2>1, EndEnds DEF Caught
    <2>2. ASSUME NEW h \in {"warn", "patch", "replace"}, ConflictStrategy = h,
                 NEW pc \in Steps, call' = [call EXCEPT !.handling = TRUE, !.pc = pc]
          PROVE  Kept /\ Same /\ call'.handling /\ call'.pc = pc
      <3>1. call \in CallType
        BY Typed
      <3> QED
        BY <2>2, <3>1 DEF Kept, Same, CallType
    <2>3. CASE P.strategy # "server-side-apply" /\ ConflictStrategy # "fail"
      <3>1. call' = [call EXCEPT !.handling = TRUE,
                        !.pc = CASE ConflictStrategy = "warn"    -> "read"
                                 [] ConflictStrategy = "patch"   -> "patch"
                                 [] ConflictStrategy = "replace" -> "delete"]
        BY <1>3, <2>3 DEF Caught
      <3>2. ConflictStrategy \in {"warn", "patch", "replace"}
        BY <2>3, StrategyFacts DEF Handlings
      <3>3. CASE ConflictStrategy = "warn"
        <4>1. call' = [call EXCEPT !.handling = TRUE, !.pc = "read"]
          BY <3>1, <3>3
        <4> QED
          BY <4>1, <3>3, <2>2, <1>3 DEF Handled, Steps
      <3>4. CASE ConflictStrategy = "patch"
        <4>1. call' = [call EXCEPT !.handling = TRUE, !.pc = "patch"]
          BY <3>1, <3>4
        <4> QED
          BY <4>1, <3>4, <2>2, <1>3 DEF Handled, Steps
      <3>5. CASE ConflictStrategy = "replace"
        <4>1. call' = [call EXCEPT !.handling = TRUE, !.pc = "delete"]
          BY <3>1, <3>5
        <4> QED
          BY <4>1, <3>5, <2>2, <1>3 DEF Handled, Steps
      <3> QED
        BY <3>2, <3>3, <3>4, <3>5
    <2> QED
      BY <2>1, <2>3
  <1> QED
    BY <1>1, <1>2, <1>3

LEMMA ThrowEffect ==
    ASSUME TypeOK, NEW e \in {"other", "unsupported", "conflict"}, Throw(e)
    PROVE  Ended \/ Delayed \/ Handled
  <1>1. CASE call.handling
    <2>1. Unhandled
      BY <1>1 DEF Throw
    <2> QED
      BY <2>1, EndEnds, RetryRetries DEF Unhandled
  <1>2. CASE ~call.handling
    BY <1>2, CatchEffect DEF Throw
  <1> QED
    BY <1>1, <1>2

-----------------------------------------------------------------------------
(* What keeps the invariant                                                *)

Good == call' \in CallType /\ Where' /\ SuccessHonest'
Settled == call'.pc \in {"done", "delay", "wait"}

LEMMA SettleKeeps ==
    ASSUME IInv, Ended \/ Delayed \/ Handled
    PROVE  Good /\ (aborted => Settled)
  <1>1. TypeOK /\ SuccessHonest
    BY DEF IInv
  <1>2. call' \in CallType /\ P' = P /\ ConflictStrategy' = ConflictStrategy
    BY DEF Ended, Delayed, Moved, Handled, Kept, P, ConflictStrategy
  <1>3. \A h \in Handlings : Says(h)' = Says(h)
    BY <1>2 DEF Says, P
  <1>4. CASE Ended
    BY <1>2, <1>4 DEF Ended, Good, Settled, Where, At, Applying, SuccessHonest
  <1>5. CASE Delayed
    <2>1. call'.pc = "delay" /\ Same /\ call'.attempt < MaxAttempts
      BY <1>5 DEF Delayed, Moved
    <2>2. Where' /\ Settled
      BY <2>1 DEF Where, At, Applying, Settled
    <2>3. SuccessHonest'
      BY <1>1, <1>2, <1>3, <2>1 DEF SuccessHonest, Same, Handlings
    <2> QED
      BY <1>2, <2>2, <2>3 DEF Good
  <1>6. CASE Handled
    <2>1. Same /\ ~aborted
      BY <1>6 DEF Handled
    <2>2. SuccessHonest'
      BY <1>1, <1>2, <1>3, <2>1 DEF SuccessHonest, Same, Handlings
    <2>3. \A h \in {"warn", "patch", "replace"} : ConflictStrategy = h => Says(h)'
      BY <1>1, <1>3, StrategyFacts DEF Handlings
    <2>4. Where'
      BY <1>2, <1>6, <2>3 DEF Handled, Where, At, Applying
    <2> QED
      BY <1>2, <2>1, <2>2, <2>4 DEF Good
  <1> QED
    BY <1>4, <1>5, <1>6

LEMMA ThrowKeeps ==
    ASSUME IInv, NEW e \in {"other", "unsupported", "conflict"}, Throw(e)
    PROVE  Good /\ (aborted => Settled)
  BY ThrowEffect, SettleKeeps DEF IInv

LEMMA EndKeeps ==
    ASSUME IInv, NEW r \in {"conflict", "error"}, End(r)
    PROVE  Good /\ Settled
  <1>1. Ended
    BY EndEnds DEF IInv
  <1> QED
    BY <1>1, SettleKeeps DEF Ended, Settled

LEMMA ReturnKeeps ==
    ASSUME IInv, NEW o \in Objects, Return(o),
           Says("warn") \/ o.content = "equal",
           P.existing = "replace" => o.by = "call"
    PROVE  Good /\ Settled
  <1>1. Kept /\ call'.pc = "done" /\ call'.returned = o
    BY ReturnReturns DEF IInv
  <1>2. P' = P /\ Says("warn")' = Says("warn")
    BY <1>1 DEF Kept, P, Says
  <1>3. SuccessHonest'
    BY <1>1, <1>2 DEF SuccessHonest
  <1>4. Where' /\ Settled
    BY <1>1 DEF Where, At, Applying, Settled
  <1> QED
    BY <1>1, <1>3, <1>4 DEF Good, Kept

LEMMA MoveKeeps ==
    ASSUME IInv, NEW pc \in Steps \ {"start", "delay"}, Goto(pc),
           pc = "read" => ~call.handling,
           pc = "patch" => Says("patch"),
           pc = "delete" => Says("replace") \/ (Says("patch") /\ P.recreate),
           pc \in Applying => P.strategy = "server-side-apply"
    PROVE  Good /\ call'.pc = pc
  <1>1. Moved(pc)
    BY GotoMoves DEF IInv
  <1>2. call' \in CallType /\ P' = P /\ call'.pc = pc /\ Same
        /\ call'.handling = call.handling /\ pc # "start" /\ pc # "delay"
    BY <1>1 DEF Moved, Kept, P
  <1>3. \A h \in Handlings : Says(h)' = Says(h)
    BY <1>2 DEF Says, P
  <1>4. SuccessHonest'
    BY <1>2, <1>3 DEF IInv, SuccessHonest, Same, Handlings
  <1>5. Where'
    BY <1>2, <1>3 DEF Where, At, Handlings
  <1> QED
    BY <1>2, <1>4, <1>5 DEF Good

LEMMA ReadKeeps ==
    ASSUME IInv, Reads, Good,
           call.pc \notin {"done", "delay", "wait"} \/ Settled
    PROVE  IInv'
  <1>1. TypeOK'
    <2>1. obj \in Objects \cup {Absent} /\ aborted \in BOOLEAN /\ lateWrites \in 0..2
      BY DEF IInv, TypeOK
    <2>2. obj' = obj /\ aborted' = aborted /\ lateWrites' = lateWrites
      BY DEF Reads
    <2> QED
      BY <2>1, <2>2 DEF Good, TypeOK, CallType
  <1>2. Late'
    BY DEF IInv, Late, Reads, Settled
  <1> QED
    BY <1>1, <1>2 DEF IInv, Good

LEMMA WriteKeeps ==
    ASSUME IInv, NEW o \in Objects \cup {Absent}, Becomes(o), Good,
           call.pc \notin {"done", "delay", "wait"}, aborted => Settled
    PROVE  IInv'
  <1>1. lateWrites = 0
    BY DEF IInv, TypeOK, Late
  <1>2. obj' = o /\ aborted' = aborted /\ lateWrites' \in 0..1
        /\ (lateWrites' = 1 => aborted)
    BY <1>1 DEF Becomes
  <1>3. TypeOK'
    <2>1. aborted \in BOOLEAN
      BY DEF IInv, TypeOK
    <2> QED
      BY <1>2, <2>1 DEF Good, TypeOK, CallType
  <1>4. Late'
    BY <1>2 DEF Late, Settled
  <1> QED
    BY <1>3, <1>4 DEF IInv, Good

-----------------------------------------------------------------------------
(* The steps of the call                                                   *)

LEMMA BeginKeeps == IInv /\ Begin => IInv'
  <1> SUFFICES ASSUME IInv, Begin PROVE IInv'
    OBVIOUS
  <1>1. At("start") /\ Reads /\ ~call.handling
    BY DEF Begin, IInv, Where
  <1>2. Good
    <2>1. CASE aborted
      BY <2>1, EndKeeps DEF Begin
    <2>2. CASE ~aborted /\ P.strategy = "server-side-apply"
      BY <2>2, MoveKeeps DEF Begin, Steps, Applying
    <2>3. CASE ~aborted /\ P.strategy # "server-side-apply"
      BY <1>1, <2>3, MoveKeeps DEF Begin, Steps, Applying
    <2> QED
      BY <2>1, <2>2, <2>3
  <1> QED
    BY <1>1, <1>2, ReadKeeps DEF At

LEMMA DelayKeeps == IInv /\ Delay => IInv'
  <1> SUFFICES ASSUME IInv, Delay PROVE IInv'
    OBVIOUS
  <1>1. At("delay") /\ Reads
    BY DEF Delay
  <1>2. CASE aborted
    BY <1>1, <1>2, EndKeeps, ReadKeeps DEF Delay
  <1>3. CASE ~aborted
    <2>1. call' = [call EXCEPT !.pc = "start", !.attempt = @ + 1,
                               !.handling = FALSE, !.unread = FALSE]
      BY <1>3 DEF Delay
    <2>2. call \in CallType /\ call.attempt \in 1..MaxAttempts
      BY Typed DEF IInv, CallType
    <2>3. call.attempt + 1 \in 1..MaxAttempts
      <3>1. call.attempt < MaxAttempts
        BY <1>1 DEF IInv, Where
      <3> QED
        BY <2>2, <3>1, AttemptsAssumption
    <2>4. call' \in CallType
      BY <2>1, <2>2, <2>3 DEF CallType, Steps
    <2>5. /\ call'.pc = "start" /\ ~call'.handling /\ call'.policy = call.policy
          /\ Same
      BY <2>1, <2>2 DEF CallType, Same
    <2>6. Where'
      BY <2>5 DEF Where, At, Applying
    <2>7. SuccessHonest'
      <3>1. P' = P /\ Says("warn")' = Says("warn")
        BY <2>5 DEF P, Says
      <3> QED
        BY <2>5, <3>1 DEF Same, IInv, SuccessHonest
    <2>8. lateWrites # 1 \/ aborted
      BY DEF IInv, Late
    <2>9. TypeOK'
      <3>1. obj \in Objects \cup {Absent} /\ aborted \in BOOLEAN /\ lateWrites \in 0..2
        BY DEF IInv, TypeOK
      <3>2. obj' = obj /\ aborted' = aborted /\ lateWrites' = lateWrites
        BY <1>1 DEF Reads
      <3> QED
        BY <2>4, <3>1, <3>2 DEF TypeOK, CallType
    <2>10. Late'
      BY <1>1, <1>3, <2>8 DEF IInv, Late, Reads
    <2> QED
      BY <2>6, <2>7, <2>9, <2>10 DEF IInv
  <1> QED
    BY <1>2, <1>3

LEMMA ReadStepKeeps == IInv /\ Read => IInv'
  <1> SUFFICES ASSUME IInv, Read PROVE IInv'
    OBVIOUS
  <1>1. At("read") /\ ~call.handling /\ Reads /\ TypeOK
    BY DEF Read, IInv
  <1>2. Exists => obj \in Objects
    BY <1>1 DEF TypeOK, Exists, Absent
  <1>3. \A h \in Handlings : P.existing = h => Says(h)
    BY DEF Says
  <1>4. Good
    <2>1. CASE Goto("create")
      BY <2>1, MoveKeeps DEF Steps, Applying
    <2>2. CASE End("conflict")
      BY <2>2, EndKeeps
    <2>3. CASE P.existing = "replace" /\ Goto("delete")
      BY <1>3, <2>3, MoveKeeps DEF Steps, Applying, Handlings
    <2>4. CASE Exists /\ P.existing = "warn" /\ Return(obj)
      BY <1>2, <1>3, <2>4, ReturnKeeps DEF Handlings
    <2>5. CASE P.existing = "patch" /\ Goto("patch")
      BY <1>3, <2>5, MoveKeeps DEF Steps, Applying, Handlings
    <2>6. CASE Exists /\ P.existing = "patch" /\ obj.content = "equal" /\ Return(obj)
      BY <1>2, <2>6, ReturnKeeps
    <2>7. CASE \E e \in Errors : Throw(e)
      BY <2>7, ThrowKeeps DEF Errors
    <2> QED
      BY <2>1, <2>2, <2>3, <2>4, <2>5, <2>6, <2>7 DEF Read
  <1> QED
    BY <1>1, <1>4, ReadKeeps DEF At

LEMMA ConflictReadKeeps == IInv /\ ConflictRead => IInv'
  <1> SUFFICES ASSUME IInv, ConflictRead PROVE IInv'
    OBVIOUS
  <1>1. At("read") /\ call.handling /\ Reads /\ TypeOK
    BY DEF ConflictRead, IInv
  <1>2. ConflictStrategy = "warn"
    BY <1>1 DEF IInv, Where
  <1>3. Says("warn") /\ P.existing # "replace"
    BY <1>1, <1>2, StrategyFacts DEF Handlings
  <1>4. Good
    <2>1. CASE Exists /\ Return(obj)
      <3>1. obj \in Objects
        BY <1>1, <2>1 DEF TypeOK, Exists, Absent
      <3> QED
        BY <1>3, <2>1, <3>1, ReturnKeeps
    <2>2. CASE call' = [call EXCEPT !.pc = "patch", !.unread = TRUE]
      <3>1. call \in CallType
        BY <1>1, Typed
      <3>2. /\ call' \in CallType /\ call'.policy = call.policy /\ Same
            /\ call'.pc = "patch" /\ call'.unread /\ call'.handling
        BY <1>1, <2>2, <3>1 DEF CallType, Steps, Same
      <3>3. P' = P /\ Says("warn")'
        BY <1>3, <3>2 DEF P, Says
      <3>4. Where'
        BY <3>2, <3>3 DEF Where, At, Applying
      <3>5. SuccessHonest'
        BY <3>2, <3>3, <1>3 DEF SuccessHonest, Same, IInv
      <3> QED
        BY <3>2, <3>4, <3>5 DEF Good
    <2> QED
      BY <2>1, <2>2 DEF ConflictRead
  <1> QED
    BY <1>1, <1>4, ReadKeeps DEF At

\* a request that creates the absent object
LEMMA CreatesKeeps ==
    ASSUME IInv, Creates, call.pc \notin {"done", "delay", "wait"}
    PROVE  IInv'
  <1> DEFINE new == Created("equal", "call")
  <1>1. new \in Objects /\ new.content = "equal" /\ new.by = "call"
    BY ObjectFacts DEF Created
  <1>2. Becomes(new) /\ (Return(new) \/ Throw("other"))
    BY DEF Creates
  <1> HIDE DEF new
  <1>3. Good /\ (aborted => Settled)
    BY <1>1, <1>2, ReturnKeeps, ThrowKeeps
  <1> QED
    BY <1>1, <1>2, <1>3, WriteKeeps

\* a request that brings the existing object into the desired state
LEMMA WritesKeeps ==
    ASSUME IInv, Writes, call.pc \in {"patch"} \cup Applying
    PROVE  IInv'
  <1> DEFINE new == [obj EXCEPT !.content = "equal"]
  <1>1. obj \in Objects
    BY DEF IInv, TypeOK, Writes, Exists, Absent
  <1>2. new \in Objects /\ new.content = "equal"
    BY <1>1 DEF Objects
  <1>3. Becomes(new) /\ (Return(new) \/ Throw("other"))
    BY DEF Writes
  <1>4. P.existing # "replace"
    <2>1. Says("patch") \/ Says("warn")
      BY StrategyFacts DEF IInv, Where, At, Applying
    <2> QED
      BY <2>1, StrategyFacts DEF IInv
  <1> HIDE DEF new
  <1>5. Good /\ (aborted => Settled)
    BY <1>2, <1>3, <1>4, ReturnKeeps, ThrowKeeps
  <1> QED
    BY <1>2, <1>3, <1>5, WriteKeeps DEF Applying

LEMMA RefusedKeeps ==
    ASSUME IInv, Refused, call.pc \in {"patch"} \cup Applying
    PROVE  IInv'
  <1>1. Reads
    BY DEF Refused
  <1>2. CASE Recreates
    <2>1. Says("patch") /\ P.recreate
      BY <1>2, StrategyFacts DEF IInv, Where, At, Applying, Recreates
    <2> QED
      BY <1>1, <1>2, <2>1, MoveKeeps, ReadKeeps DEF Refused, Steps, Applying
  <1>3. CASE ~Recreates
    BY <1>1, <1>3, ThrowKeeps, ReadKeeps DEF Refused, Applying
  <1> QED
    BY <1>2, <1>3

LEMMA FailureKeeps ==
    ASSUME IInv, NEW e \in {"other", "unsupported", "conflict"}, Throw(e), Reads,
           call.pc \notin {"done", "delay", "wait"}
    PROVE  IInv'
  BY ThrowKeeps, ReadKeeps

LEMMA CreateKeeps == IInv /\ Create => IInv'
  BY CreatesKeeps, FailureKeeps DEF Create, At, Errors

LEMMA PatchKeeps == IInv /\ Patch => IInv'
  BY WritesKeeps, RefusedKeeps, FailureKeeps DEF Patch, At, Errors

LEMMA ApplyKeeps == IInv /\ Apply => IInv'
  <1> SUFFICES ASSUME IInv, Apply PROVE IInv'
    OBVIOUS
  <1>1. call.pc \in Applying /\ call.pc \notin {"done", "delay", "wait"}
    BY DEF Apply, At, Applying
  <1>2. P.strategy = "server-side-apply"
    BY <1>1 DEF IInv, Where
  <1>3. CASE Creates \/ Writes \/ Refused
    BY <1>1, <1>3, CreatesKeeps, WritesKeeps, RefusedKeeps
  <1>4. CASE Goto("applyCreate") /\ Reads
    BY <1>1, <1>2, <1>4, MoveKeeps, ReadKeeps DEF Steps
  <1>5. CASE \E e \in Errors \cup {"conflict"} : Throw(e) /\ Reads
    BY <1>1, <1>5, FailureKeeps DEF Errors
  <1> QED
    BY <1>3, <1>4, <1>5 DEF Apply, Errors

LEMMA ApplyCreateKeeps == IInv /\ ApplyCreate => IInv'
  <1> SUFFICES ASSUME IInv, ApplyCreate PROVE IInv'
    OBVIOUS
  <1>1. call.pc = "applyCreate" /\ P.strategy = "server-side-apply"
    BY DEF ApplyCreate, At, IInv, Where, Applying
  <1>2. CASE Creates
    BY <1>1, <1>2, CreatesKeeps
  <1>3. CASE Goto("applyAgain") /\ Reads
    BY <1>1, <1>3, MoveKeeps, ReadKeeps DEF Steps
  <1>4. CASE \E e \in Errors : Throw(e) /\ Reads
    BY <1>1, <1>4, FailureKeeps DEF Errors
  <1> QED
    BY <1>2, <1>3, <1>4 DEF ApplyCreate

LEMMA DeleteKeeps == IInv /\ Delete => IInv'
  <1> SUFFICES ASSUME IInv, Delete PROVE IInv'
    OBVIOUS
  <1>1. call.pc = "delete"
    BY DEF Delete, At
  <1>2. CASE (\E e \in Errors : Throw(e)) /\ Reads
    BY <1>1, <1>2, FailureKeeps DEF Errors
  <1>3. ASSUME Exists, Becomes([obj EXCEPT !.state = "terminating"]),
               call' = [call EXCEPT !.pc = "wait", !.expired = FALSE] \/ Throw("other")
        PROVE  IInv'
    <2> DEFINE new == [obj EXCEPT !.state = "terminating"]
    <2>1. new \in Objects
      BY <1>3, ObjectFacts DEF IInv, TypeOK, Exists
    <2>2. Becomes(new)
      BY <1>3
    <2> HIDE DEF new
    <2>3. CASE Throw("other")
      BY <1>1, <2>1, <2>2, <2>3, ThrowKeeps, WriteKeeps
    <2>4. CASE call' = [call EXCEPT !.pc = "wait", !.expired = FALSE]
      <3>1. call \in CallType
        BY Typed DEF IInv
      <3>2. call' \in CallType /\ call'.policy = call.policy /\ call'.pc = "wait" /\ Same
        BY <2>4, <3>1 DEF CallType, Steps, Same
      <3>3. Where' /\ Settled
        BY <3>2 DEF Where, At, Applying, Settled
      <3>4. P' = P /\ Says("warn")' = Says("warn")
        BY <3>2 DEF P, Says
      <3>5. SuccessHonest'
        BY <3>2, <3>4 DEF SuccessHonest, Same, IInv
      <3> QED
        BY <1>1, <2>1, <2>2, <3>2, <3>3, <3>5, WriteKeeps DEF Good
    <2> QED
      BY <1>3, <2>3, <2>4
  <1> QED
    BY <1>2, <1>3 DEF Delete

LEMMA WaitKeeps == IInv /\ Wait => IInv'
  <1> SUFFICES ASSUME IInv, Wait PROVE IInv'
    OBVIOUS
  <1>1. Reads /\ WaitUnlessAborted /\ call.pc = "wait"
    BY DEF Wait, At
  <1>2. CASE aborted
    BY <1>1, <1>2, EndKeeps, ReadKeeps DEF WaitUnlessAborted
  <1>3. CASE ~aborted
    <2>1. Good
      BY <1>1, <1>3, MoveKeeps DEF WaitUnlessAborted, Steps, Applying
    <2>2. lateWrites = 0
      BY <1>3 DEF IInv, TypeOK, Late
    <2>3. TypeOK'
      <3>1. obj \in Objects \cup {Absent} /\ aborted \in BOOLEAN /\ lateWrites \in 0..2
        BY DEF IInv, TypeOK
      <3>2. obj' = obj /\ aborted' = aborted /\ lateWrites' = lateWrites
        BY <1>1 DEF Reads
      <3> QED
        BY <2>1, <3>1, <3>2 DEF Good, TypeOK, CallType
    <2>4. Late'
      BY <1>1, <2>2 DEF Late, Reads
    <2> QED
      BY <2>1, <2>3, <2>4 DEF IInv, Good
  <1> QED
    BY <1>2, <1>3

LEMMA PollKeeps == IInv /\ Poll => IInv'
  <1> SUFFICES ASSUME IInv, Poll PROVE IInv'
    OBVIOUS
  <1>1. Reads /\ call.pc = "poll"
    BY DEF Poll, At
  <1>2. CASE Goto("create") \/ Goto("wait")
    BY <1>1, <1>2, MoveKeeps, ReadKeeps DEF Steps, Applying
  <1>3. CASE End("error")
    BY <1>1, <1>3, EndKeeps, ReadKeeps
  <1>4. CASE \E e \in Errors : Throw(e)
    BY <1>1, <1>4, FailureKeeps DEF Errors
  <1> QED
    BY <1>2, <1>3, <1>4 DEF Poll

-----------------------------------------------------------------------------
(* The others, and the invariant                                           *)

LEMMA OthersKeep == IInv /\ Others => IInv'
  <1> SUFFICES ASSUME IInv, Others PROVE IInv'
    OBVIOUS
  <1>1. call' = call /\ aborted' = aborted /\ lateWrites' = lateWrites
    BY DEF Others
  <1>2. obj' \in Objects \cup {Absent}
    <2>1. obj \in Objects \cup {Absent}
      BY DEF IInv, TypeOK
    <2> QED
      BY <2>1, ObjectFacts DEF Others, Exists
  <1> QED
    BY <1>1, <1>2
    DEF IInv, TypeOK, Where, Late, SuccessHonest, At, P, Says, ConflictStrategy

LEMMA AbortKeeps == IInv /\ Abort => IInv'
  BY DEF IInv, Abort, TypeOK, Where, Late, SuccessHonest, At, P, Says, ConflictStrategy

LEMMA ExpireKeeps == IInv /\ Expire => IInv'
  <1> SUFFICES ASSUME IInv, Expire PROVE IInv'
    OBVIOUS
  <1>1. call \in CallType /\ call' = [call EXCEPT !.expired = TRUE]
    BY Typed DEF IInv, Expire
  <1>2. /\ call' \in CallType /\ call'.policy = call.policy /\ call'.pc = call.pc
        /\ Same /\ call'.handling = call.handling /\ call'.unread = call.unread
        /\ call'.attempt = call.attempt
    BY <1>1 DEF CallType, Same
  <1>3. Where' /\ SuccessHonest'
    BY <1>2 DEF IInv, Where, SuccessHonest, At, P, Says, ConflictStrategy, Same
  <1>4. TypeOK' /\ Late'
    <2>1. obj' = obj /\ aborted' = aborted /\ lateWrites' = lateWrites
      BY DEF Expire
    <2> QED
      BY <1>2, <2>1 DEF IInv, TypeOK, Late, CallType
  <1> QED
    BY <1>3, <1>4 DEF IInv

LEMMA Start == Init => IInv
  <1> SUFFICES ASSUME Init PROVE IInv
    OBVIOUS
  <1>1. PICK p \in Policies :
           call = [policy |-> p, pc |-> "start", attempt |-> 1,
                   handling |-> FALSE, expired |-> FALSE, unread |-> FALSE,
                   result |-> "none", returned |-> Absent]
    BY DEF Init
  <1>2. 1 \in 1..MaxAttempts
    BY AttemptsAssumption
  <1>3. call \in CallType
    BY <1>1, <1>2 DEF CallType, Steps
  <1>4. TypeOK
    <2>1. obj \in Objects \cup {Absent}
      BY DEF Init
    <2>2. aborted = FALSE /\ lateWrites = 0
      BY Zenon DEF Init
    <2>3. aborted \in BOOLEAN
      BY <2>2
    <2>4. lateWrites \in 0..2
      BY <2>2
    <2> QED
      BY <1>3, <2>1, <2>3, <2>4, Typed
  <1>5. Where /\ SuccessHonest
    BY <1>1 DEF Where, SuccessHonest, At, Applying
  <1>6. Late
    BY DEF Init, Late
  <1> QED
    BY <1>4, <1>5, <1>6 DEF IInv

LEMMA Invariance == Spec => []IInv
  <1>1. IInv /\ [Next]_vars => IInv'
    <2> SUFFICES ASSUME IInv, [Next]_vars PROVE IInv'
      OBVIOUS
    <2>1. CASE Step
      BY <2>1, BeginKeeps, DelayKeeps, ReadStepKeeps, ConflictReadKeeps, CreateKeeps,
         PatchKeeps, ApplyKeeps, ApplyCreateKeeps, DeleteKeeps, WaitKeeps, PollKeeps
      DEF Step
    <2>2. CASE UNCHANGED vars
      BY <2>2
      DEF vars, IInv, TypeOK, Where, Late, SuccessHonest, At, P, Says, ConflictStrategy
    <2> QED
      BY <2>1, <2>2, OthersKeep, AbortKeeps, ExpireKeeps DEF Next
  <1> QED
    BY Start, <1>1, PTL DEF Spec

(* Every variable of an apply keeps its type, for every number of attempts *)
(* of the retry policy: no call makes one attempt more                     *)
(* (applyArtifactResource).                                                *)
THEOREM TypeCorrect == Spec => []TypeOK
  <1>1. IInv => TypeOK
    BY DEF IInv
  <1> QED
    BY Invariance, <1>1, PTL

(* Whatever races and lost answers an apply meets, what it reports as      *)
(* applied is in the desired state, and its own work if it was to replace. *)
THEOREM SuccessIsHonest == Spec => []SuccessHonest
  <1>1. IInv => SuccessHonest
    BY DEF IInv
  <1> QED
    BY Invariance, <1>1, PTL

(* After an abort at most one more request of an apply takes effect.       *)
THEOREM AbortStopsWrites == Spec => []OneWriteAfterAbort
  <1>1. IInv => OneWriteAfterAbort
    BY DEF IInv, Late, OneWriteAfterAbort
  <1> QED
    BY Invariance, <1>1, PTL

(* An apply overwrites and deletes what others have made only as its       *)
(* policy, or the strategy of the options, says (applyWithPolicy,          *)
(* handleConflictStrategy).                                                *)
THEOREM PoliciesAreKept == Spec => PolicyKept
  <1> DEFINE Respects ==
        Step => /\ Overwrites => Says("patch") \/ (Says("warn") /\ call.unread)
                /\ Deletes => Says("replace") \/ (Says("patch") /\ P.recreate)
  <1>1. IInv /\ [Next]_vars => [Respects]_vars
    <2> SUFFICES ASSUME IInv, Step, Overwrites \/ Deletes
                 PROVE  Respects
      BY DEF Overwrites, Deletes
    <2>1. obj' # obj
      BY DEF Overwrites, Deletes, Exists
    <2>2. Exists
      BY DEF Overwrites, Deletes, Exists
    <2>3. CASE Writes /\ call.pc \in {"patch"} \cup Applying
      <3>1. obj'.state = obj.state
        BY <2>3 DEF Writes, Becomes, IInv, TypeOK, Objects, Absent, Exists
      <3>2. Says("patch") \/ (Says("warn") /\ call.unread)
        BY <2>3, StrategyFacts DEF IInv, Where, At, Applying
      <3> QED
        BY <3>1, <3>2 DEF Deletes
    <2>4. CASE Delete /\ Becomes([obj EXCEPT !.state = "terminating"])
      <3>1. obj'.content = obj.content
        BY <2>2, <2>4 DEF Becomes, IInv, TypeOK, Objects, Absent, Exists
      <3>2. Says("replace") \/ (Says("patch") /\ P.recreate)
        BY <2>4 DEF Delete, IInv, Where
      <3> QED
        BY <3>1, <3>2 DEF Overwrites
    <2>5. (Writes /\ call.pc \in {"patch"} \cup Applying)
          \/ (Delete /\ Becomes([obj EXCEPT !.state = "terminating"]))
      BY <2>1, <2>2
      DEF Step, Begin, Delay, Read, ConflictRead, Create, Creates, Patch, Apply,
          ApplyCreate, Refused, Delete, Wait, Poll, Reads, At, Applying
    <2> QED
      BY <2>3, <2>4, <2>5
  <1>2. PolicyKept <=> [][Respects]_vars
    BY DEF PolicyKept
  <1> QED
    BY Invariance, <1>1, <1>2, PTL DEF Spec
=============================================================================
