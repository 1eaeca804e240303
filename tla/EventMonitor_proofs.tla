------------------------ MODULE EventMonitor_proofs ------------------------
(***************************************************************************)
(* TypeOK, OneReconnection and WatchedOrTold of EventMonitor, for every    *)
(* set of resources and all bounds.                                        *)
(*                                                                         *)
(* None of them is inductive.  A request must be found for every new watch *)
(* (RoomForAll counts the free ones against the reconnections that still   *)
(* sleep), a connection that is used again must have neither request nor   *)
(* timer (OneEach), and the request that a connection aborts must be one   *)
(* that is open (Pointed), so that no start under way is lost.             *)
(***************************************************************************)
EXTENDS EventMonitor, FiniteSetTheorems, TLAPS

NoMap == [namespace |-> None, kind |-> None]

Asking(c) == {q \in RequestsOf(c) : request[q].by = "reconnect"}
Sleeping == {c \in Connections : connection[c].sleeping}
Free == RequestsOf(None)

\* before the first connection nothing is watched
Fresh0 ==
    start # "done" =>
        /\ monitored = {} /\ map = NoMap
        /\ \A q \in Requests : request[q] = NoRequest
        /\ \A c \in Connections : ~connection[c].sleeping

\* the life of a request: unused, asked for by somebody, open
Shaped ==
    \A q \in Requests :
        /\ request[q].connection = None => request[q] = NoRequest
        /\ request[q].connection # None => request[q].state # "none"
        /\ request[q].state = "open" => request[q].by = "none"
        /\ request[q].state = "asked" => request[q].by # "none" /\ ~request[q].aborted

\* the request that a connection would abort is an open one of its own
Pointed ==
    \A c \in Connections : connection[c].request # None =>
        /\ request[connection[c].request].state = "open"
        /\ request[connection[c].request].connection = c

\* OneReconnection without counting
OneEach ==
    \A c \in Connections :
        /\ ~connection[c].isReconnecting => Asking(c) = {} /\ ~connection[c].sleeping
        /\ connection[c].sleeping => Asking(c) = {}
        /\ (connection[c].isReconnecting /\ ~connection[c].sleeping)
              => \E q \in Requests : Asking(c) = {q}

\* there is a free request for every timer
RoomForAll == Cardinality(Sleeping) <= Cardinality(Free)

\* the connection of the Namespace is not the one of the kind
Apart ==
    map.namespace # None =>
        /\ map.namespace # map.kind
        /\ \A q \in Requests :
              request[q].connection = map.namespace => request[q].by # "create"

IInv == /\ TypeOK /\ Fresh0 /\ Shaped /\ Pointed /\ Apart
        /\ OneEach /\ RoomForAll /\ WatchedOrTold

ConnType ==
    [names : SUBSET Resources, reconnectAttempts : 0..MaxReconnectAttempts,
     isReconnecting : BOOLEAN, sleeping : BOOLEAN,
     request : Requests \cup {None}, told : BOOLEAN]

ReqType ==
    [connection : Connections \cup {None}, state : {"none", "asked", "open"},
     aborted : BOOLEAN,
     by : {"none", "create", "update", "reconnect", "start"}]

Asked(c, by) == [connection |-> c, state |-> "asked", aborted |-> FALSE, by |-> by]

-----------------------------------------------------------------------------
(* Facts about the data                                                    *)

LEMMA Numbers ==
    /\ None \notin Connections /\ None \notin Requests
    /\ IsFiniteSet(Connections) /\ IsFiniteSet(Requests)
    /\ Requests # {} /\ Connections # {}
    /\ 0 \in 0..MaxReconnectAttempts
<1>1. MaxConnections \in Nat \ {0} /\ MaxRequests \in Nat \ {0}
      /\ MaxReconnectAttempts \in Nat \ {0}
  BY BoundsArePositive
<1>2. IsFiniteSet(Connections) /\ IsFiniteSet(Requests)
  BY <1>1, FS_Interval DEF Connections, Requests
<1> QED  BY <1>1, <1>2 DEF Connections, Requests, None

LEMMA NewConnectionType ==
    ASSUME NEW names \in SUBSET Resources
    PROVE  /\ NewConnection(names) \in ConnType
           /\ NewConnection(names).names = names
           /\ NewConnection(names).isReconnecting = FALSE
           /\ NewConnection(names).sleeping = FALSE
           /\ NewConnection(names).request = None
  BY Numbers DEF NewConnection, ConnType

LEMMA NoRequestType ==
    /\ NoRequest \in ReqType
    /\ NoRequest.connection = None /\ NoRequest.state = "none"
    /\ NoRequest.aborted = FALSE /\ NoRequest.by = "none"
  BY DEF NoRequest, ReqType

LEMMA AskedType ==
    ASSUME NEW c \in Connections, NEW by \in {"create", "update", "reconnect", "start"}
    PROVE  /\ Asked(c, by) \in ReqType
           /\ Asked(c, by).connection = c /\ Asked(c, by).state = "asked"
           /\ Asked(c, by).aborted = FALSE /\ Asked(c, by).by = by
  BY DEF Asked, ReqType

LEMMA Types ==
    ASSUME TypeOK
    PROVE  /\ connection \in [Connections -> ConnType]
           /\ request \in [Requests -> ReqType]
           /\ map \in [{"namespace", "kind"} -> Connections \cup {None}]
  BY DEF TypeOK, ConnType, ReqType

(* The next attempt: none while one is under way; else the timer is set,   *)
(* or the connection is reported.                                          *)
LEMMA AttemptFacts ==
    ASSUME NEW k \in ConnType
    PROVE  /\ Attempt(k) \in ConnType
           /\ Attempt(k).names = k.names /\ Attempt(k).request = k.request
           /\ k.isReconnecting => Attempt(k) = k
           /\ Attempt(k).isReconnecting \/ Attempt(k).told
           /\ k.told => Attempt(k).told
<1>1. CASE k.isReconnecting
  <2>1. Attempt(k) = k  BY <1>1 DEF Attempt
  <2> QED  BY <1>1, <2>1
<1>2. CASE ~k.isReconnecting /\ k.reconnectAttempts >= MaxReconnectAttempts
  <2>1. Attempt(k) = [k EXCEPT !.told = TRUE]  BY <1>2 DEF Attempt
  <2> QED  BY <1>2, <2>1 DEF ConnType
<1>3. CASE ~k.isReconnecting /\ ~(k.reconnectAttempts >= MaxReconnectAttempts)
  <2>1. Attempt(k) = [k EXCEPT !.isReconnecting = TRUE, !.sleeping = TRUE,
                               !.reconnectAttempts = @ + 1]
    BY <1>3 DEF Attempt
  <2>2. k.reconnectAttempts + 1 \in 0..MaxReconnectAttempts
    BY <1>3, BoundsArePositive DEF ConnType
  <2> HIDE DEF Attempt
  <2> QED  BY <1>3, <2>1, <2>2 DEF ConnType
<1> QED  BY <1>1, <1>2, <1>3

LEMMA AttemptTimer ==
    ASSUME NEW k \in ConnType, ~k.isReconnecting, ~k.sleeping
    PROVE  Attempt(k).isReconnecting = Attempt(k).sleeping
<1>1. CASE k.reconnectAttempts >= MaxReconnectAttempts
  <2>1. Attempt(k) = [k EXCEPT !.told = TRUE]  BY <1>1 DEF Attempt
  <2> QED  BY <2>1 DEF ConnType
<1>2. CASE ~(k.reconnectAttempts >= MaxReconnectAttempts)
  <2>1. Attempt(k) = [k EXCEPT !.isReconnecting = TRUE, !.sleeping = TRUE,
                               !.reconnectAttempts = @ + 1]
    BY <1>2 DEF Attempt
  <2> QED  BY <2>1 DEF ConnType
<1> QED  BY <1>1, <1>2

(* Counting: one free request less, one timer more or less.                *)
LEMMA CountFree ==
    ASSUME TypeOK
    PROVE  /\ IsFiniteSet(Free) /\ Cardinality(Free) \in Nat
           /\ IsFiniteSet(Sleeping) /\ Cardinality(Sleeping) \in Nat
<1>1. Free \subseteq Requests /\ Sleeping \subseteq Connections
  BY DEF Free, RequestsOf, Sleeping
<1>2. IsFiniteSet(Free) /\ IsFiniteSet(Sleeping)  BY <1>1, Numbers, FS_Subset
<1> QED  BY <1>2, FS_CardinalityType

LEMMA CountSubset ==
    ASSUME NEW S, NEW T, IsFiniteSet(T), S \subseteq T
    PROVE  IsFiniteSet(S) /\ Cardinality(S) <= Cardinality(T)
  BY FS_Subset

LEMMA CountLess ==
    ASSUME NEW S, NEW T, IsFiniteSet(S), IsFiniteSet(T), NEW x, T \ {x} \subseteq S
    PROVE  Cardinality(T) <= Cardinality(S) + 1
<1>1. IsFiniteSet(S \cup {x})
      /\ Cardinality(S \cup {x}) <= Cardinality(S) + 1
  <2>1. Cardinality(S) \in Nat  BY FS_CardinalityType
  <2> QED  BY <2>1, FS_AddElement
<1>2. T \subseteq S \cup {x}  OBVIOUS
<1>3. Cardinality(T) <= Cardinality(S \cup {x})  BY <1>1, <1>2, CountSubset
<1>4. Cardinality(T) \in Nat /\ Cardinality(S) \in Nat /\ Cardinality(S \cup {x}) \in Nat
  BY <1>1, FS_CardinalityType
<1> QED  BY <1>1, <1>3, <1>4

LEMMA CountMore ==
    ASSUME NEW S, NEW T, IsFiniteSet(T), NEW x \in T, S \subseteq T \ {x}
    PROVE  IsFiniteSet(S) /\ Cardinality(S) + 1 <= Cardinality(T)
<1>1. IsFiniteSet(T \ {x}) /\ Cardinality(T \ {x}) = Cardinality(T) - 1
  BY FS_RemoveElement
<1>2. IsFiniteSet(S) /\ Cardinality(S) <= Cardinality(T \ {x})  BY <1>1, CountSubset
<1>3. Cardinality(T) \in Nat /\ Cardinality(S) \in Nat  BY <1>2, FS_CardinalityType
<1> QED  BY <1>1, <1>2, <1>3

-----------------------------------------------------------------------------
(* What a launch and a change of a connection may do                       *)

\* some of the requests of c are aborted, and one free request may become
\* one of c
Launched(c, by) ==
    /\ request' \in [Requests -> ReqType]
    /\ \A x \in Requests :
          \/ request'[x] = request[x]
          \/ /\ connection[c].request = x /\ request[x].state = "open"
             /\ request'[x].connection = c /\ request[x].connection = c
             /\ request'[x].state = "open"
             /\ request'[x].by = request[x].by
          \/ x \in Free /\ request'[x] = Asked(c, by)
    /\ \/ \A x \in Free : request'[x] = request[x]
       \/ Room /\ \E q \in Free : \A x \in Free \ {q} : request'[x] = request[x]

\* the names and the report of c may change, and its request may be forgotten
Relabelled(c) ==
    /\ connection' \in [Connections -> ConnType]
    /\ \A x \in Connections \ {c} : connection'[x] = connection[x]
    /\ connection'[c].sleeping = connection[c].sleeping
    /\ connection'[c].isReconnecting = connection[c].isReconnecting
    /\ connection'[c].request \in {None, connection[c].request}

LEMMA LaunchKeeps ==
    ASSUME IInv, NEW c \in Connections, NEW by \in {"create", "update", "start"},
           Launched(c, by), Relabelled(c)
    PROVE  /\ Shaped' /\ Pointed' /\ OneEach' /\ RoomForAll'
           /\ \A x \in Connections \ {c} : Live(x) => Live(x)'
<1>0. TypeOK /\ Shaped /\ Pointed /\ OneEach /\ RoomForAll
  BY DEF IInv
<1>a. /\ Asked(c, by) \in ReqType
      /\ Asked(c, by).connection = c /\ Asked(c, by).state = "asked"
      /\ Asked(c, by).aborted = FALSE /\ Asked(c, by).by = by
  <2>1. by \in {"create", "update", "reconnect", "start"}  OBVIOUS
  <2> QED  BY <2>1, AskedType
<1>b. request \in [Requests -> ReqType] /\ connection \in [Connections -> ConnType]
  BY <1>0, Types
<1>c. \A x \in Free : x \in Requests /\ request[x] = NoRequest
  BY <1>0 DEF Free, RequestsOf, Shaped
<1>1. Shaped'
  <2> SUFFICES ASSUME NEW x \in Requests
               PROVE  /\ request'[x].connection = None => request'[x] = NoRequest
                      /\ request'[x].connection # None => request'[x].state # "none"
                      /\ request'[x].state = "open" => request'[x].by = "none"
                      /\ request'[x].state = "asked"
                            => request'[x].by # "none" /\ ~request'[x].aborted
    BY DEF Shaped
  <2>1. CASE request'[x] = request[x]  BY <2>1, <1>0 DEF Shaped
  <2>2. CASE /\ connection[c].request = x /\ request[x].state = "open"
             /\ request'[x].connection = c /\ request[x].connection = c
             /\ request'[x].state = "open" /\ request'[x].by = request[x].by
    BY <2>2, <1>0, Numbers DEF Shaped
  <2>3. CASE request'[x] = Asked(c, by)
    BY <2>3, <1>a, Numbers
  <2> QED  BY <2>1, <2>2, <2>3 DEF Launched
<1>2. Pointed'
  <2> SUFFICES ASSUME NEW x \in Connections, connection'[x].request # None
               PROVE  /\ request'[connection'[x].request].state = "open"
                      /\ request'[connection'[x].request].connection = x
    BY DEF Pointed
  <2> DEFINE q == connection[x].request
  <2>1. connection'[x].request = q  BY DEF Relabelled
  <2>2. q \in Requests /\ request[q].state = "open" /\ request[q].connection = x
    BY <2>1, <1>0, <1>b DEF Pointed, ConnType
  <2>3. q \notin Free  BY <2>2, Numbers DEF Free, RequestsOf
  <2> HIDE DEF q
  <2> QED  BY <2>1, <2>2, <2>3 DEF Launched
<1>3. ASSUME NEW x \in Connections PROVE Asking(x)' = Asking(x)
  <2>1. ASSUME NEW q \in Requests
        PROVE  (request'[q].connection = x /\ request'[q].by = "reconnect")
                 <=> (request[q].connection = x /\ request[q].by = "reconnect")
    <3>1. CASE request'[q] = request[q]  BY <3>1
    <3>2. CASE /\ connection[c].request = q /\ request[q].state = "open"
               /\ request'[q].connection = c /\ request[q].connection = c
               /\ request'[q].state = "open" /\ request'[q].by = request[q].by
      BY <3>2
    <3>3. CASE q \in Free /\ request'[q] = Asked(c, by)
      <4>1. request'[q].by # "reconnect"  BY <3>3, <1>a
      <4>2. request[q].by # "reconnect"  BY <3>3, <1>c, NoRequestType
      <4> QED  BY <4>1, <4>2
    <3> QED  BY <3>1, <3>2, <3>3 DEF Launched
  <2> QED  BY <2>1 DEF Asking, RequestsOf
<1>4. OneEach'
  <2>1. ASSUME NEW x \in Connections
        PROVE  /\ connection'[x].sleeping = connection[x].sleeping
               /\ connection'[x].isReconnecting = connection[x].isReconnecting
    BY DEF Relabelled
  <2> QED  BY <1>0, <1>3, <2>1 DEF OneEach
<1>5. RoomForAll'
  <2>1. Sleeping' = Sleeping
    BY DEF Sleeping, Relabelled
  <2>2. ASSUME NEW x \in Free, request'[x] = request[x] PROVE x \in Free'
    BY <2>2 DEF Free, RequestsOf
  <2>3. ASSUME NEW x \in Free' PROVE x \in Free
    <3>1. x \in Requests /\ request'[x].connection = None
      BY <2>3 DEF Free, RequestsOf
    <3>2. request'[x] = request[x]
      BY <3>1, <1>a, Numbers DEF Launched
    <3> QED  BY <3>1, <3>2 DEF Free, RequestsOf
  <2>4. IsFiniteSet(Free') /\ Cardinality(Free') \in Nat
    <3>1. IsFiniteSet(Free')  BY <2>3, <1>0, CountFree, CountSubset
    <3> QED  BY <3>1, FS_CardinalityType
  <2>5. CASE \A x \in Free : request'[x] = request[x]
    <3>1. Free' = Free  BY <2>2, <2>3, <2>5
    <3> QED  BY <3>1, <2>1, <1>0 DEF RoomForAll
  <2>6. CASE Room /\ \E q \in Free : \A x \in Free \ {q} : request'[x] = request[x]
    <3>1. PICK q \in Free : \A x \in Free \ {q} : request'[x] = request[x]
      BY <2>6
    <3>2. Free \ {q} \subseteq Free'  BY <3>1, <2>2
    <3>3. Cardinality(Free) <= Cardinality(Free') + 1
      BY <3>2, <2>4, <1>0, CountFree, CountLess
    <3>4. Cardinality(Sleeping) < Cardinality(Free)
      BY <2>6, <1>0, CountFree DEF Room, Free, Sleeping
    <3>5. Cardinality(Sleeping) <= Cardinality(Free')
      BY <3>3, <3>4, <2>4, <1>0, CountFree
    <3> QED  BY <3>5, <2>1 DEF RoomForAll
  <2> QED  BY <2>5, <2>6 DEF Launched
<1>6. ASSUME NEW x \in Connections \ {c}, Live(x) PROVE Live(x)'
  <2>1. connection'[x] = connection[x]  BY DEF Relabelled
  <2>2. CASE connection[x].isReconnecting
    BY <2>1, <2>2 DEF Live
  <2>3. CASE \E q \in RequestsOf(x) : ~request[q].aborted
    <3>1. PICK q \in RequestsOf(x) : ~request[q].aborted  BY <2>3
    <3>2. q \in Requests /\ request[q].connection = x  BY DEF RequestsOf
    <3>3. request'[q] = request[q]
      BY <3>2, Numbers DEF Launched, Free, RequestsOf
    <3> QED  BY <3>1, <3>2, <3>3 DEF Live, RequestsOf
  <2> QED  BY <1>6, <2>2, <2>3 DEF Live
<1> QED  BY <1>1, <1>2, <1>4, <1>5, <1>6

-----------------------------------------------------------------------------
(* The parts of the actions                                                *)

LEMMA FreshIsUnused ==
    ASSUME Unused # {}
    PROVE  Fresh \in Unused
  BY DEF Fresh

LEMMA RoomIsFree ==
    ASSUME IInv, Room \/ Sleeping # {}
    PROVE  Free # {}
<1>1. /\ Cardinality(Free) \in Nat /\ Cardinality(Sleeping) \in Nat
      /\ IsFiniteSet(Free) /\ IsFiniteSet(Sleeping)
  BY CountFree DEF IInv
<1>2. CASE Room
  <2>1. Cardinality(Free) # 0  BY <1>1, <1>2 DEF Room, Free, Sleeping
  <2> QED  BY <2>1, FS_EmptySet
<1>3. CASE Sleeping # {}
  <2>1. Cardinality(Sleeping) # 0  BY <1>1, <1>3, FS_EmptySet
  <2>2. Cardinality(Sleeping) <= Cardinality(Free)  BY DEF IInv, RoomForAll
  <2>3. Cardinality(Free) # 0  BY <2>1, <2>2, <1>1
  <2> QED  BY <2>3, FS_EmptySet
<1> QED  BY <1>2, <1>3

(* A start takes a free request, while the monitor runs.                   *)
LEMMA StartTakes ==
    ASSUME NEW c, NEW by, NEW rs, Free # {}, StartWatch(c, by, rs)
    PROVE  /\ isMonitoring => \E q \in Free : request' = [rs EXCEPT ![q] = Asked(c, by)]
           /\ ~isMonitoring => request' = rs
<1> DEFINE q == CHOOSE q \in RequestsOf(None) : TRUE
<1>1. q \in Free  BY DEF Free
<1>2. CASE isMonitoring
  <2>1. request' = [rs EXCEPT ![q] = Asked(c, by)]
    BY <1>2 DEF StartWatch, MayStart, Asked
  <2> HIDE DEF q
  <2> QED  BY <1>1, <1>2, <2>1
<1>3. CASE ~isMonitoring
  BY <1>3 DEF StartWatch, MayStart
<1> QED  BY <1>2, <1>3

(* A plain start is a launch.                                              *)
LEMMA StartLaunches ==
    ASSUME IInv, NEW c \in Connections, NEW by \in {"create", "update", "start"},
           Room, StartWatch(c, by, request)
    PROVE  /\ Launched(c, by)
           /\ isMonitoring => \E q \in Requests :
                 request'[q].connection = c /\ ~request'[q].aborted
<1>1. Free # {}  BY RoomIsFree
<1>2. request \in [Requests -> ReqType]  BY Types DEF IInv
<1>3. /\ Asked(c, by) \in ReqType
      /\ Asked(c, by).connection = c /\ Asked(c, by).state = "asked"
      /\ Asked(c, by).aborted = FALSE /\ Asked(c, by).by = by
  <2>1. by \in {"create", "update", "reconnect", "start"}  OBVIOUS
  <2> QED  BY <2>1, AskedType
<1>4. CASE isMonitoring
  <2>1. PICK q \in Free : request' = [request EXCEPT ![q] = Asked(c, by)]
    BY <1>1, <1>4, StartTakes
  <2>2. q \in Requests  BY DEF Free, RequestsOf
  <2>3. request' \in [Requests -> ReqType] /\ request'[q] = Asked(c, by)
        /\ \A x \in Requests \ {q} : request'[x] = request[x]
    BY <1>2, <1>3, <2>1, <2>2
  <2>4. \A x \in Free \ {q} : request'[x] = request[x]
    BY <2>3 DEF Free, RequestsOf
  <2> QED  BY <1>3, <2>2, <2>3, <2>4 DEF Launched
<1>5. CASE ~isMonitoring
  <2>1. request' = request  BY <1>1, <1>5, StartTakes
  <2> QED  BY <1>2, <1>5, <2>1 DEF Launched
<1> QED  BY <1>4, <1>5

(* The request that a connection aborts is an open one of its own.         *)
LEMMA AbortPoints ==
    ASSUME IInv, NEW c \in Connections, NEW rs, rs = AbortRequest(c, request)
    PROVE  /\ rs \in [Requests -> ReqType]
           /\ \A x \in Requests :
                 \/ rs[x] = request[x]
                 \/ /\ connection[c].request = x /\ request[x].state = "open"
                    /\ rs[x].connection = c /\ request[x].connection = c
                    /\ rs[x].state = "open" /\ rs[x].by = request[x].by
           /\ \A x \in Free : rs[x] = request[x]
<1> DEFINE q == connection[c].request
<1>1. request \in [Requests -> ReqType] /\ connection \in [Connections -> ConnType]
  BY Types DEF IInv
<1>2. CASE q = None
  <2>1. rs = request  BY <1>2 DEF AbortRequest
  <2> QED  BY <1>1, <2>1 DEF Free, RequestsOf
<1>3. CASE q # None
  <2>1. rs = [request EXCEPT ![q].aborted = TRUE]
    BY <1>3 DEF AbortRequest
  <2>2. q \in Requests /\ request[q].state = "open" /\ request[q].connection = c
    BY <1>1, <1>3 DEF IInv, Pointed, ConnType
  <2>3. \A x \in Requests \ {q} : rs[x] = request[x]
    <3> HIDE DEF q
    <3> QED  BY <1>1, <2>1
  <2>4. rs[q] \in ReqType /\ rs[q].connection = request[q].connection
        /\ rs[q].state = request[q].state /\ rs[q].by = request[q].by
    <3> HIDE DEF q
    <3>1. request[q] \in ReqType  BY <1>1, <2>2
    <3>2. rs[q] = [request[q] EXCEPT !.aborted = TRUE]  BY <1>1, <2>1, <2>2
    <3> QED  BY <3>1, <3>2 DEF ReqType
  <2>5. rs \in [Requests -> ReqType]
    <3> HIDE DEF q
    <3>1. DOMAIN rs = Requests /\ rs = [x \in Requests |-> rs[x]]  BY <1>1, <2>1
    <3> QED  BY <1>1, <2>3, <2>4, <3>1
  <2>6. \A x \in Free : rs[x] = request[x]
    BY <2>2, <2>3, Numbers DEF Free, RequestsOf
  <2> QED  BY <2>2, <2>3, <2>4, <2>5, <2>6
<1> QED  BY <1>2, <1>3

(* An update of the selector is a launch that keeps a watch of c.          *)
LEMMA UpdateLaunches ==
    ASSUME IInv, NEW c \in Connections, NEW names \in SUBSET Resources,
           Room, UpdateSelector(c, names)
    PROVE  /\ Launched(c, "update") /\ Relabelled(c)
           /\ connection'[c].names = names /\ connection'[c].told = connection[c].told
           /\ (isMonitoring /\ Live(c)) => Live(c)'
<1> DEFINE rs == AbortRequest(c, request)
<1>1. request \in [Requests -> ReqType] /\ connection \in [Connections -> ConnType]
  BY Types DEF IInv
<1>2. connection' = [connection EXCEPT ![c].names = names]
  BY DEF UpdateSelector
<1>3. /\ Relabelled(c)
      /\ connection'[c].names = names /\ connection'[c].told = connection[c].told
      /\ connection'[c].isReconnecting = connection[c].isReconnecting
  <2>1. connection'[c] = [connection[c] EXCEPT !.names = names]
        /\ \A x \in Connections \ {c} : connection'[x] = connection[x]
    BY <1>1, <1>2
  <2>2. connection[c] \in ConnType  BY <1>1
  <2>3. connection'[c] \in ConnType /\ connection'[c].names = names
        /\ connection'[c].told = connection[c].told
        /\ connection'[c].sleeping = connection[c].sleeping
        /\ connection'[c].isReconnecting = connection[c].isReconnecting
        /\ connection'[c].request = connection[c].request
    BY <2>1, <2>2 DEF ConnType
  <2>4. connection' \in [Connections -> ConnType]
    <3>1. DOMAIN connection' = Connections
          /\ connection' = [x \in Connections |-> connection'[x]]
      BY <1>1, <1>2
    <3> QED  BY <1>1, <2>1, <2>3, <3>1
  <2> QED  BY <2>1, <2>3, <2>4 DEF Relabelled
<1>4. CASE UNCHANGED request
  BY <1>1, <1>3, <1>4 DEF Launched, Live, RequestsOf
<1>5. CASE StartWatch(c, "update", rs)
  <2>1. Free # {}  BY RoomIsFree
  <2>2. /\ rs \in [Requests -> ReqType]
        /\ \A x \in Requests :
              \/ rs[x] = request[x]
              \/ /\ connection[c].request = x /\ request[x].state = "open"
                 /\ rs[x].connection = c /\ request[x].connection = c
                 /\ rs[x].state = "open" /\ rs[x].by = request[x].by
        /\ \A x \in Free : rs[x] = request[x]
    BY AbortPoints
  <2>3. /\ Asked(c, "update") \in ReqType /\ Asked(c, "update").connection = c
        /\ Asked(c, "update").aborted = FALSE
    BY AskedType
  <2> HIDE DEF rs
  <2>4. CASE isMonitoring
    <3>1. PICK q \in Free : request' = [rs EXCEPT ![q] = Asked(c, "update")]
      BY <1>5, <2>1, <2>4, StartTakes
    <3>2. q \in Requests  BY DEF Free, RequestsOf
    <3>3. request' \in [Requests -> ReqType] /\ request'[q] = Asked(c, "update")
          /\ \A x \in Requests \ {q} : request'[x] = rs[x]
      BY <2>2, <2>3, <3>1, <3>2
    <3>4. \A x \in Free \ {q} : request'[x] = request[x]
      BY <2>2, <3>3 DEF Free, RequestsOf
    <3>5. Launched(c, "update")  BY <2>2, <3>3, <3>4 DEF Launched
    <3>6. Live(c)'  BY <2>3, <3>2, <3>3 DEF Live, RequestsOf
    <3> QED  BY <1>3, <3>5, <3>6
  <2>5. CASE ~isMonitoring
    <3>1. request' = rs  BY <1>5, <2>1, <2>5, StartTakes
    <3>2. Launched(c, "update")  BY <2>2, <3>1 DEF Launched
    <3> QED  BY <1>3, <2>5, <3>2
  <2> QED  BY <2>4, <2>5
<1> QED  BY <1>4, <1>5 DEF UpdateSelector

(* Creating a connection on an unused object is a launch too.              *)
LEMMA FreshRelabelled ==
    ASSUME IInv, Unused # {}, NEW names \in SUBSET Resources,
           connection' = [connection EXCEPT ![Fresh] = NewConnection(names)]
    PROVE  /\ Fresh \in Connections /\ Fresh \notin Range(map) /\ ~Live(Fresh)
           /\ Relabelled(Fresh) /\ connection'[Fresh].names = names
<1>1. Fresh \in Connections /\ Fresh \notin Range(map) /\ RequestsOf(Fresh) = {}
      /\ ~connection[Fresh].sleeping
  BY FreshIsUnused DEF Unused
<1> DEFINE c == Fresh
<1> HIDE DEF c
<1>2. ~connection[c].isReconnecting
  <2>1. Asking(c) = {}  BY <1>1 DEF Asking, c
  <2>2. ~connection[c].sleeping /\ c \in Connections  BY <1>1 DEF c
  <2> QED  BY <2>1, <2>2 DEF IInv, OneEach
<1>3. connection \in [Connections -> ConnType]  BY Types DEF IInv
<1>4. connection' = [connection EXCEPT ![c] = NewConnection(names)]  BY DEF c
<1>5. /\ NewConnection(names) \in ConnType /\ NewConnection(names).names = names
      /\ NewConnection(names).isReconnecting = FALSE
      /\ NewConnection(names).sleeping = FALSE /\ NewConnection(names).request = None
  BY NewConnectionType
<1>6. c \in Connections /\ ~connection[c].sleeping  BY <1>1 DEF c
<1>7. connection[c].sleeping = FALSE /\ connection[c].isReconnecting = FALSE
  BY <1>2, <1>3, <1>6 DEF ConnType
<1>8. connection' \in [Connections -> ConnType] /\ connection'[c] = NewConnection(names)
      /\ \A x \in Connections \ {c} : connection'[x] = connection[x]
  BY <1>3, <1>4, <1>5, <1>6
<1>9. Relabelled(c) /\ connection'[c].names = names
  BY <1>5, <1>7, <1>8 DEF Relabelled
<1>10. ~Live(c)  BY <1>1, <1>2 DEF Live, c
<1> QED  BY <1>1, <1>9, <1>10 DEF c

-----------------------------------------------------------------------------
(* The steps                                                               *)

Plain ==
    /\ isMonitoring \in BOOLEAN /\ start \in {"no", "version", "done"}
    /\ monitored \subseteq Resources /\ told \subseteq Resources
    /\ map \in [{"namespace", "kind"} -> Connections \cup {None}]

LEMMA Assemble ==
    ASSUME Plain', connection' \in [Connections -> ConnType],
           request' \in [Requests -> ReqType], start' = "done",
           Shaped', Pointed', Apart', OneEach', RoomForAll', WatchedOrTold'
    PROVE  IInv'
<1>1. TypeOK'  BY DEF Plain, TypeOK, ConnType, ReqType
<1>2. Fresh0'  BY DEF Fresh0
<1> QED  BY <1>1, <1>2 DEF IInv

LEMMA Parts ==
    ASSUME IInv
    PROVE  /\ TypeOK /\ Fresh0 /\ Shaped /\ Pointed /\ Apart /\ OneEach /\ RoomForAll
           /\ WatchedOrTold /\ Plain
           /\ connection \in [Connections -> ConnType]
           /\ request \in [Requests -> ReqType]
  BY Types DEF IInv, TypeOK, Plain

LEMMA MapRange ==
    ASSUME map \in [{"namespace", "kind"} -> Connections \cup {None}]
    PROVE  Range(map) = {map.namespace, map.kind}
  BY DEF Range

\* the connections that must be watched, and the resources that must be
LEMMA Watched ==
    ASSUME IInv, isMonitoring
    PROVE  /\ map.kind # None => Live(map.kind) \/ connection[map.kind].told
           /\ map.namespace # None => Live(map.namespace) \/ connection[map.namespace].told
           /\ \A r \in monitored \ told :
                 \E c \in Connections : r \in connection[c].names /\ Live(c)
  BY Parts, MapRange DEF WatchedOrTold, Plain

LEMMA WatchedNext ==
    ASSUME Plain',
           (map.kind # None => Live(map.kind) \/ connection[map.kind].told)',
           (map.namespace # None => Live(map.namespace) \/ connection[map.namespace].told)',
           (\A r \in monitored \ told :
                 \E c \in Connections : r \in connection[c].names /\ Live(c))'
    PROVE  WatchedOrTold'
<1>1. Range(map)' = {map.namespace, map.kind}'  BY MapRange DEF Plain, Range
<1> QED  BY <1>1 DEF WatchedOrTold

(* A resource that is in its place with another connection stays there.    *)
LEMMA OthersWatched ==
    ASSUME IInv, isMonitoring, NEW c \in Connections,
           Relabelled(c), \A x \in Connections \ {c} : Live(x) => Live(x)',
           NEW r \in monitored \ told,
           r \in connection[c].names /\ Live(c) => r \in connection'[c].names /\ Live(c)'
    PROVE  \E x \in Connections : r \in connection'[x].names /\ Live(x)'
<1>1. PICK x \in Connections : r \in connection[x].names /\ Live(x)  BY Watched
<1>2. CASE x = c  BY <1>1, <1>2
<1>3. CASE x # c
  <2>1. connection'[x] = connection[x]  BY <1>3 DEF Relabelled
  <2> QED  BY <1>1, <1>3, <2>1
<1> QED  BY <1>2, <1>3

LEMMA ApartAfterLaunch ==
    ASSUME IInv, NEW c \in Connections, NEW by \in {"create", "update", "start"},
           Launched(c, by), by = "create" => c # map.namespace,
           map'.namespace = map.namespace, map'.kind \in {None, map.kind, c},
           c = map.kind \/ by = "create"
    PROVE  Apart'
<1> SUFFICES ASSUME map.namespace # None
             PROVE  /\ map'.namespace # map'.kind
                    /\ \A q \in Requests : request'[q].connection = map'.namespace
                          => request'[q].by # "create"
  BY DEF Apart
<1>1. map'.namespace # map'.kind  BY Parts DEF Apart
<1>2. ASSUME NEW q \in Requests, request'[q].connection = map'.namespace
      PROVE  request'[q].by # "create"
  <2>a. /\ Asked(c, by) \in ReqType
        /\ Asked(c, by).connection = c /\ Asked(c, by).state = "asked"
        /\ Asked(c, by).aborted = FALSE /\ Asked(c, by).by = by
    <3>1. by \in {"create", "update", "reconnect", "start"}  OBVIOUS
    <3> QED  BY <3>1, AskedType
  <2>1. CASE request'[q] = request[q]  BY <1>2, <2>1, Parts DEF Apart
  <2>2. CASE request[q].connection = c /\ request'[q].connection = c
             /\ request'[q].by = request[q].by
    BY <1>2, <2>2, Parts DEF Apart
  <2>3. CASE request'[q] = Asked(c, by)
    BY <1>2, <2>3, <2>a
  <2> QED  BY <2>1, <2>2, <2>3 DEF Launched
<1> QED  BY <1>1, <1>2

LEMMA CreateKeeps ==
    ASSUME IInv, NEW r \in Resources, AddResource(r), Create(r), told' = told \ {r}
    PROVE  IInv'
<1>0. PICK c : c = Fresh  OBVIOUS
<1>1. /\ start = "done" /\ start' = start /\ Room /\ isMonitoring' = isMonitoring
      /\ monitored' = monitored \cup {r}
  BY DEF AddResource
<1>2. /\ map.kind = None /\ Unused # {}
      /\ connection' = [connection EXCEPT ![c] = NewConnection({r})]
      /\ StartWatch(c, "create", request)
      /\ map' = IF isMonitoring THEN map ELSE [map EXCEPT !.kind = c]
  BY <1>0 DEF Create, MayStart
<1>3. /\ c \in Connections /\ c \notin Range(map) /\ ~Live(c)
      /\ Relabelled(c) /\ connection'[c].names = {r}
  BY <1>0, <1>2, FreshRelabelled
<1>4. /\ Launched(c, "create")
      /\ isMonitoring => \E q \in Requests :
            request'[q].connection = c /\ ~request'[q].aborted
  BY <1>1, <1>2, <1>3, StartLaunches
<1>5. /\ Shaped' /\ Pointed' /\ OneEach' /\ RoomForAll'
      /\ \A x \in Connections \ {c} : Live(x) => Live(x)'
  BY <1>3, <1>4, LaunchKeeps
<1>6. Plain'
  <2>1. map' \in [{"namespace", "kind"} -> Connections \cup {None}]
    BY <1>2, <1>3, Parts DEF Plain
  <2> QED  BY <1>1, <2>1, Parts DEF Plain
<1>a. Apart'
  <2>1. map'.namespace = map.namespace /\ map'.kind \in {None, map.kind, c}
    BY <1>2, Parts DEF Plain
  <2>2. c # map.namespace  BY <1>3, Parts, MapRange DEF Plain
  <2> QED  BY <1>3, <1>4, <2>1, <2>2, ApartAfterLaunch
<1>7. CASE isMonitoring
  <2>1. map' = map  BY <1>2, <1>7
  <2>2. Live(c)'  BY <1>4, <1>7 DEF Live, RequestsOf
  <2>3. (map.kind # None => Live(map.kind) \/ connection[map.kind].told)'
    BY <1>2, <2>1
  <2>4. (map.namespace # None => Live(map.namespace) \/ connection[map.namespace].told)'
    <3> SUFFICES ASSUME map.namespace # None
                 PROVE  Live(map.namespace)' \/ connection'[map.namespace].told
      BY <2>1
    <3>0. PICK x : x = map.namespace  OBVIOUS
    <3>1. x \in Connections /\ x # c
      BY <3>0, <1>3, Parts, MapRange DEF Plain
    <3>2. Live(x) \/ connection[x].told  BY <3>0, <1>7, Watched
    <3>3. Live(x)' \/ connection'[x].told  BY <1>3, <1>5, <3>1, <3>2 DEF Relabelled
    <3> QED  BY <2>1, <3>0, <3>3
  <2>5. ASSUME NEW s \in (monitored \ told)'
        PROVE  \E x \in Connections : s \in connection'[x].names /\ Live(x)'
    <3>1. CASE s = r  BY <1>3, <2>2, <3>1
    <3>2. CASE s # r
      <4>1. s \in monitored \ told  BY <1>1, <3>2
      <4> QED  BY <1>3, <1>5, <1>7, <4>1, OthersWatched
    <3> QED  BY <3>1, <3>2
  <2>6. WatchedOrTold'  BY <1>6, <2>3, <2>4, <2>5, WatchedNext
  <2> QED  BY <1>a, <1>1, <1>3, <1>4, <1>5, <1>6, <2>6, Assemble DEF Launched, Relabelled
<1>8. CASE ~isMonitoring
  <2>1. WatchedOrTold'  BY <1>1, <1>8 DEF WatchedOrTold
  <2> QED  BY <1>a, <1>1, <1>3, <1>4, <1>5, <1>6, <2>1, Assemble DEF Launched, Relabelled
<1> QED  BY <1>7, <1>8

(* A selector that changes keeps the invariant if the map stays as it is   *)
(* and the resources of the other names are still monitored.               *)
LEMMA UpdateKeeps ==
    ASSUME IInv, NEW c \in Connections, c = map.kind, NEW names \in SUBSET Resources,
           Room, UpdateSelector(c, names), start = "done",
           UNCHANGED <<start, isMonitoring, map>>,
           monitored' \subseteq Resources, told' \subseteq Resources,
           \A s \in (monitored \ told)' :
              \/ s \in monitored \ told /\ (s \in connection[c].names => s \in names)
              \/ s \in names /\ ~connection[c].told
    PROVE  IInv'
<1>1. /\ Launched(c, "update") /\ Relabelled(c)
      /\ connection'[c].names = names /\ connection'[c].told = connection[c].told
      /\ (isMonitoring /\ Live(c)) => Live(c)'
  BY UpdateLaunches
<1>2. /\ Shaped' /\ Pointed' /\ OneEach' /\ RoomForAll'
      /\ \A x \in Connections \ {c} : Live(x) => Live(x)'
  BY <1>1, LaunchKeeps
<1>3. Plain'  BY Parts DEF Plain
<1>a. Apart'  BY <1>1, ApartAfterLaunch
<1>4. WatchedOrTold'
  <2>1. CASE ~isMonitoring  BY <2>1 DEF WatchedOrTold
  <2>2. CASE isMonitoring
    <3>1. c # None /\ (Live(c) \/ connection[c].told)  BY <2>2, Watched, Numbers
    <3>2. Live(c)' \/ connection'[c].told  BY <1>1, <2>2, <3>1
    <3>3. (map.kind # None => Live(map.kind) \/ connection[map.kind].told)'
      BY <3>2
    <3>4. (map.namespace # None => Live(map.namespace) \/ connection[map.namespace].told)'
      <4> SUFFICES ASSUME map.namespace # None
                   PROVE  Live(map.namespace)' \/ connection'[map.namespace].told
        OBVIOUS
      <4>0. PICK x : x = map.namespace  OBVIOUS
      <4>1. x \in Connections  BY <4>0, Parts DEF Plain
      <4>2. Live(x) \/ connection[x].told  BY <4>0, <2>2, Watched
      <4>3. Live(x)' \/ connection'[x].told
        BY <1>1, <1>2, <3>2, <4>1, <4>2 DEF Relabelled
      <4> QED  BY <4>0, <4>3
    <3>5. ASSUME NEW s \in (monitored \ told)'
          PROVE  \E x \in Connections : s \in connection'[x].names /\ Live(x)'
      <4>1. CASE s \in monitored \ told /\ (s \in connection[c].names => s \in names)
        BY <1>1, <1>2, <2>2, <4>1, OthersWatched
      <4>2. CASE s \in names /\ ~connection[c].told
        BY <1>1, <2>2, <3>1, <4>2
      <4> QED  BY <3>5, <4>1, <4>2
    <3> QED  BY <1>3, <3>3, <3>4, <3>5, WatchedNext
  <2> QED  BY <2>1, <2>2
<1> QED  BY <1>a, <1>1, <1>2, <1>3, <1>4, Assemble DEF Launched, Relabelled

LEMMA AddKeeps ==
    ASSUME IInv, NEW r \in Resources, AddResource(r)
    PROVE  IInv'
<1>1. CASE Create(r) /\ told' = told \ {r}  BY <1>1, CreateKeeps
<1>2. CASE /\ map.kind # None /\ UNCHANGED map
           /\ UpdateSelector(map.kind, connection[map.kind].names \cup {r})
           /\ told' = IF connection[map.kind].told THEN told \cup {r} ELSE told \ {r}
  <2> DEFINE c == map.kind
  <2>1. c \in Connections  BY <1>2, Parts DEF Plain
  <2> HIDE DEF c
  <2>2. connection[c].names \cup {r} \in SUBSET Resources
    BY <2>1, Parts DEF ConnType
  <2>3. /\ Room /\ UpdateSelector(c, connection[c].names \cup {r})
        /\ start = "done" /\ UNCHANGED <<start, isMonitoring, map>>
        /\ monitored' = monitored \cup {r}
        /\ told' = IF connection[c].told THEN told \cup {r} ELSE told \ {r}
    BY <1>2 DEF AddResource, c
  <2>4. monitored' \subseteq Resources /\ told' \subseteq Resources
    BY <2>3, Parts DEF Plain
  <2>5. \A s \in (monitored \ told)' :
           \/ s \in monitored \ told
              /\ (s \in connection[c].names => s \in connection[c].names \cup {r})
           \/ s \in connection[c].names \cup {r} /\ ~connection[c].told
    BY <2>3
  <2> QED  BY <2>1, <2>2, <2>3, <2>4, <2>5, UpdateKeeps DEF c
<1> QED  BY <1>1, <1>2 DEF AddResource

(* Nothing but the session changes: it starts without resources, and ends  *)
(* without connections.                                                    *)
LEMMA SessionKeeps ==
    ASSUME IInv, StartMonitoring \/ StopMonitoring
    PROVE  IInv'
<1>1. UNCHANGED <<connection, request, told>>
  BY DEF StartMonitoring, StopMonitoring
<1>2. Shaped' /\ Pointed' /\ OneEach' /\ RoomForAll'
  BY <1>1, Parts DEF Shaped, Pointed, OneEach, Asking, RoomForAll, Free, Sleeping, RequestsOf
<1>a. ASSUME map' = map \/ map'.namespace = None PROVE Apart'
  BY <1>a, <1>1, Parts DEF Apart
<1>3. CASE StartMonitoring
  <2>1. start = "no" /\ start' = "version" /\ isMonitoring' = TRUE
        /\ UNCHANGED <<monitored, map>>
    BY <1>3 DEF StartMonitoring
  <2>2. monitored = {} /\ map = NoMap
    BY <2>1, Parts DEF Fresh0
  <2>3. Fresh0'
    BY <1>1, <2>1, Parts DEF Fresh0
  <2>4. TypeOK'
    <3>1. isMonitoring' \in BOOLEAN /\ start' \in {"no", "version", "done"}
      BY <2>1
    <3> QED  BY <1>1, <2>1, <3>1, Parts DEF TypeOK
  <2>5. WatchedOrTold'
    <3>1. map.kind = None /\ map.namespace = None  BY <2>2 DEF NoMap
    <3>2. Plain'  BY <2>4 DEF TypeOK, Plain
    <3> QED  BY <2>1, <2>2, <3>1, <3>2, WatchedNext
  <2> QED  BY <1>a, <1>2, <2>1, <2>3, <2>4, <2>5 DEF IInv
<1>4. CASE StopMonitoring
  <2>1. /\ isMonitoring' = FALSE /\ monitored' = {} /\ start' = start
        /\ map' = [k \in DOMAIN map |-> None]
    BY <1>4 DEF StopMonitoring, Stopped
  <2>2. map' = [k \in {"namespace", "kind"} |-> None]
    BY <2>1, Parts DEF Plain
  <2>3. map' \in [{"namespace", "kind"} -> Connections \cup {None}]
    BY <2>2
  <2>4. map' = NoMap  BY <2>2 DEF NoMap
  <2>5. Fresh0'  BY <1>1, <2>1, <2>4, Parts DEF Fresh0
  <2>6. TypeOK'
    <3>1. isMonitoring' \in BOOLEAN  BY <2>1
    <3> QED  BY <1>1, <2>1, <2>3, <3>1, Parts DEF TypeOK
  <2>7. WatchedOrTold'  BY <2>1 DEF WatchedOrTold
  <2>8. map'.namespace = None  BY <2>2
  <2> QED  BY <1>a, <1>2, <2>5, <2>6, <2>7, <2>8 DEF IInv
<1> QED  BY <1>3, <1>4

LEMMA NamespaceWideKeeps ==
    ASSUME IInv, CreateNamespaceWide
    PROVE  IInv'
<1>1. /\ start = "version" /\ start' = "done"
      /\ map' = [map EXCEPT !.namespace = Fresh]
      /\ connection' = [connection EXCEPT ![Fresh] = NewConnection({})]
      /\ StartWatch(Fresh, "start", request)
      /\ UNCHANGED <<isMonitoring, monitored, told>>
  BY DEF CreateNamespaceWide
<1>2. /\ monitored = {} /\ map = NoMap
      /\ \A q \in Requests : request[q] = NoRequest
      /\ \A c \in Connections : ~connection[c].sleeping
  BY <1>1, Parts DEF Fresh0
<1>3. map.kind = None /\ map.namespace = None
  BY <1>2 DEF NoMap
<1>4. Unused = Connections
  <2>1. Range(map) = {None}  BY <1>3, Parts, MapRange DEF Plain
  <2>2. \A c \in Connections : RequestsOf(c) = {}
    BY <1>2, NoRequestType, Numbers DEF RequestsOf
  <2> QED  BY <1>2, <2>1, <2>2, Numbers DEF Unused
<1>5. Room
  <2>1. Free = Requests  BY <1>2, NoRequestType DEF Free, RequestsOf
  <2>2. Sleeping = {}  BY <1>2 DEF Sleeping
  <2>3. Cardinality(Requests) \in Nat /\ Cardinality(Requests) # 0
    BY Numbers, FS_EmptySet, FS_CardinalityType
  <2>4. Cardinality(Sleeping) = 0  BY <2>2, FS_EmptySet
  <2>5. Cardinality(Free) > Cardinality(Sleeping)  BY <2>1, <2>3, <2>4
  <2> QED  BY <2>5 DEF Room, Free, Sleeping
<1>6. PICK c : c = Fresh  OBVIOUS
<1>7. c \in Connections /\ Relabelled(c)
  <2>1. Unused # {} /\ {} \in SUBSET Resources  BY <1>4, Numbers
  <2> QED  BY <1>1, <1>6, <2>1, FreshRelabelled
<1>8. /\ Launched(c, "start")
      /\ isMonitoring => \E q \in Requests :
            request'[q].connection = c /\ ~request'[q].aborted
  BY <1>1, <1>5, <1>6, <1>7, StartLaunches
<1>9. Shaped' /\ Pointed' /\ OneEach' /\ RoomForAll'
  BY <1>7, <1>8, LaunchKeeps
<1>10. Plain'
  <2>1. map' \in [{"namespace", "kind"} -> Connections \cup {None}]
    BY <1>1, <1>6, <1>7, Parts DEF Plain
  <2> QED  BY <1>1, <2>1, Parts DEF Plain
<1>a. Apart'
  <2>1. map'.kind = None /\ map'.namespace = c
    BY <1>1, <1>3, <1>6, Parts DEF Plain
  <2>2. ASSUME NEW q \in Requests PROVE request'[q].by # "create"
    <3>1. Asked(c, "start").by = "start"  BY <1>7, AskedType
    <3> QED  BY <1>2, <1>8, <3>1, NoRequestType DEF Launched
  <2> QED  BY <1>7, <2>1, <2>2, Numbers DEF Apart
<1>11. WatchedOrTold'
  <2>1. CASE ~isMonitoring  BY <1>1, <2>1 DEF WatchedOrTold
  <2>2. CASE isMonitoring
    <3>1. map'.kind = None /\ map'.namespace = c
      BY <1>1, <1>3, <1>6, Parts DEF Plain
    <3>2. Live(c)'  BY <1>8, <2>2 DEF Live, RequestsOf
    <3>3. (map.kind # None => Live(map.kind) \/ connection[map.kind].told)'
      BY <3>1
    <3>4. (map.namespace # None => Live(map.namespace) \/ connection[map.namespace].told)'
      BY <3>1, <3>2
    <3>5. (monitored \ told)' = {}  BY <1>1, <1>2
    <3> QED  BY <1>10, <3>3, <3>4, <3>5, WatchedNext
  <2> QED  BY <2>1, <2>2
<1> QED  BY <1>a, <1>1, <1>7, <1>8, <1>9, <1>10, <1>11, Assemble DEF Launched, Relabelled

LEMMA RemoveKeeps ==
    ASSUME IInv, NEW r \in Resources, RemoveResource(r)
    PROVE  IInv'
<1>0. PICK c : c = map.kind  OBVIOUS
<1> DEFINE names == connection[c].names \ {r}
<1>1. /\ r \in monitored /\ Room /\ monitored' = monitored \ {r}
      /\ UNCHANGED <<isMonitoring, start, told>>
  BY DEF RemoveResource
<1>2. start = "done"  BY <1>1, Parts DEF Fresh0, Plain
<1>3. (monitored \ told)' \subseteq monitored \ told /\ r \notin (monitored \ told)'
  BY <1>1
<1>4. CASE c = None /\ UNCHANGED <<map, connection, request>>
  <2>1. Shaped' /\ Pointed' /\ OneEach' /\ RoomForAll'
    BY <1>4, Parts DEF Shaped, Pointed, OneEach, Asking, RoomForAll, Free, Sleeping,
                       RequestsOf
  <2>a. Apart'  BY <1>4, Parts DEF Apart
  <2>2. Plain'  BY <1>1, <1>4, Parts DEF Plain
  <2>3. WatchedOrTold'
    <3>1. UNCHANGED <<map, connection, request, isMonitoring>>  BY <1>1, <1>4
    <3> QED  BY <1>3, <3>1, Parts DEF WatchedOrTold, Live, RequestsOf
  <2> QED  BY <2>a, <1>1, <1>2, <1>4, <2>1, <2>2, <2>3, Parts, Assemble
<1>5. CASE /\ c # None /\ names = {}
           /\ map' = [map EXCEPT !.kind = None]
           /\ connection' = [connection EXCEPT ![c].names = {}]
           /\ request' = AbortRequest(c, request)
  <2>1. c \in Connections  BY <1>0, <1>5, Parts DEF Plain
  <2>2. PICK rs : rs = AbortRequest(c, request)  OBVIOUS
  <2>3. /\ rs \in [Requests -> ReqType]
        /\ \A x \in Requests :
              \/ rs[x] = request[x]
              \/ /\ connection[c].request = x /\ request[x].state = "open"
                 /\ rs[x].connection = c /\ request[x].connection = c
                 /\ rs[x].state = "open" /\ rs[x].by = request[x].by
        /\ \A x \in Free : rs[x] = request[x]
    BY <2>1, <2>2, AbortPoints
  <2>4. Launched(c, "update")  BY <1>5, <2>2, <2>3 DEF Launched
  <2>5. Relabelled(c)
    <3>1. connection'[c] = [connection[c] EXCEPT !.names = {}]
          /\ \A x \in Connections \ {c} : connection'[x] = connection[x]
      BY <1>5, <2>1, Parts
    <3>2. connection[c] \in ConnType  BY <2>1, Parts
    <3>3. connection'[c] \in ConnType
          /\ connection'[c].sleeping = connection[c].sleeping
          /\ connection'[c].isReconnecting = connection[c].isReconnecting
          /\ connection'[c].request = connection[c].request
      BY <3>1, <3>2 DEF ConnType
    <3>4. connection' \in [Connections -> ConnType]
      <4>1. DOMAIN connection' = Connections
            /\ connection' = [x \in Connections |-> connection'[x]]
        BY <1>5, Parts
      <4> QED  BY <3>1, <3>3, <4>1, Parts
    <3> QED  BY <3>1, <3>3, <3>4 DEF Relabelled
  <2>6. /\ Shaped' /\ Pointed' /\ OneEach' /\ RoomForAll'
        /\ \A x \in Connections \ {c} : Live(x) => Live(x)'
    BY <2>1, <2>4, <2>5, LaunchKeeps
  <2>7. map' \in [{"namespace", "kind"} -> Connections \cup {None}]
        /\ map'.kind = None /\ map'.namespace = map.namespace
    BY <1>5, Parts DEF Plain
  <2>a. Apart'  BY <1>0, <2>1, <2>4, <2>7, ApartAfterLaunch
  <2>8. Plain'  BY <1>1, <2>7, Parts DEF Plain
  <2>9. WatchedOrTold'
    <3>1. CASE ~isMonitoring  BY <1>1, <3>1 DEF WatchedOrTold
    <3>2. CASE isMonitoring
      <4>1. (map.kind # None => Live(map.kind) \/ connection[map.kind].told)'
        BY <2>7
      <4>2. (map.namespace # None
               => Live(map.namespace) \/ connection[map.namespace].told)'
        <5> SUFFICES ASSUME map.namespace # None
                     PROVE  (Live(map.namespace) \/ connection[map.namespace].told)'
          BY <2>7
        <5>0. PICK x : x = map.namespace /\ x = map'.namespace  BY <2>7
        <5>1. x \in Connections /\ (Live(x) \/ connection[x].told)
          BY <5>0, <3>2, Parts, Watched DEF Plain
        <5>2. CASE x # c  BY <5>0, <5>1, <5>2, <2>5, <2>6 DEF Relabelled
        <5>3. CASE x = c  BY <5>0, <5>1, <5>3, <1>0, Numbers, Parts DEF Apart
        <5> QED  BY <5>2, <5>3
      <4>3. ASSUME NEW s \in (monitored \ told)'
            PROVE  \E x \in Connections : s \in connection'[x].names /\ Live(x)'
        <5>1. s \in monitored \ told /\ s # r  BY <1>3
        <5>2. s \notin connection[c].names  BY <1>5, <5>1
        <5> QED  BY <2>1, <2>5, <2>6, <3>2, <5>1, <5>2, OthersWatched
      <4> QED  BY <2>8, <4>1, <4>2, <4>3, WatchedNext
    <3> QED  BY <3>1, <3>2
  <2> QED  BY <2>a, <1>1, <1>2, <2>4, <2>5, <2>6, <2>8, <2>9, Assemble DEF Launched, Relabelled
<1>6. CASE c # None /\ names # {} /\ UpdateSelector(c, names) /\ UNCHANGED map
  <2>1. c \in Connections  BY <1>0, <1>6, Parts DEF Plain
  <2>2. names \in SUBSET Resources  BY <2>1, Parts DEF ConnType
  <2>3. \A s \in (monitored \ told)' :
           \/ s \in monitored \ told /\ (s \in connection[c].names => s \in names)
           \/ s \in names /\ ~connection[c].told
    BY <1>3
  <2>4. monitored' \subseteq Resources /\ told' \subseteq Resources
    BY <1>1, Parts DEF Plain
  <2> HIDE DEF names
  <2> QED  BY <1>0, <1>1, <1>2, <1>6, <2>1, <2>2, <2>3, <2>4, UpdateKeeps
<1> QED  BY <1>0, <1>4, <1>5, <1>6 DEF RemoveResource

(* The end of the delay: the timer becomes a request.                      *)
LEMMA WakeKeeps ==
    ASSUME IInv, NEW c \in Connections, Wake(c)
    PROVE  IInv'
<1>1. /\ connection[c].sleeping
      /\ connection' = [connection EXCEPT ![c].sleeping = FALSE,
                                          ![c].isReconnecting = isMonitoring]
      /\ IF isMonitoring THEN StartWatch(c, "reconnect", request) ELSE UNCHANGED request
      /\ UNCHANGED <<isMonitoring, start, monitored, map, told>>
  BY DEF Wake
<1>2. start = "done"  BY <1>1, Parts DEF Fresh0, Plain
<1>3. /\ connection' \in [Connections -> ConnType]
      /\ \A x \in Connections \ {c} : connection'[x] = connection[x]
      /\ connection'[c].sleeping = FALSE
      /\ connection'[c].isReconnecting = isMonitoring
      /\ connection'[c].names = connection[c].names
      /\ connection'[c].told = connection[c].told
      /\ connection'[c].request = connection[c].request
  <2>1. connection'[c] = [connection[c] EXCEPT !.sleeping = FALSE,
                                               !.isReconnecting = isMonitoring]
        /\ \A x \in Connections \ {c} : connection'[x] = connection[x]
    BY <1>1, Parts
  <2>2. connection[c] \in ConnType /\ isMonitoring \in BOOLEAN  BY Parts DEF Plain
  <2>3. /\ connection'[c] \in ConnType
        /\ connection'[c].sleeping = FALSE
        /\ connection'[c].isReconnecting = isMonitoring
        /\ connection'[c].names = connection[c].names
        /\ connection'[c].told = connection[c].told
        /\ connection'[c].request = connection[c].request
    BY <2>1, <2>2 DEF ConnType
  <2>4. DOMAIN connection' = Connections
        /\ connection' = [x \in Connections |-> connection'[x]]
    BY <1>1, Parts
  <2> QED  BY <2>1, <2>3, <2>4, Parts
<1>4. Asking(c) = {}  BY <1>1, Parts DEF OneEach
<1>5. Plain'  BY <1>1, Parts DEF Plain
<1>6. c \in Sleeping /\ Sleeping' \subseteq Sleeping \ {c}
  <2>1. c \in Sleeping  BY <1>1 DEF Sleeping
  <2>2. ASSUME NEW x \in Sleeping' PROVE x \in Sleeping \ {c}
    <3>1. x \in Connections /\ connection'[x].sleeping  BY DEF Sleeping
    <3>2. x # c  BY <1>3, <3>1
    <3> QED  BY <1>3, <3>1, <3>2 DEF Sleeping
  <2> QED  BY <2>1, <2>2
<1>7. IsFiniteSet(Sleeping') /\ Cardinality(Sleeping') + 1 <= Cardinality(Sleeping)
  BY <1>6, Parts, CountFree, CountMore
<1>8. Cardinality(Sleeping) <= Cardinality(Free)  BY Parts DEF RoomForAll
<1>9. /\ Cardinality(Sleeping') \in Nat /\ Cardinality(Sleeping) \in Nat
      /\ Cardinality(Free) \in Nat /\ IsFiniteSet(Free)
  BY <1>7, FS_CardinalityType, Parts, CountFree
<1>10. CASE ~isMonitoring
  <2>1. request' = request /\ connection'[c].isReconnecting = FALSE
    BY <1>1, <1>3, <1>10, Parts DEF Plain
  <2>2. Shaped' /\ Apart'  BY <1>1, <2>1, Parts DEF Shaped, Apart
  <2>3. Pointed'
    <3>1. \A x \in Connections : connection'[x].request = connection[x].request
      BY <1>3
    <3> QED  BY <2>1, <3>1, Parts DEF Pointed
  <2>4. OneEach'
    <3>1. \A x \in Connections : Asking(x)' = Asking(x)
      BY <2>1 DEF Asking, RequestsOf
    <3>2. ASSUME NEW x \in Connections
          PROVE  /\ ~connection'[x].isReconnecting => Asking(x) = {} /\ ~connection'[x].sleeping
                 /\ connection'[x].sleeping => Asking(x) = {}
                 /\ (connection'[x].isReconnecting /\ ~connection'[x].sleeping)
                       => \E q \in Requests : Asking(x) = {q}
      <4>1. CASE x = c  BY <1>3, <1>4, <2>1, <4>1
      <4>2. CASE x # c
        <5>1. connection'[x] = connection[x]  BY <1>3, <4>2
        <5> QED  BY <5>1, Parts DEF OneEach
      <4> QED  BY <4>1, <4>2
    <3> QED  BY <3>1, <3>2 DEF OneEach
  <2>5. RoomForAll'
    <3>1. Free' = Free  BY <2>1 DEF Free, RequestsOf
    <3> QED  BY <1>7, <1>8, <1>9, <3>1 DEF RoomForAll
  <2>6. WatchedOrTold'  BY <1>1, <1>10 DEF WatchedOrTold
  <2> QED  BY <1>1, <1>2, <1>3, <1>5, <2>1, <2>2, <2>3, <2>4, <2>5, <2>6, Parts, Assemble
<1>11. CASE isMonitoring
  <2>1. Free # {}  BY <1>6, RoomIsFree
  <2>2. PICK q \in Free : request' = [request EXCEPT ![q] = Asked(c, "reconnect")]
    BY <1>1, <1>11, <2>1, StartTakes
  <2>3. q \in Requests /\ request[q] = NoRequest /\ request[q].connection = None
    BY Parts DEF Free, RequestsOf, Shaped
  <2>4. /\ Asked(c, "reconnect") \in ReqType
        /\ Asked(c, "reconnect").connection = c /\ Asked(c, "reconnect").state = "asked"
        /\ Asked(c, "reconnect").aborted = FALSE /\ Asked(c, "reconnect").by = "reconnect"
    BY AskedType
  <2>5. /\ request' \in [Requests -> ReqType] /\ request'[q] = Asked(c, "reconnect")
        /\ \A x \in Requests \ {q} : request'[x] = request[x]
    BY <2>2, <2>3, <2>4, Parts
  <2>6. Shaped'
    <3> SUFFICES ASSUME NEW x \in Requests
                 PROVE  /\ request'[x].connection = None => request'[x] = NoRequest
                        /\ request'[x].connection # None => request'[x].state # "none"
                        /\ request'[x].state = "open" => request'[x].by = "none"
                        /\ request'[x].state = "asked"
                              => request'[x].by # "none" /\ ~request'[x].aborted
      BY DEF Shaped
    <3>1. CASE x = q  BY <2>4, <2>5, <3>1, Numbers
    <3>2. CASE x # q
      <4>1. request'[x] = request[x]  BY <2>5, <3>2
      <4> QED  BY <4>1, Parts DEF Shaped
    <3> QED  BY <3>1, <3>2
  <2>7. Pointed'
    <3> SUFFICES ASSUME NEW x \in Connections, connection'[x].request # None
                 PROVE  /\ request'[connection'[x].request].state = "open"
                        /\ request'[connection'[x].request].connection = x
      BY DEF Pointed
    <3>1. PICK p : p = connection[x].request  OBVIOUS
    <3>2. connection'[x].request = p  BY <1>3, <3>1
    <3>3. p \in Requests /\ request[p].state = "open" /\ request[p].connection = x
      BY <3>1, <3>2, Parts DEF Pointed, ConnType
    <3>4. p # q  BY <2>3, <3>3, Numbers
    <3> QED  BY <2>5, <3>2, <3>3, <3>4
  <2>8. Apart'
    <3> SUFFICES ASSUME map.namespace # None
                 PROVE  \A x \in Requests : request'[x].connection = map.namespace
                            => request'[x].by # "create"
      BY <1>1, Parts DEF Apart
    <3> QED  BY <2>4, <2>5, Parts DEF Apart
  <2>9. OneEach'
    <3>1. ASSUME NEW x \in Connections, x # c PROVE Asking(x)' = Asking(x)
      <4>1. ASSUME NEW y \in Requests
            PROVE  (request'[y].connection = x /\ request'[y].by = "reconnect")
                     <=> (request[y].connection = x /\ request[y].by = "reconnect")
        BY <2>3, <2>4, <2>5, <3>1, Numbers
      <4> QED  BY <4>1 DEF Asking, RequestsOf
    <3>2. Asking(c)' = {q}
      <4>1. ASSUME NEW y \in Requests, y # q
            PROVE  ~(request'[y].connection = c /\ request'[y].by = "reconnect")
        BY <1>4, <2>5, <4>1 DEF Asking, RequestsOf
      <4> QED  BY <2>3, <2>4, <2>5, <4>1 DEF Asking, RequestsOf
    <3>3. ASSUME NEW x \in Connections
          PROVE  /\ ~connection'[x].isReconnecting => Asking(x)' = {} /\ ~connection'[x].sleeping
                 /\ connection'[x].sleeping => Asking(x)' = {}
                 /\ (connection'[x].isReconnecting /\ ~connection'[x].sleeping)
                       => \E y \in Requests : Asking(x)' = {y}
      <4>1. CASE x = c  BY <1>3, <1>11, <2>3, <3>2, <4>1
      <4>2. CASE x # c
        <5>1. connection'[x] = connection[x]  BY <1>3, <4>2
        <5> QED  BY <3>1, <4>2, <5>1, Parts DEF OneEach
      <4> QED  BY <4>1, <4>2
    <3> QED  BY <3>3 DEF OneEach
  <2>10. RoomForAll'
    <3>1. Free' \subseteq Free /\ Free \ {q} \subseteq Free'
      <4>1. ASSUME NEW x \in Requests, x # q
            PROVE  request'[x].connection = request[x].connection
        BY <2>5, <4>1
      <4>2. q \notin Free'  BY <2>4, <2>5, Numbers DEF Free, RequestsOf
      <4> QED  BY <4>1, <4>2 DEF Free, RequestsOf
    <3>2. IsFiniteSet(Free') /\ Cardinality(Free') \in Nat
      <4>1. IsFiniteSet(Free')  BY <3>1, <1>9, CountSubset
      <4> QED  BY <4>1, FS_CardinalityType
    <3>3. Cardinality(Free) <= Cardinality(Free') + 1
      BY <3>1, <3>2, <1>9, CountLess
    <3>4. Cardinality(Sleeping') <= Cardinality(Free')
      BY <1>7, <1>8, <1>9, <3>2, <3>3
    <3> QED  BY <3>4 DEF RoomForAll
  <2>11. WatchedOrTold'
    <3>1. ASSUME NEW x \in Connections, Live(x) PROVE Live(x)'
      <4>1. CASE x = c  BY <1>3, <1>11, <4>1 DEF Live
      <4>2. CASE x # c
        <5>1. connection'[x] = connection[x]  BY <1>3, <4>2
        <5>2. ASSUME NEW y \in Requests, request[y].connection = x
              PROVE  request'[y] = request[y]
          BY <2>3, <2>5, <5>2, Numbers
        <5> QED  BY <3>1, <5>1, <5>2 DEF Live, RequestsOf
      <4> QED  BY <4>1, <4>2
    <3>2. \A x \in Connections : /\ connection'[x].told = connection[x].told
                                 /\ connection'[x].names = connection[x].names
      BY <1>3
    <3> QED  BY <1>1, <1>11, <3>1, <3>2, Parts DEF WatchedOrTold, Range, Plain
  <2> QED  BY <1>1, <1>2, <1>3, <1>5, <2>5, <2>6, <2>7, <2>8, <2>9, <2>10, <2>11, Assemble
<1> QED  BY <1>10, <1>11

LEMMA Owner ==
    ASSUME IInv, NEW q \in Requests, request[q].state # "none"
    PROVE  request[q].connection \in Connections /\ start = "done"
<1>1. request[q].connection # None  BY Parts, NoRequestType DEF Shaped
<1>2. request[q] \in ReqType  BY Parts
<1>3. start = "done"  BY Parts, NoRequestType DEF Fresh0
<1> QED  BY <1>1, <1>2, <1>3 DEF ReqType

(* A request that ends leaves its slot to others: what holds of every such *)
(* step, whatever becomes of its connection c.                             *)
LEMMA DropKeeps ==
    ASSUME IInv, NEW q \in Requests, NEW c \in Connections, c = request[q].connection,
           request[q].state # "none",
           request' = [request EXCEPT ![q] = NoRequest],
           connection' \in [Connections -> ConnType],
           \A x \in Connections \ {c} : connection'[x] = connection[x],
           connection'[c].request # None
              => connection'[c].request = connection[c].request
                 /\ connection'[c].request # q
    PROVE  /\ c \in Connections /\ start = "done"
           /\ request' \in [Requests -> ReqType]
           /\ Shaped' /\ Pointed' /\ RoomForAll'
           /\ \A x \in Connections \ {c} :
                 Asking(x)' = Asking(x) /\ (Live(x) => Live(x)')
           /\ Asking(c)' = Asking(c) \ {q}
           /\ \A x \in Requests : request'[x].by = "create"
                 => request[x].by = "create" /\ request'[x].connection = request[x].connection
<1>1. c \in Connections  OBVIOUS
<1>2. start = "done"  BY Owner
<1>3. /\ request' \in [Requests -> ReqType] /\ request'[q] = NoRequest
      /\ \A x \in Requests \ {q} : request'[x] = request[x]
  BY NoRequestType, Parts
<1>4. Shaped'
  <2> SUFFICES ASSUME NEW x \in Requests
               PROVE  /\ request'[x].connection = None => request'[x] = NoRequest
                      /\ request'[x].connection # None => request'[x].state # "none"
                      /\ request'[x].state = "open" => request'[x].by = "none"
                      /\ request'[x].state = "asked"
                            => request'[x].by # "none" /\ ~request'[x].aborted
    BY DEF Shaped
  <2>1. CASE x = q  BY <1>3, <2>1, NoRequestType
  <2>2. CASE x # q
    <3>1. request'[x] = request[x]  BY <1>3, <2>2
    <3> QED  BY <3>1, Parts DEF Shaped
  <2> QED  BY <2>1, <2>2
<1>5. Pointed'
  <2> SUFFICES ASSUME NEW x \in Connections, connection'[x].request # None
               PROVE  /\ request'[connection'[x].request].state = "open"
                      /\ request'[connection'[x].request].connection = x
    BY DEF Pointed
  <2>1. PICK p : p = connection[x].request  OBVIOUS
  <2>2. connection'[x].request = p  BY <2>1
  <2>3. p \in Requests /\ request[p].state = "open" /\ request[p].connection = x
    BY <2>1, <2>2, Parts DEF Pointed, ConnType
  <2>4. p # q  BY <2>2, <2>3
  <2> QED  BY <1>3, <2>2, <2>3, <2>4
<1>6. RoomForAll'
  <2>1. /\ Cardinality(Sleeping) \in Nat /\ IsFiniteSet(Sleeping)
        /\ Cardinality(Free) \in Nat /\ IsFiniteSet(Free)
    BY Parts, CountFree
  <2>2. Sleeping' \ {c} \subseteq Sleeping  BY DEF Sleeping
  <2>3. Free \subseteq Free' \ {q} /\ q \in Free'
    <3>1. q \in Free'  BY <1>3, NoRequestType DEF Free, RequestsOf
    <3>2. ASSUME NEW x \in Free PROVE x \in Free' \ {q}
      <4>1. x \in Requests /\ request[x].connection = None  BY DEF Free, RequestsOf
      <4>2. x # q  BY <1>1, <4>1, Numbers
      <4> QED  BY <1>3, <4>1, <4>2 DEF Free, RequestsOf
    <3> QED  BY <3>1, <3>2
  <2>4. IsFiniteSet(Sleeping') /\ IsFiniteSet(Free')
    <3>1. Sleeping' \subseteq Connections /\ Free' \subseteq Requests
      BY DEF Sleeping, Free, RequestsOf
    <3> QED  BY <3>1, Numbers, CountSubset
  <2>5. Cardinality(Sleeping') \in Nat /\ Cardinality(Free') \in Nat
    BY <2>4, FS_CardinalityType
  <2>6. Cardinality(Sleeping') <= Cardinality(Sleeping) + 1
    BY <2>1, <2>2, <2>4, CountLess
  <2>7. Cardinality(Free) + 1 <= Cardinality(Free')
    BY <2>3, <2>4, CountMore
  <2>8. Cardinality(Sleeping) <= Cardinality(Free)  BY Parts DEF RoomForAll
  <2>9. Cardinality(Sleeping') <= Cardinality(Free')
    BY <2>1, <2>5, <2>6, <2>7, <2>8
  <2> QED  BY <2>9 DEF RoomForAll
<1>7. ASSUME NEW x \in Connections \ {c}
      PROVE  Asking(x)' = Asking(x) /\ (Live(x) => Live(x)')
  <2>1. ASSUME NEW y \in Requests
        PROVE  /\ request'[y].connection = x <=> request[y].connection = x
               /\ request[y].connection = x => request'[y] = request[y]
    BY <1>3, <2>1, NoRequestType, Numbers
  <2>2. Asking(x)' = Asking(x)
    <3>1. ASSUME NEW y \in Requests
          PROVE  (request'[y].connection = x /\ request'[y].by = "reconnect")
                   <=> (request[y].connection = x /\ request[y].by = "reconnect")
      BY <2>1
    <3> QED  BY <3>1 DEF Asking, RequestsOf
  <2>3. Live(x) => Live(x)'  BY <2>1 DEF Live, RequestsOf
  <2> QED  BY <2>2, <2>3
<1>8. Asking(c)' = Asking(c) \ {q}
  <2>1. ASSUME NEW y \in Requests
        PROVE  (request'[y].connection = c /\ request'[y].by = "reconnect")
                 <=> (y # q /\ request[y].connection = c /\ request[y].by = "reconnect")
    BY <1>3, NoRequestType
  <2> QED  BY <2>1 DEF Asking, RequestsOf
<1>9. ASSUME NEW x \in Requests, request'[x].by = "create"
      PROVE  request[x].by = "create" /\ request'[x].connection = request[x].connection
  BY <1>3, <1>9, NoRequestType
<1> QED  BY <1>1, <1>2, <1>3, <1>4, <1>5, <1>6, <1>7, <1>8, <1>9

LEMMA OneEachAt ==
    ASSUME IInv, NEW c \in Connections,
           \A x \in Connections \ {c} :
              connection'[x] = connection[x] /\ Asking(x)' = Asking(x),
           ~connection'[c].isReconnecting => Asking(c)' = {} /\ ~connection'[c].sleeping,
           connection'[c].sleeping => Asking(c)' = {},
           (connection'[c].isReconnecting /\ ~connection'[c].sleeping)
              => \E q \in Requests : Asking(c)' = {q}
    PROVE  OneEach'
<1>1. ASSUME NEW x \in Connections
      PROVE  /\ ~connection'[x].isReconnecting => Asking(x)' = {} /\ ~connection'[x].sleeping
             /\ connection'[x].sleeping => Asking(x)' = {}
             /\ (connection'[x].isReconnecting /\ ~connection'[x].sleeping)
                   => \E y \in Requests : Asking(x)' = {y}
  <2>1. CASE x = c  BY <2>1
  <2>2. CASE x # c
    <3>1. connection'[x] = connection[x] /\ Asking(x)' = Asking(x)  BY <2>2
    <3> QED  BY <3>1, Parts DEF OneEach
  <2> QED  BY <2>1, <2>2
<1> QED  BY <1>1 DEF OneEach

(* The connection that has lost its watch reconnects or is reported: all   *)
(* that the monitor owes to its resources.                                 *)
LEMMA LossIsSeen ==
    ASSUME IInv, NEW c \in Connections, isMonitoring, Plain',
           UNCHANGED <<isMonitoring, monitored, map>>,
           connection' \in [Connections -> ConnType],
           \A x \in Connections \ {c} :
              connection'[x] = connection[x] /\ (Live(x) => Live(x)'),
           connection'[c].names = connection[c].names,
           connection[c].told => connection'[c].told,
           told \subseteq told',
           Live(c) => Live(c)' \/ (connection'[c].told /\ connection[c].names \subseteq told')
    PROVE  WatchedOrTold'
<1>1. ASSUME NEW x \in Connections, Live(x) \/ connection[x].told
      PROVE  Live(x)' \/ connection'[x].told
  <2>1. CASE x = c  BY <1>1, <2>1
  <2>2. CASE x # c  BY <1>1, <2>2
  <2> QED  BY <2>1, <2>2
<1>2. ASSUME NEW x, x = map.kind \/ x = map.namespace, x # None
      PROVE  Live(x)' \/ connection'[x].told
  <2>1. x \in Connections  BY <1>2, Parts DEF Plain
  <2> QED  BY <1>1, <1>2, <2>1, Watched
<1>3. ASSUME NEW r \in (monitored \ told)'
      PROVE  \E x \in Connections : r \in connection'[x].names /\ Live(x)'
  <2>1. PICK x \in Connections : r \in connection[x].names /\ Live(x)  BY Watched
  <2>2. CASE x = c  BY <1>3, <2>1, <2>2
  <2>3. CASE x # c  BY <2>1, <2>3
  <2> QED  BY <2>2, <2>3
<1>4. (map.kind # None => Live(map.kind) \/ connection[map.kind].told)'
  <2>1. PICK x : x = map.kind /\ x = map'.kind  OBVIOUS
  <2> QED  BY <1>2, <2>1
<1>5. (map.namespace # None => Live(map.namespace) \/ connection[map.namespace].told)'
  <2>1. PICK x : x = map.namespace /\ x = map'.namespace  OBVIOUS
  <2> QED  BY <1>2, <2>1
<1> QED  BY <1>3, <1>4, <1>5, WatchedNext

(* handleWatchError: nothing more while a reconnection is under way; else  *)
(* an error that is not an abort sets the timer, or is reported.           *)
LEMMA HandledFacts ==
    ASSUME NEW k \in ConnType, NEW error \in {"AbortError", "TimeoutError", "Error"}
    PROVE  LET h == Handled(k, error) IN
           /\ h \in ConnType /\ h.names = k.names /\ h.request = k.request
           /\ k.told => h.told
           /\ k.isReconnecting => h.isReconnecting = k.isReconnecting
                                  /\ h.sleeping = k.sleeping
           /\ (~k.isReconnecting /\ ~k.sleeping) => h.isReconnecting = h.sleeping
           /\ error # "AbortError" => h.isReconnecting \/ h.told
<1>1. CASE error = "AbortError"
  <2>1. Handled(k, error) = k  BY <1>1 DEF Handled
  <2> QED  BY <1>1, <2>1 DEF ConnType
<1>2. CASE error = "Error"
  <2>1. Handled(k, error) = Attempt(k)  BY <1>2 DEF Handled
  <2> QED  BY <2>1, AttemptFacts, AttemptTimer
<1>3. CASE error = "TimeoutError"
  <2>0. PICK z : z = [k EXCEPT !.reconnectAttempts = 0]  OBVIOUS
  <2>1. /\ z \in ConnType /\ z.names = k.names /\ z.request = k.request
        /\ z.told = k.told /\ z.isReconnecting = k.isReconnecting
        /\ z.sleeping = k.sleeping
    BY <2>0, Numbers DEF ConnType
  <2>2. Handled(k, error) = Attempt(z)  BY <1>3, <2>0 DEF Handled
  <2> QED  BY <2>1, <2>2, AttemptFacts, AttemptTimer
<1> QED  BY <1>1, <1>2, <1>3

LEMMA EndKeeps ==
    ASSUME IInv, NEW q \in Requests,
           NEW error \in {"AbortError", "TimeoutError", "Error"}, End(q, error)
    PROVE  IInv'
<1>0. PICK c : c = request[q].connection  OBVIOUS
<1>k. PICK k : k = [connection[c] EXCEPT !.request = IF @ = q THEN None ELSE @]
  OBVIOUS
<1>1. /\ request[q].state = "open"
      /\ error # IF request[q].aborted THEN "TimeoutError" ELSE "AbortError"
      /\ request' = [request EXCEPT ![q] = NoRequest]
      /\ connection' = [connection EXCEPT ![c] = IF isMonitoring THEN Handled(k, error) ELSE k]
      /\ told' = told \cup Reported(connection'[c])
      /\ UNCHANGED <<isMonitoring, start, monitored, map>>
  BY <1>0, <1>k DEF End
<1>2. c \in Connections  BY <1>0, <1>1, Owner
<1>3. /\ k \in ConnType /\ k.names = connection[c].names
      /\ k.told = connection[c].told /\ k.sleeping = connection[c].sleeping
      /\ k.isReconnecting = connection[c].isReconnecting
      /\ k.request # None => k.request = connection[c].request /\ k.request # q
  <2>1. connection[c] \in ConnType  BY <1>2, Parts
  <2> QED  BY <1>k, <2>1 DEF ConnType
<1>4. PICK h : h = IF isMonitoring THEN Handled(k, error) ELSE k  OBVIOUS
<1>5. /\ h \in ConnType /\ h.names = k.names /\ h.request = k.request
      /\ k.told => h.told
      /\ k.isReconnecting => h.isReconnecting = k.isReconnecting /\ h.sleeping = k.sleeping
      /\ (~k.isReconnecting /\ ~k.sleeping) => h.isReconnecting = h.sleeping
      /\ (isMonitoring /\ error # "AbortError") => h.isReconnecting \/ h.told
  <2>1. CASE isMonitoring
    <3>1. h = Handled(k, error)  BY <1>4, <2>1
    <3> QED  BY <1>3, <3>1, HandledFacts
  <2>2. CASE ~isMonitoring
    <3>1. h = k  BY <1>4, <2>2
    <3> QED  BY <1>3, <2>2, <3>1 DEF ConnType
  <2> QED  BY <2>1, <2>2
<1>6. /\ connection' \in [Connections -> ConnType] /\ connection'[c] = h
      /\ \A x \in Connections \ {c} : connection'[x] = connection[x]
  BY <1>1, <1>2, <1>4, <1>5, Parts
<1>7. /\ start = "done" /\ request' \in [Requests -> ReqType]
      /\ Shaped' /\ Pointed' /\ RoomForAll'
      /\ \A x \in Connections \ {c} :
            Asking(x)' = Asking(x) /\ (Live(x) => Live(x)')
      /\ Asking(c)' = Asking(c) \ {q}
      /\ \A x \in Requests : request'[x].by = "create"
            => request[x].by = "create" /\ request'[x].connection = request[x].connection
  <2>1. request[q].state # "none"  BY <1>1
  <2>2. connection'[c].request # None
          => connection'[c].request = connection[c].request
             /\ connection'[c].request # q
    BY <1>3, <1>5, <1>6
  <2>3. \A x \in Connections \ {c} : connection'[x] = connection[x]  BY <1>6
  <2>4. /\ c \in Connections /\ start = "done"
        /\ request' \in [Requests -> ReqType]
        /\ Shaped' /\ Pointed' /\ RoomForAll'
        /\ \A x \in Connections \ {c} :
              Asking(x)' = Asking(x) /\ (Live(x) => Live(x)')
        /\ Asking(c)' = Asking(c) \ {q}
        /\ \A x \in Requests : request'[x].by = "create"
              => request[x].by = "create" /\ request'[x].connection = request[x].connection
    BY <1>0, <1>1, <1>2, <1>6, <2>1, <2>2, <2>3, DropKeeps
  <2> QED  BY <2>4
<1>8. Asking(c)' = Asking(c)
  <2>1. request[q].by = "none"  BY <1>1, Parts DEF Shaped
  <2>2. q \notin Asking(c)  BY <2>1 DEF Asking
  <2> QED  BY <1>7, <2>2
<1>9. OneEach'
  <2>1. /\ ~connection[c].isReconnecting => Asking(c) = {} /\ ~connection[c].sleeping
        /\ connection[c].sleeping => Asking(c) = {}
        /\ (connection[c].isReconnecting /\ ~connection[c].sleeping)
              => \E y \in Requests : Asking(c) = {y}
    BY <1>2, Parts DEF OneEach
  <2>2. CASE connection[c].isReconnecting
    <3>1. h.isReconnecting = connection[c].isReconnecting
          /\ h.sleeping = connection[c].sleeping
      BY <1>3, <1>5, <2>2
    <3> QED  BY <1>2, <1>6, <1>7, <1>8, <2>1, <2>2, <3>1, OneEachAt
  <2>3. CASE ~connection[c].isReconnecting
    <3>1. Asking(c)' = {} /\ h.isReconnecting = h.sleeping
      BY <1>3, <1>5, <1>8, <2>1, <2>3
    <3> QED  BY <1>2, <1>6, <1>7, <3>1, OneEachAt
  <2> QED  BY <2>2, <2>3
<1>10. Reported(h) \subseteq Resources /\ (h.told => Reported(h) = connection[c].names)
  BY <1>3, <1>5 DEF Reported, ConnType
<1>11. Plain'  BY <1>1, <1>6, <1>10, Parts DEF Plain
<1>12. Apart'  BY <1>1, <1>7, Parts DEF Apart
<1>13. WatchedOrTold'
  <2>1. CASE ~isMonitoring  BY <1>1, <2>1 DEF WatchedOrTold
  <2>2. CASE isMonitoring
    <3>1. ASSUME Live(c)
          PROVE  Live(c)' \/ (connection'[c].told /\ connection[c].names \subseteq told')
      <4>1. CASE error # "AbortError"
        <5>1. h.isReconnecting \/ h.told  BY <1>5, <2>2, <4>1
        <5>2. CASE h.isReconnecting  BY <1>6, <5>2 DEF Live
        <5>3. CASE h.told  BY <1>1, <1>6, <1>10, <5>3
        <5> QED  BY <5>1, <5>2, <5>3
      <4>2. CASE error = "AbortError"
        <5>1. request[q].aborted  BY <1>1, <4>2
        <5>2. CASE connection[c].isReconnecting
          <6>1. h.isReconnecting = connection[c].isReconnecting  BY <1>3, <1>5, <5>2
          <6> QED  BY <1>6, <5>2, <6>1 DEF Live
        <5>3. CASE \E y \in RequestsOf(c) : ~request[y].aborted
          <6>1. PICK y \in RequestsOf(c) : ~request[y].aborted  BY <5>3
          <6>2. y \in Requests /\ y # q /\ request[y].connection = c
            BY <5>1, <6>1 DEF RequestsOf
          <6>3. request'[y] = request[y]  BY <1>1, <6>2, Parts
          <6> QED  BY <6>1, <6>2, <6>3 DEF Live, RequestsOf
        <5> QED  BY <3>1, <5>2, <5>3 DEF Live
      <4> QED  BY <4>1, <4>2
    <3>2. connection'[c].names = connection[c].names
          /\ (connection[c].told => connection'[c].told)
      BY <1>3, <1>5, <1>6
    <3>3. told \subseteq told'  BY <1>1
    <3> QED  BY <1>1, <1>2, <1>6, <1>7, <1>11, <2>2, <3>1, <3>2, <3>3, LossIsSeen
  <2> QED  BY <2>1, <2>2
<1> QED  BY <1>1, <1>6, <1>7, <1>9, <1>11, <1>12, <1>13, Assemble

\* what a start that returns leaves of its connection
Settled(k, by, req) ==
    IF by = "reconnect" THEN Reconnected([k EXCEPT !.request = req])
                        ELSE [k EXCEPT !.request = req]

\* what a connection may point to, and who awaits a start
Pointers == Requests \cup {None}
Callers == {"none", "create", "update", "reconnect", "start"}

LEMMA SettledFacts ==
    ASSUME NEW k \in ConnType, NEW by \in Callers, NEW req \in Pointers
    PROVE  /\ Settled(k, by, req) \in ConnType
           /\ Settled(k, by, req).names = k.names /\ Settled(k, by, req).request = req
           /\ Settled(k, by, req).told = k.told
           /\ Settled(k, by, req).sleeping = k.sleeping
           /\ by = "reconnect" => Settled(k, by, req).isReconnecting = FALSE
           /\ by # "reconnect" => Settled(k, by, req).isReconnecting = k.isReconnecting
<1>0. PICK z : z = [k EXCEPT !.request = req]  OBVIOUS
<1>1. /\ z \in ConnType /\ z.names = k.names /\ z.request = req
      /\ z.told = k.told /\ z.isReconnecting = k.isReconnecting
      /\ z.sleeping = k.sleeping
  BY <1>0 DEF ConnType, Pointers
<1>2. CASE by # "reconnect"
  <2>1. Settled(k, by, req) = z  BY <1>0, <1>2 DEF Settled
  <2> QED  BY <1>1, <1>2, <2>1
<1>3. CASE by = "reconnect"
  <2>1. Settled(k, by, req) = [z EXCEPT !.reconnectAttempts = 0, !.isReconnecting = FALSE]
    BY <1>0, <1>3 DEF Settled, Reconnected
  <2>2. PICK h : h = Settled(k, by, req)  OBVIOUS
  <2>3. /\ h \in ConnType /\ h.names = z.names /\ h.request = z.request
        /\ h.told = z.told /\ h.sleeping = z.sleeping /\ h.isReconnecting = FALSE
    BY <1>1, <2>1, <2>2, Numbers DEF ConnType
  <2> QED  BY <1>1, <1>3, <2>2, <2>3
<1> QED  BY <1>2, <1>3

(* What every start that returns does to the timers and to the map.        *)
LEMMA ReturnedFacts ==
    ASSUME IInv, NEW q \in Requests, request[q].state = "asked",
           NEW req \in Pointers, Returned(q, req),
           NEW c \in Connections, c = request[q].connection
    PROVE  /\ c \in Connections /\ start = "done"
           /\ connection' \in [Connections -> ConnType]
           /\ \A x \in Connections \ {c} : connection'[x] = connection[x]
           /\ connection'[c].names = connection[c].names
           /\ connection'[c].told = connection[c].told
           /\ connection'[c].sleeping = connection[c].sleeping
           /\ connection'[c].request \in {req}
           /\ request[q].by = "reconnect" =>
                 /\ connection'[c].isReconnecting = FALSE
                 /\ ~connection[c].sleeping /\ Asking(c) = {q}
           /\ request[q].by # "reconnect" =>
                 /\ connection'[c].isReconnecting = connection[c].isReconnecting
                 /\ q \notin Asking(c)
           /\ map' \in [{"namespace", "kind"} -> Connections \cup {None}]
           /\ map'.namespace = map.namespace
           /\ map'.kind = IF request[q].by = "create" THEN c ELSE map.kind
<1>1. c \in Connections  OBVIOUS
<1>2. start = "done"  BY Owner
<1>3. /\ connection' = [connection EXCEPT ![c] = Settled(connection[c], request[q].by, req)]
      /\ map' = IF request[q].by = "create" THEN [map EXCEPT !.kind = c] ELSE map
  BY DEF Returned, Settled
<1>4. PICK h : h = Settled(connection[c], request[q].by, req)  OBVIOUS
<1>5. /\ h \in ConnType /\ h.names = connection[c].names /\ h.request = req
      /\ h.told = connection[c].told /\ h.sleeping = connection[c].sleeping
      /\ request[q].by = "reconnect" => h.isReconnecting = FALSE
      /\ request[q].by # "reconnect" => h.isReconnecting = connection[c].isReconnecting
  <2>1. connection[c] \in ConnType /\ request[q].by \in Callers
    BY <1>1, Parts DEF ReqType, Callers
  <2>2. PICK k \in ConnType : k = connection[c]  BY <2>1
  <2>3. PICK by \in Callers : by = request[q].by  BY <2>1
  <2>4. h = Settled(k, by, req)  BY <1>4, <2>2, <2>3
  <2>5. /\ h \in ConnType /\ h.names = k.names /\ h.request = req
        /\ h.told = k.told /\ h.sleeping = k.sleeping
        /\ by = "reconnect" => h.isReconnecting = FALSE
        /\ by # "reconnect" => h.isReconnecting = k.isReconnecting
    BY <2>4, SettledFacts
  <2> QED  BY <2>2, <2>3, <2>5
<1>6. /\ connection' \in [Connections -> ConnType] /\ connection'[c] = h
      /\ \A x \in Connections \ {c} : connection'[x] = connection[x]
  BY <1>1, <1>3, <1>4, <1>5, Parts
<1>7. request[q].by = "reconnect" => ~connection[c].sleeping /\ Asking(c) = {q}
  <2> SUFFICES ASSUME request[q].by = "reconnect"
               PROVE  ~connection[c].sleeping /\ Asking(c) = {q}
    OBVIOUS
  <2>1. q \in Asking(c)  BY DEF Asking, RequestsOf
  <2> QED  BY <1>1, <2>1, Parts DEF OneEach
<1>8. request[q].by # "reconnect" => q \notin Asking(c)  BY DEF Asking
<1>9. /\ map' \in [{"namespace", "kind"} -> Connections \cup {None}]
      /\ map'.namespace = map.namespace
      /\ map'.kind = IF request[q].by = "create" THEN c ELSE map.kind
  BY <1>1, <1>3, Parts DEF Plain
<1> QED  BY <1>1, <1>2, <1>5, <1>6, <1>7, <1>8, <1>9

LEMMA OpenKeeps ==
    ASSUME IInv, NEW q \in Requests, Open(q)
    PROVE  IInv'
<1>0. PICK c : c = request[q].connection  OBVIOUS
<1>1. /\ request[q].state = "asked" /\ Returned(q, q)
      /\ request' = [request EXCEPT ![q].state = "open", ![q].by = "none"]
      /\ UNCHANGED <<isMonitoring, start, monitored, told>>
  BY DEF Open
<1>2. /\ c \in Connections /\ start = "done"
      /\ connection' \in [Connections -> ConnType]
      /\ \A x \in Connections \ {c} : connection'[x] = connection[x]
      /\ connection'[c].names = connection[c].names
      /\ connection'[c].told = connection[c].told
      /\ connection'[c].sleeping = connection[c].sleeping
      /\ connection'[c].request = q
      /\ request[q].by = "reconnect" =>
            /\ connection'[c].isReconnecting = FALSE
            /\ ~connection[c].sleeping /\ Asking(c) = {q}
      /\ request[q].by # "reconnect" =>
            /\ connection'[c].isReconnecting = connection[c].isReconnecting
            /\ q \notin Asking(c)
      /\ map' \in [{"namespace", "kind"} -> Connections \cup {None}]
      /\ map'.namespace = map.namespace
      /\ map'.kind = IF request[q].by = "create" THEN c ELSE map.kind
  <2>1. q \in Pointers  BY DEF Pointers
  <2>2. request[q].state = "asked" /\ Returned(q, q)  BY <1>1
  <2>3. c \in Connections  BY <1>0, <1>1, Owner
  <2>4. /\ start = "done"
        /\ connection' \in [Connections -> ConnType]
        /\ \A x \in Connections \ {c} : connection'[x] = connection[x]
        /\ map' \in [{"namespace", "kind"} -> Connections \cup {None}]
    BY <1>0, <2>1, <2>2, <2>3, ReturnedFacts
  <2>5. connection'[c].names = connection[c].names
    BY <1>0, <2>1, <2>2, <2>3, ReturnedFacts
  <2>9. /\ connection'[c].told = connection[c].told
        /\ connection'[c].sleeping = connection[c].sleeping
    BY <1>0, <2>1, <2>2, <2>3, ReturnedFacts
  <2>10. connection'[c].request \in {q}
    BY <1>0, <2>1, <2>2, <2>3, ReturnedFacts
  <2>6. request[q].by = "reconnect" =>
            /\ connection'[c].isReconnecting = FALSE
            /\ ~connection[c].sleeping /\ Asking(c) = {q}
    BY <1>0, <2>1, <2>2, <2>3, ReturnedFacts
  <2>7. request[q].by # "reconnect" =>
            /\ connection'[c].isReconnecting = connection[c].isReconnecting
            /\ q \notin Asking(c)
    BY <1>0, <2>1, <2>2, <2>3, ReturnedFacts
  <2>8. /\ map'.namespace = map.namespace
        /\ map'.kind = IF request[q].by = "create" THEN c ELSE map.kind
    BY <1>0, <2>1, <2>2, <2>3, ReturnedFacts
  <2> QED  BY <2>3, <2>4, <2>5, <2>6, <2>7, <2>8, <2>9, <2>10
<1>3. /\ request' \in [Requests -> ReqType]
      /\ \A x \in Requests \ {q} : request'[x] = request[x]
      /\ request'[q].state = "open" /\ request'[q].by = "none"
      /\ request'[q].connection = c /\ request'[q].aborted = FALSE
  <2>1. /\ request'[q] = [request[q] EXCEPT !.state = "open", !.by = "none"]
        /\ \A x \in Requests \ {q} : request'[x] = request[x]
        /\ DOMAIN request' = Requests /\ request' = [x \in Requests |-> request'[x]]
    BY <1>1, Parts
  <2>2. request[q] \in ReqType /\ ~request[q].aborted
    BY <1>1, Parts DEF Shaped
  <2>3. /\ request'[q] \in ReqType
        /\ request'[q].state = "open" /\ request'[q].by = "none"
        /\ request'[q].connection = c /\ request'[q].aborted = FALSE
    BY <1>0, <2>1, <2>2 DEF ReqType
  <2> QED  BY <2>1, <2>3, Parts
<1>4. Shaped'
  <2> SUFFICES ASSUME NEW x \in Requests
               PROVE  /\ request'[x].connection = None => request'[x] = NoRequest
                      /\ request'[x].connection # None => request'[x].state # "none"
                      /\ request'[x].state = "open" => request'[x].by = "none"
                      /\ request'[x].state = "asked"
                            => request'[x].by # "none" /\ ~request'[x].aborted
    BY DEF Shaped
  <2>1. CASE x = q  BY <1>2, <1>3, <2>1, Numbers
  <2>2. CASE x # q
    <3>1. request'[x] = request[x]  BY <1>3, <2>2
    <3> QED  BY <3>1, Parts DEF Shaped
  <2> QED  BY <2>1, <2>2
<1>5. Pointed'
  <2> SUFFICES ASSUME NEW x \in Connections, connection'[x].request # None
               PROVE  /\ request'[connection'[x].request].state = "open"
                      /\ request'[connection'[x].request].connection = x
    BY DEF Pointed
  <2>1. CASE x = c  BY <1>2, <1>3, <2>1
  <2>2. CASE x # c
    <3>1. PICK p : p = connection[x].request  OBVIOUS
    <3>2. connection'[x].request = p  BY <1>2, <2>2, <3>1
    <3>3. p \in Requests /\ request[p].state = "open" /\ request[p].connection = x
      BY <3>1, <3>2, Parts DEF Pointed, ConnType
    <3>4. p # q  BY <1>1, <3>3
    <3> QED  BY <1>3, <3>2, <3>3, <3>4
  <2> QED  BY <2>1, <2>2
<1>6. RoomForAll'
  <2>1. Free' = Free
    <3>1. \A x \in Requests : request'[x].connection = request[x].connection
      BY <1>0, <1>3
    <3> QED  BY <3>1 DEF Free, RequestsOf
  <2>2. Sleeping' = Sleeping
    <3>1. \A x \in Connections : connection'[x].sleeping = connection[x].sleeping
      BY <1>2
    <3> QED  BY <3>1 DEF Sleeping
  <2> QED  BY <2>1, <2>2, Parts DEF RoomForAll
<1>7. ASSUME NEW x \in Connections PROVE Asking(x)' = Asking(x) \ {q}
  <2>1. ASSUME NEW y \in Requests
        PROVE  (request'[y].connection = x /\ request'[y].by = "reconnect")
                 <=> (y # q /\ request[y].connection = x /\ request[y].by = "reconnect")
    BY <1>3
  <2> QED  BY <2>1 DEF Asking, RequestsOf
<1>8. OneEach'
  <2>1. ASSUME NEW x \in Connections \ {c} PROVE Asking(x)' = Asking(x)
    <3>1. q \notin Asking(x)  BY <1>0 DEF Asking, RequestsOf
    <3> QED  BY <1>7, <3>1
  <2>2. /\ ~connection[c].isReconnecting => Asking(c) = {} /\ ~connection[c].sleeping
        /\ connection[c].sleeping => Asking(c) = {}
        /\ (connection[c].isReconnecting /\ ~connection[c].sleeping)
              => \E y \in Requests : Asking(c) = {y}
    BY <1>2, Parts DEF OneEach
  <2>3. CASE request[q].by = "reconnect"
    <3>1. Asking(c)' = {}  BY <1>2, <1>7, <2>3
    <3> QED  BY <1>2, <2>1, <2>3, <3>1, OneEachAt
  <2>4. CASE request[q].by # "reconnect"
    <3>1. Asking(c)' = Asking(c)  BY <1>2, <1>7, <2>4
    <3> QED  BY <1>2, <2>1, <2>2, <2>4, <3>1, OneEachAt
  <2> QED  BY <2>3, <2>4
<1>9. Plain'  BY <1>1, <1>2, Parts DEF Plain
<1>10. Apart'
  <2>1. request[q].by = "create" => c # map.namespace
    BY <1>0, <1>2, Parts, Numbers DEF Apart
  <2> QED  BY <1>2, <1>3, <2>1, Parts DEF Apart
<1>11. WatchedOrTold'
  <2>1. CASE ~isMonitoring  BY <1>1, <2>1 DEF WatchedOrTold
  <2>2. CASE isMonitoring
    <3>1. Live(c)'  BY <1>3 DEF Live, RequestsOf
    <3>2. ASSUME NEW x \in Connections, Live(x) PROVE Live(x)'
      <4>1. CASE x = c  BY <3>1, <4>1
      <4>2. CASE x # c
        <5>1. \A y \in Requests : request[y].connection = x => request'[y] = request[y]
          BY <1>0, <1>3, <4>2
        <5> QED  BY <1>2, <3>2, <4>2, <5>1 DEF Live, RequestsOf
      <4> QED  BY <4>1, <4>2
    <3>3. ASSUME NEW x, x = map.kind \/ x = map.namespace \/ x = c, x # None
          PROVE  Live(x)' \/ connection'[x].told
      <4>1. x \in Connections  BY <1>2, <3>3, Parts DEF Plain
      <4>2. connection'[x].told = connection[x].told  BY <1>2, <4>1
      <4> QED  BY <2>2, <3>1, <3>2, <3>3, <4>1, <4>2, Watched
    <3>4. (map.kind # None => Live(map.kind) \/ connection[map.kind].told)'
      <4>1. PICK x : x = map'.kind  OBVIOUS
      <4> QED  BY <1>2, <3>3, <4>1
    <3>5. (map.namespace # None => Live(map.namespace) \/ connection[map.namespace].told)'
      <4>1. PICK x : x = map'.namespace  OBVIOUS
      <4> QED  BY <1>2, <3>3, <4>1
    <3>6. ASSUME NEW r \in (monitored \ told)'
          PROVE  \E x \in Connections : r \in connection'[x].names /\ Live(x)'
      <4>1. r \in monitored \ told  BY <1>1, <3>6
      <4>2. PICK x \in Connections : r \in connection[x].names /\ Live(x)
        BY <2>2, <4>1, Watched
      <4>3. connection'[x].names = connection[x].names  BY <1>2
      <4> QED  BY <3>2, <4>2, <4>3
    <3> QED  BY <1>9, <3>4, <3>5, <3>6, WatchedNext
  <2> QED  BY <2>1, <2>2
<1> QED  BY <1>1, <1>2, <1>3, <1>4, <1>5, <1>6, <1>8, <1>9, <1>10, <1>11, Assemble

(* The request of a start that fails is of no use any more; q is not what  *)
(* its connection points to, as it has never been open.                    *)
LEMMA FailDrops ==
    ASSUME IInv, NEW q \in Requests, NEW c \in Connections, c = request[q].connection,
           request[q].state = "asked",
           request' = [request EXCEPT ![q] = NoRequest],
           connection' \in [Connections -> ConnType],
           \A x \in Connections \ {c} : connection'[x] = connection[x],
           connection'[c].request \in {None, connection[c].request}
    PROVE  /\ start = "done"
           /\ request' \in [Requests -> ReqType]
           /\ Shaped' /\ Pointed' /\ RoomForAll'
           /\ \A x \in Connections \ {c} :
                 Asking(x)' = Asking(x) /\ (Live(x) => Live(x)')
           /\ Asking(c)' = Asking(c) \ {q}
           /\ \A x \in Requests : request'[x].by = "create"
                 => request[x].by = "create" /\ request'[x].connection = request[x].connection
<1>1. connection'[c].request # None
         => connection'[c].request = connection[c].request
            /\ connection'[c].request # q
  BY Parts DEF Pointed
<1>2. request[q].state # "none"  OBVIOUS
<1> QED  BY <1>1, <1>2, DropKeeps

LEMMA FailStopped ==
    ASSUME IInv, NEW q \in Requests, request[q].state = "asked",
           request' = [request EXCEPT ![q] = NoRequest],
           ~isMonitoring, Returned(q, None),
           UNCHANGED <<isMonitoring, start, monitored, told>>
    PROVE  IInv'
<1>0. PICK c \in Connections : c = request[q].connection  BY Owner
<1>1. None \in Pointers  BY DEF Pointers
<1>2. /\ connection' \in [Connections -> ConnType]
      /\ \A x \in Connections \ {c} : connection'[x] = connection[x]
      /\ map' \in [{"namespace", "kind"} -> Connections \cup {None}]
  BY <1>0, <1>1, ReturnedFacts
<1>3. connection'[c].sleeping = connection[c].sleeping
  BY <1>0, <1>1, ReturnedFacts
<1>4. connection'[c].request \in {None}
  BY <1>0, <1>1, ReturnedFacts
<1>5. request[q].by = "reconnect" =>
            /\ connection'[c].isReconnecting = FALSE
            /\ ~connection[c].sleeping /\ Asking(c) = {q}
  BY <1>0, <1>1, ReturnedFacts
<1>6. request[q].by # "reconnect" =>
            /\ connection'[c].isReconnecting = connection[c].isReconnecting
            /\ q \notin Asking(c)
  BY <1>0, <1>1, ReturnedFacts
<1>7. /\ map'.namespace = map.namespace
      /\ map'.kind = IF request[q].by = "create" THEN c ELSE map.kind
  BY <1>0, <1>1, ReturnedFacts
<1>8. /\ start = "done" /\ request' \in [Requests -> ReqType]
      /\ Shaped' /\ Pointed' /\ RoomForAll'
      /\ \A x \in Connections \ {c} :
            Asking(x)' = Asking(x) /\ (Live(x) => Live(x)')
      /\ Asking(c)' = Asking(c) \ {q}
      /\ \A x \in Requests : request'[x].by = "create"
            => request[x].by = "create" /\ request'[x].connection = request[x].connection
  <2>1. connection'[c].request \in {None, connection[c].request}  BY <1>4
  <2> QED  BY <1>0, <1>2, <2>1, FailDrops
<1>9. OneEach'
  <2>1. /\ ~connection[c].isReconnecting => Asking(c) = {} /\ ~connection[c].sleeping
        /\ connection[c].sleeping => Asking(c) = {}
        /\ (connection[c].isReconnecting /\ ~connection[c].sleeping)
              => \E y \in Requests : Asking(c) = {y}
    BY Parts DEF OneEach
  <2>2. CASE request[q].by = "reconnect"
    <3>1. Asking(c)' = {}  BY <1>5, <1>8, <2>2
    <3> QED  BY <1>2, <1>3, <1>5, <1>8, <2>2, <3>1, OneEachAt
  <2>3. CASE request[q].by # "reconnect"
    <3>1. Asking(c)' = Asking(c)  BY <1>6, <1>8, <2>3
    <3> QED  BY <1>2, <1>3, <1>6, <1>8, <2>1, <2>3, <3>1, OneEachAt
  <2> QED  BY <2>2, <2>3
<1>10. Plain'  BY <1>2, Parts DEF Plain
<1>11. Apart'
  <2>1. request[q].by = "create" => c # map.namespace
    BY <1>0, Parts, Numbers DEF Apart
  <2> QED  BY <1>7, <1>8, <2>1, Parts DEF Apart
<1>12. WatchedOrTold'  BY DEF WatchedOrTold
<1> QED  BY <1>2, <1>8, <1>9, <1>10, <1>11, <1>12, Assemble

LEMMA FailReconnects ==
    ASSUME IInv, NEW q \in Requests, NEW c \in Connections, c = request[q].connection,
           request[q].state = "asked", request[q].by = "reconnect",
           request' = [request EXCEPT ![q] = NoRequest], isMonitoring,
           connection' = [connection EXCEPT ![c] =
                            Attempt([@ EXCEPT !.isReconnecting = FALSE])],
           told' = told \cup Reported(connection'[c]),
           UNCHANGED <<isMonitoring, start, monitored, map>>
    PROVE  IInv'
<1>1. q \in Asking(c)  BY DEF Asking, RequestsOf
<1>2. ~connection[c].sleeping /\ Asking(c) = {q}
  BY <1>1, Parts DEF OneEach
<1>3. PICK z : z = [connection[c] EXCEPT !.isReconnecting = FALSE]  OBVIOUS
<1>4. /\ z \in ConnType /\ z.names = connection[c].names /\ z.told = connection[c].told
      /\ z.sleeping = connection[c].sleeping /\ z.request = connection[c].request
      /\ z.isReconnecting = FALSE
  <2>1. connection[c] \in ConnType  BY Parts
  <2> QED  BY <1>3, <2>1 DEF ConnType
<1>5. PICK h : h = Attempt(z)  OBVIOUS
<1>6. /\ h \in ConnType /\ h.names = z.names /\ h.request = z.request
      /\ h.isReconnecting \/ h.told
      /\ z.told => h.told
  BY <1>4, <1>5, AttemptFacts
<1>7. h.isReconnecting = h.sleeping  BY <1>2, <1>4, <1>5, AttemptTimer
<1>8. /\ connection' \in [Connections -> ConnType] /\ connection'[c] = h
      /\ \A x \in Connections \ {c} : connection'[x] = connection[x]
  BY <1>3, <1>5, <1>6, Parts
<1>9. /\ start = "done" /\ request' \in [Requests -> ReqType]
      /\ Shaped' /\ Pointed' /\ RoomForAll'
      /\ \A x \in Connections \ {c} :
            Asking(x)' = Asking(x) /\ (Live(x) => Live(x)')
      /\ Asking(c)' = Asking(c) \ {q}
      /\ \A x \in Requests : request'[x].by = "create"
            => request[x].by = "create" /\ request'[x].connection = request[x].connection
  <2>1. connection'[c].request \in {None, connection[c].request}  BY <1>4, <1>6, <1>8
  <2>2. connection' \in [Connections -> ConnType]
        /\ \A x \in Connections \ {c} : connection'[x] = connection[x]
    BY <1>8
  <2> QED  BY <2>1, <2>2, FailDrops
<1>10. OneEach'
  <2>1. Asking(c)' = {}  BY <1>2, <1>9
  <2>2. \A x \in Connections \ {c} :
           connection'[x] = connection[x] /\ Asking(x)' = Asking(x)
    BY <1>8, <1>9
  <2>3. connection'[c].isReconnecting = connection'[c].sleeping  BY <1>7, <1>8
  <2>4. /\ ~connection'[c].isReconnecting => ~connection'[c].sleeping
        /\ ~(connection'[c].isReconnecting /\ ~connection'[c].sleeping)
    BY <2>3
  <2> QED  BY <2>1, <2>2, <2>4, OneEachAt
<1>11. Reported(h) \subseteq Resources /\ (h.told => Reported(h) = connection[c].names)
  BY <1>4, <1>6 DEF Reported, ConnType
<1>12. Plain'  BY <1>8, <1>11, Parts DEF Plain
<1>13. Apart'  BY <1>9, Parts DEF Apart
<1>14. WatchedOrTold'
  <2>1. Live(c)' \/ (connection'[c].told /\ connection[c].names \subseteq told')
    <3>1. CASE h.isReconnecting  BY <1>8, <3>1 DEF Live
    <3>2. CASE h.told  BY <1>8, <1>11, <3>2
    <3> QED  BY <1>6, <3>1, <3>2
  <2>2. connection'[c].names = connection[c].names
        /\ (connection[c].told => connection'[c].told)
    BY <1>4, <1>6, <1>8
  <2>3. told \subseteq told'  OBVIOUS
  <2> QED  BY <1>8, <1>9, <1>12, <2>1, <2>2, <2>3, LossIsSeen
<1> QED  BY <1>8, <1>9, <1>10, <1>12, <1>13, <1>14, Assemble

LEMMA FailThrows ==
    ASSUME IInv, NEW q \in Requests, NEW c \in Connections, c = request[q].connection,
           request[q].state = "asked", request[q].by # "reconnect",
           request' = [request EXCEPT ![q] = NoRequest], isMonitoring,
           connection' = [connection EXCEPT ![c].told = TRUE],
           told' = told \cup connection[c].names,
           UNCHANGED <<isMonitoring, start, monitored, map>>
    PROVE  IInv'
<1>1. q \notin Asking(c)  BY DEF Asking
<1>2. PICK h : h = [connection[c] EXCEPT !.told = TRUE]  OBVIOUS
<1>3. /\ h \in ConnType /\ h.names = connection[c].names /\ h.told = TRUE
      /\ h.sleeping = connection[c].sleeping /\ h.request = connection[c].request
      /\ h.isReconnecting = connection[c].isReconnecting
  <2>1. connection[c] \in ConnType  BY Parts
  <2> QED  BY <1>2, <2>1 DEF ConnType
<1>4. /\ connection' \in [Connections -> ConnType] /\ connection'[c] = h
      /\ \A x \in Connections \ {c} : connection'[x] = connection[x]
  BY <1>2, <1>3, Parts
<1>5. /\ start = "done" /\ request' \in [Requests -> ReqType]
      /\ Shaped' /\ Pointed' /\ RoomForAll'
      /\ \A x \in Connections \ {c} :
            Asking(x)' = Asking(x) /\ (Live(x) => Live(x)')
      /\ Asking(c)' = Asking(c) \ {q}
      /\ \A x \in Requests : request'[x].by = "create"
            => request[x].by = "create" /\ request'[x].connection = request[x].connection
  <2>1. connection'[c].request \in {None, connection[c].request}  BY <1>3, <1>4
  <2> QED  BY <1>4, <2>1, FailDrops
<1>6. OneEach'
  <2>1. /\ ~connection[c].isReconnecting => Asking(c) = {} /\ ~connection[c].sleeping
        /\ connection[c].sleeping => Asking(c) = {}
        /\ (connection[c].isReconnecting /\ ~connection[c].sleeping)
              => \E y \in Requests : Asking(c) = {y}
    BY Parts DEF OneEach
  <2>2. Asking(c)' = Asking(c)  BY <1>1, <1>5
  <2> QED  BY <1>3, <1>4, <1>5, <2>1, <2>2, OneEachAt
<1>7. connection[c].names \subseteq Resources  BY Parts DEF ConnType
<1>8. Plain'  BY <1>7, Parts DEF Plain
<1>9. Apart'  BY <1>5, Parts DEF Apart
<1>10. WatchedOrTold'
  <2>1. connection'[c].told /\ connection[c].names \subseteq told'  BY <1>3, <1>4
  <2>2. connection'[c].names = connection[c].names  BY <1>3, <1>4
  <2>3. told \subseteq told'  OBVIOUS
  <2> QED  BY <1>4, <1>5, <1>8, <2>1, <2>2, <2>3, LossIsSeen
<1> QED  BY <1>4, <1>5, <1>6, <1>8, <1>9, <1>10, Assemble

\* the start of the session itself fails: it is stopped
LEMMA FailEndsSession ==
    ASSUME IInv, NEW q \in Requests, NEW c \in Connections, c = request[q].connection,
           request[q].state = "asked", request[q].by # "reconnect",
           request' = [request EXCEPT ![q] = NoRequest], Stopped,
           UNCHANGED <<connection, told, start>>
    PROVE  IInv'
<1>1. q \notin Asking(c)  BY DEF Asking
<1>2. connection' \in [Connections -> ConnType]  BY Parts
<1>3. /\ start = "done" /\ request' \in [Requests -> ReqType]
      /\ Shaped' /\ Pointed' /\ RoomForAll'
      /\ \A x \in Connections \ {c} : Asking(x)' = Asking(x)
      /\ Asking(c)' = Asking(c) \ {q}
  BY <1>2, FailDrops
<1>4. OneEach'
  <2>1. \A x \in Connections : Asking(x)' = Asking(x)  BY <1>1, <1>3
  <2> QED  BY <2>1, Parts DEF OneEach
<1>5. /\ isMonitoring' = FALSE /\ monitored' = {}
      /\ map' = [k \in {"namespace", "kind"} |-> None]
  BY Parts DEF Stopped, Plain
<1>6. map' \in [{"namespace", "kind"} -> Connections \cup {None}]
      /\ map'.namespace = None
  BY <1>5
<1>7. Plain'
  <2>1. isMonitoring' \in BOOLEAN  BY <1>5
  <2> QED  BY <1>5, <1>6, <2>1, Parts DEF Plain
<1>8. Apart'  BY <1>6 DEF Apart
<1>9. WatchedOrTold'  BY <1>5 DEF WatchedOrTold
<1> QED  BY <1>2, <1>3, <1>4, <1>7, <1>8, <1>9, Assemble

LEMMA FailKeeps ==
    ASSUME IInv, NEW q \in Requests, Fail(q)
    PROVE  IInv'
<1>1. request[q].state = "asked" /\ request' = [request EXCEPT ![q] = NoRequest]
      /\ UNCHANGED start
  BY DEF Fail
<1>2. PICK c \in Connections : c = request[q].connection  BY <1>1, Owner
<1>3. CASE ~isMonitoring /\ Returned(q, None) /\ UNCHANGED <<isMonitoring, monitored, told>>
  BY <1>1, <1>3, FailStopped
<1>4. CASE /\ isMonitoring /\ request[q].by = "reconnect"
           /\ connection' = [connection EXCEPT ![c] =
                               Attempt([@ EXCEPT !.isReconnecting = FALSE])]
           /\ told' = told \cup Reported(connection'[c])
           /\ UNCHANGED <<isMonitoring, monitored, map>>
  BY <1>1, <1>2, <1>4, FailReconnects
<1>5. CASE /\ isMonitoring /\ request[q].by \in {"update", "create"}
           /\ connection' = [connection EXCEPT ![c].told = TRUE]
           /\ told' = told \cup connection[c].names
           /\ UNCHANGED <<isMonitoring, monitored, map>>
  <2>1. request[q].by # "reconnect"  BY <1>5
  <2> QED  BY <1>1, <1>2, <1>5, <2>1, FailThrows
<1>6. CASE isMonitoring /\ request[q].by = "start" /\ Stopped /\ UNCHANGED <<connection, told>>
  <2>1. request[q].by # "reconnect"  BY <1>6
  <2> QED  BY <1>1, <1>2, <1>6, <2>1, FailEndsSession
<1> QED  BY <1>2, <1>3, <1>4, <1>5, <1>6 DEF Fail

-----------------------------------------------------------------------------
(* The invariant and the theorems                                          *)

LEMMA Initially == Init => IInv
<1> SUFFICES ASSUME Init PROVE IInv
  OBVIOUS
<1>1. /\ isMonitoring = FALSE /\ start = "no" /\ monitored = {} /\ told = {}
      /\ map = NoMap
      /\ connection = [c \in Connections |-> NewConnection({})]
      /\ request = [q \in Requests |-> NoRequest]
  BY DEF Init, NoMap
<1>2. map = [k \in {"namespace", "kind"} |-> None]  BY <1>1 DEF NoMap
<1>3. map.namespace = None  BY <1>1 DEF NoMap
<1>4. /\ NewConnection({}) \in ConnType
      /\ NewConnection({}).isReconnecting = FALSE
      /\ NewConnection({}).sleeping = FALSE
      /\ NewConnection({}).request = None
  <2>1. {} \in SUBSET Resources  OBVIOUS
  <2> QED  BY <2>1, NewConnectionType
<1>5. TypeOK
  <2>1. map \in [{"namespace", "kind"} -> Connections \cup {None}]  BY <1>2
  <2>2. connection \in [Connections -> ConnType]  BY <1>1, <1>4
  <2>3. request \in [Requests -> ReqType]  BY <1>1, NoRequestType
  <2>4. isMonitoring \in BOOLEAN /\ start \in {"no", "version", "done"}  BY <1>1
  <2>5. monitored \subseteq Resources /\ told \subseteq Resources  BY <1>1
  <2> QED  BY <2>1, <2>2, <2>3, <2>4, <2>5 DEF TypeOK, ConnType, ReqType
<1>6. \A q \in Requests : request[q] = NoRequest  BY <1>1
<1>7. \A c \in Connections : connection[c] = NewConnection({})  BY <1>1
<1>8. Fresh0  BY <1>1, <1>4, <1>6, <1>7 DEF Fresh0
<1>9. Shaped  BY <1>6, NoRequestType DEF Shaped
<1>10. Pointed  BY <1>4, <1>7 DEF Pointed
<1>11. Apart  BY <1>3 DEF Apart
<1>12. \A c \in Connections : Asking(c) = {}
  BY <1>6, NoRequestType DEF Asking, RequestsOf
<1>13. OneEach  BY <1>4, <1>7, <1>12 DEF OneEach
<1>14. RoomForAll
  <2>1. Sleeping = {}  BY <1>4, <1>7 DEF Sleeping
  <2>2. Cardinality(Sleeping) = 0  BY <2>1, FS_EmptySet
  <2>3. Cardinality(Free) \in Nat  BY <1>5, CountFree
  <2>4. Cardinality(Sleeping) <= Cardinality(Free)  BY <2>2, <2>3
  <2> QED  BY <2>4 DEF RoomForAll
<1>15. WatchedOrTold  BY <1>1 DEF WatchedOrTold
<1> QED  BY <1>5, <1>8, <1>9, <1>10, <1>11, <1>13, <1>14, <1>15 DEF IInv

LEMMA Stutters == ASSUME IInv, UNCHANGED vars PROVE IInv'
<1>1. UNCHANGED <<isMonitoring, start, monitored, map, connection, request, told>>
  BY DEF vars
<1>2. TypeOK' /\ Fresh0' /\ Shaped' /\ Pointed' /\ Apart'
  BY <1>1, Parts DEF TypeOK, Fresh0, Shaped, Pointed, Apart
<1>3. OneEach' /\ RoomForAll'
  BY <1>1, Parts DEF OneEach, Asking, RoomForAll, Free, Sleeping, RequestsOf
<1>4. WatchedOrTold'
  BY <1>1, Parts DEF WatchedOrTold, Live, RequestsOf
<1> QED  BY <1>2, <1>3, <1>4 DEF IInv

LEMMA Invariance == Spec => []IInv
<1>1. Init => IInv  BY Initially
<1>2. IInv /\ [Next]_vars => IInv'
  <2> SUFFICES ASSUME IInv, [Next]_vars PROVE IInv'
    OBVIOUS
  <2>1. CASE StartMonitoring \/ StopMonitoring  BY <2>1, SessionKeeps
  <2>2. CASE CreateNamespaceWide  BY <2>2, NamespaceWideKeeps
  <2>3. ASSUME NEW r \in Resources, AddResource(r) \/ RemoveResource(r) PROVE IInv'
    BY <2>3, AddKeeps, RemoveKeeps
  <2>4. ASSUME NEW c \in Connections, Wake(c) PROVE IInv'  BY <2>4, WakeKeeps
  <2>5. ASSUME NEW q \in Requests, Open(q) \/ Fail(q) PROVE IInv'
    BY <2>5, OpenKeeps, FailKeeps
  <2>6. ASSUME NEW q \in Requests, NEW error \in {"AbortError", "TimeoutError", "Error"},
               End(q, error)
        PROVE  IInv'
    BY <2>6, EndKeeps
  <2>7. CASE UNCHANGED vars  BY <2>7, Stutters
  <2> QED  BY <2>1, <2>2, <2>3, <2>4, <2>5, <2>6, <2>7 DEF Next
<1> QED  BY <1>1, <1>2, PTL DEF Spec

(* Every variable keeps its type; in particular no connection of the       *)
(* monitor counts more attempts than maxReconnectAttempts, and every watch *)
(* that startWatchConnection asks for finds a request.                     *)
THEOREM TypeCorrect == Spec => []TypeOK
<1>1. IInv => TypeOK  BY Parts
<1> QED  BY Invariance, <1>1, PTL

(* attemptReconnection: isReconnecting holds exactly while one timer or    *)
(* one request for the reconnection of the connection is under way, for    *)
(* any number of requests that end at once, and across stopMonitoring.     *)
THEOREM ReconnectsOnce == Spec => []OneReconnection
<1>1. IInv => OneReconnection
  <2> SUFFICES ASSUME IInv, NEW c \in Connections
               PROVE  Cardinality(Asking(c)) + (IF connection[c].sleeping THEN 1 ELSE 0)
                        = IF connection[c].isReconnecting THEN 1 ELSE 0
    BY DEF OneReconnection, Asking
  <2>1. /\ ~connection[c].isReconnecting => Asking(c) = {} /\ ~connection[c].sleeping
        /\ connection[c].sleeping => Asking(c) = {}
        /\ (connection[c].isReconnecting /\ ~connection[c].sleeping)
              => \E y \in Requests : Asking(c) = {y}
    BY Parts DEF OneEach
  <2>2. CASE ~connection[c].isReconnecting
    <3>1. Asking(c) = {} /\ ~connection[c].sleeping  BY <2>1, <2>2
    <3>2. Cardinality(Asking(c)) = 0  BY <3>1, FS_EmptySet
    <3> QED  BY <2>2, <3>1, <3>2
  <2>3. CASE connection[c].isReconnecting /\ connection[c].sleeping
    <3>1. Asking(c) = {}  BY <2>1, <2>3
    <3>2. Cardinality(Asking(c)) = 0  BY <3>1, FS_EmptySet
    <3> QED  BY <2>3, <3>2
  <2>4. CASE connection[c].isReconnecting /\ ~connection[c].sleeping
    <3>1. PICK y \in Requests : Asking(c) = {y}  BY <2>1, <2>4
    <3>2. Cardinality(Asking(c)) = 1  BY <3>1, FS_Singleton
    <3> QED  BY <2>4, <3>2
  <2> QED  BY <2>2, <2>3, <2>4
<1> QED  BY Invariance, <1>1, PTL

(* While it monitors, no connection of the monitor is without a watch, a   *)
(* reconnection or a report, and no resource that was added is without a   *)
(* connection that has or opens one, unless its addition has thrown or its *)
(* connection was reported (handleWatchError, startWatchConnection,        *)
(* ensureWatchConnection, updateWatchConnection).                          *)
THEOREM NoSilentLoss == Spec => []WatchedOrTold
<1>1. IInv => WatchedOrTold  BY Parts
<1> QED  BY Invariance, <1>1, PTL
=============================================================================
