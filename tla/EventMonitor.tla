---------------------------- MODULE EventMonitor ----------------------------
(***************************************************************************)
(* The event monitor of a deployment: its watch connections, one for the   *)
(* Namespace and one for each kind in it, the watch requests that serve    *)
(* them, and their reconnection.  The engine makes a monitor per           *)
(* deployment, starts it once without resources and stops it at the end or *)
(* at the timeout; resources are added without waiting for the answer.     *)
(*                                                                         *)
(* Abstractions: the resources are of one kind; the events, the            *)
(* resourceVersion and the delays are left out; the transport is           *)
(* BunCompatibleWatch, and an error of the credentials is neither an       *)
(* AbortError nor a TimeoutError.                                          *)
(***************************************************************************)
EXTENDS Naturals, FiniteSets, Functions

CONSTANTS
    Resources,
    MaxReconnectAttempts,
    MaxConnections,    \* bound: connections that exist at a time
    MaxRequests        \* bound: watch requests and pending reconnections

ASSUME BoundsArePositive ==
    /\ MaxReconnectAttempts \in Nat \ {0}
    /\ MaxConnections \in Nat \ {0} /\ MaxRequests \in Nat \ {0}

Connections == 1..MaxConnections
Requests    == 1..MaxRequests
None        == 0

VARIABLES
    isMonitoring,
    start,          \* how far startMonitoring is
    monitored,      \* monitoredResources
    map,            \* watchConnections: of the Namespace, of the kind
    connection,     \* the objects WatchConnection
    request,        \* the watch requests
    told            \* resources of which somebody knows that they are not watched

vars == <<isMonitoring, start, monitored, map, connection, request, told>>

\* sleeping: a reconnection waits for its delay; told: the monitoring of the
\* connection was reported as degraded, or its restart has thrown
NewConnection(names) ==
    [names |-> names, reconnectAttempts |-> 0, isReconnecting |-> FALSE,
     sleeping |-> FALSE, request |-> None, told |-> FALSE]

\* a slot without a watch request
NoRequest ==
    [connection |-> None, state |-> "none", aborted |-> FALSE, by |-> "none"]

Init ==
    /\ isMonitoring = FALSE /\ start = "no" /\ monitored = {} /\ told = {}
    /\ map = [namespace |-> None, kind |-> None]
    /\ connection = [c \in Connections |-> NewConnection({})]
    /\ request = [q \in Requests |-> NoRequest]

RequestsOf(c) == {q \in Requests : request[q].connection = c}
Unused == {c \in Connections : c \notin Range(map) /\ RequestsOf(c) = {}
                               /\ ~connection[c].sleeping}
Fresh == CHOOSE c \in Unused : TRUE
Room == Cardinality(RequestsOf(None))
          > Cardinality({c \in Connections : connection[c].sleeping})

-----------------------------------------------------------------------------
(* startWatchConnection: the request first awaits the credentials.  by is  *)
(* what awaits the start: the creation of a connection, an update of its   *)
(* field selector, a reconnection, or startMonitoring.                     *)

StartAlways == TRUE
MayStart == isMonitoring

AbortRequest(c, rs) ==
    IF connection[c].request = None THEN rs
    ELSE [rs EXCEPT ![connection[c].request].aborted = TRUE]

StartWatch(c, by, rs) ==
    IF MayStart
    THEN request' = [rs EXCEPT ![CHOOSE q \in RequestsOf(None) : TRUE] =
                       [connection |-> c, state |-> "asked", aborted |-> FALSE,
                        by |-> by]]
    ELSE request' = rs

-----------------------------------------------------------------------------
(* startMonitoring([]), stopMonitoring                                     *)

StartMonitoring ==
    /\ start = "no" /\ start' = "version" /\ isMonitoring' = TRUE
    /\ UNCHANGED <<monitored, map, connection, request, told>>

\* createNamespaceWideWatchConnection, after getResourceVersionForTime
CreateNamespaceWide ==
    /\ start = "version" /\ start' = "done"
    /\ map' = [map EXCEPT !.namespace = Fresh]
    /\ connection' = [connection EXCEPT ![Fresh] = NewConnection({})]
    /\ StartWatch(Fresh, "start", request)
    /\ UNCHANGED <<isMonitoring, monitored, told>>

\* no request is aborted
Stopped ==
    /\ isMonitoring' = FALSE /\ monitored' = {}
    /\ map' = [k \in DOMAIN map |-> None]

StopMonitoring ==
    /\ isMonitoring /\ Stopped
    /\ UNCHANGED <<start, connection, request, told>>

-----------------------------------------------------------------------------
(* addResource, removeResource                                             *)

\* one name is selected by it, several by their kind
FieldSelector(names) == IF Cardinality(names) = 1 THEN names ELSE Resources

\* updateConnectionFieldSelector
UpdateSelector(c, names) ==
    /\ connection' = [connection EXCEPT ![c].names = names]
    /\ IF FieldSelector(names) = FieldSelector(connection[c].names)
       THEN UNCHANGED request
       ELSE StartWatch(c, "update", AbortRequest(c, request))

\* createWatchConnection; the connection is put into the map when its watch
\* has started, at once if it is not to be started
Create(r) ==
    /\ map.kind = None /\ Unused # {}
    /\ connection' = [connection EXCEPT ![Fresh] = NewConnection({r})]
    /\ StartWatch(Fresh, "create", request)
    /\ map' = IF MayStart THEN map ELSE [map EXCEPT !.kind = Fresh]

AddResource(r) ==
    /\ start = "done" /\ Room
    /\ monitored' = monitored \cup {r}
    /\ \/ Create(r) /\ told' = told \ {r}
       \/ /\ map.kind # None /\ UNCHANGED map
          /\ UpdateSelector(map.kind, connection[map.kind].names \cup {r})
          /\ told' = IF connection[map.kind].told THEN told \cup {r} ELSE told \ {r}
    /\ UNCHANGED <<isMonitoring, start>>

\* updateWatchConnection: the last name takes the connection with it
RemoveResource(r) ==
    LET c == map.kind
        names == connection[c].names \ {r}
    IN  /\ r \in monitored /\ Room /\ monitored' = monitored \ {r}
        /\ \/ c = None /\ UNCHANGED <<map, connection, request>>
           \/ /\ c # None /\ names = {}
              /\ map' = [map EXCEPT !.kind = None]
              /\ connection' = [connection EXCEPT ![c].names = {}]
              /\ request' = AbortRequest(c, request)
           \/ c # None /\ names # {} /\ UpdateSelector(c, names) /\ UNCHANGED map
        /\ UNCHANGED <<isMonitoring, start, told>>

-----------------------------------------------------------------------------
(* attemptReconnection: the connection after the call                      *)

AttemptWithoutMaximum(k) ==
    IF k.isReconnecting THEN k
    ELSE [k EXCEPT !.isReconnecting = TRUE, !.sleeping = TRUE,
                   !.reconnectAttempts = @ + 1]
AttemptAgain(k) ==
    IF k.reconnectAttempts >= MaxReconnectAttempts THEN [k EXCEPT !.told = TRUE]
    ELSE [k EXCEPT !.isReconnecting = TRUE, !.sleeping = TRUE,
                   !.reconnectAttempts = @ + 1]
AttemptUncounted(k) ==
    IF k.isReconnecting THEN k
    ELSE [k EXCEPT !.isReconnecting = TRUE, !.sleeping = TRUE]
Attempt(k) ==
    IF k.isReconnecting THEN k
    ELSE IF k.reconnectAttempts >= MaxReconnectAttempts THEN [k EXCEPT !.told = TRUE]
    ELSE [k EXCEPT !.isReconnecting = TRUE, !.sleeping = TRUE,
                   !.reconnectAttempts = @ + 1]

\* the end of the delay
Wake(c) ==
    /\ connection[c].sleeping
    /\ connection' = [connection EXCEPT ![c].sleeping = FALSE,
                                        ![c].isReconnecting = isMonitoring]
    /\ IF isMonitoring THEN StartWatch(c, "reconnect", request)
                       ELSE UNCHANGED request
    /\ UNCHANGED <<isMonitoring, start, monitored, map, told>>

Reconnected(k) == [k EXCEPT !.reconnectAttempts = 0, !.isReconnecting = FALSE]

\* what happens to the connection and to the map once the start has returned
Returned(q, req) ==
    LET c == request[q].connection
        k == [connection[c] EXCEPT !.request = req]
    IN  /\ connection' = [connection EXCEPT ![c] =
                            IF request[q].by = "reconnect" THEN Reconnected(k) ELSE k]
        /\ map' = IF request[q].by = "create" THEN [map EXCEPT !.kind = c] ELSE map

Open(q) ==
    /\ request[q].state = "asked"
    /\ request' = [request EXCEPT ![q].state = "open", ![q].by = "none"]
    /\ Returned(q, q)
    /\ UNCHANGED <<isMonitoring, start, monitored, told>>

Reported(k) == IF k.told THEN k.names ELSE {}

\* the credentials fail: ignored once stopped, else the start throws
Fail(q) ==
    LET c == request[q].connection
        by == request[q].by
    IN  /\ request[q].state = "asked"
        /\ request' = [request EXCEPT ![q] = NoRequest]
        /\ \/ /\ ~isMonitoring /\ Returned(q, None)
              /\ UNCHANGED <<isMonitoring, monitored, told>>
           \/ /\ isMonitoring /\ by = "reconnect"
              /\ connection' = [connection EXCEPT ![c] =
                                  Attempt([@ EXCEPT !.isReconnecting = FALSE])]
              /\ told' = told \cup Reported(connection'[c])
              /\ UNCHANGED <<isMonitoring, monitored, map>>
           \/ /\ isMonitoring /\ by \in {"update", "create"}
              /\ connection' = [connection EXCEPT ![c].told = TRUE]
              /\ told' = told \cup connection[c].names
              /\ UNCHANGED <<isMonitoring, monitored, map>>
           \/ /\ isMonitoring /\ by = "start" /\ Stopped
              /\ UNCHANGED <<connection, told>>
        /\ UNCHANGED start

\* handleWatchError
TimeoutIgnored(k, error) == IF error = "Error" THEN Attempt(k) ELSE k
Handled(k, error) ==
    CASE error = "AbortError"   -> k
      [] error = "TimeoutError" -> Attempt([k EXCEPT !.reconnectAttempts = 0])
      [] OTHER                  -> Attempt(k)

\* An open request ends; the response of an aborted one may do so with an
\* error of the socket.
End(q, error) ==
    LET c == request[q].connection
        k == [connection[c] EXCEPT !.request = IF @ = q THEN None ELSE @]
    IN  /\ request[q].state = "open"
        /\ error # IF request[q].aborted THEN "TimeoutError" ELSE "AbortError"
        /\ request' = [request EXCEPT ![q] = NoRequest]
        /\ connection' = [connection EXCEPT ![c] =
                            IF isMonitoring THEN Handled(k, error) ELSE k]
        /\ told' = told \cup Reported(connection'[c])
        /\ UNCHANGED <<isMonitoring, start, monitored, map>>

Next ==
    \/ StartMonitoring \/ CreateNamespaceWide \/ StopMonitoring
    \/ \E r \in Resources : AddResource(r) \/ RemoveResource(r)
    \/ \E c \in Connections : Wake(c)
    \/ \E q \in Requests : Open(q) \/ Fail(q)
    \/ \E q \in Requests, error \in {"AbortError", "TimeoutError", "Error"} :
          End(q, error)

(* Delays elapse, credentials come or fail, and the API server ends every  *)
(* watch after its timeoutSeconds.                                         *)
Fairness ==
    /\ \A c \in Connections : WF_vars(Wake(c))
    /\ \A q \in Requests :
          /\ WF_vars(Open(q) \/ Fail(q))
          /\ WF_vars(\E error \in {"AbortError", "TimeoutError", "Error"} : End(q, error))

Spec == Init /\ [][Next]_vars
FairSpec == Spec /\ Fairness

-----------------------------------------------------------------------------
(* Properties                                                              *)

(* The types of all variables; no connection counts more attempts than the *)
(* options allow.                                                          *)
TypeOK ==
    /\ isMonitoring \in BOOLEAN /\ start \in {"no", "version", "done"}
    /\ monitored \subseteq Resources /\ told \subseteq Resources
    /\ map \in [{"namespace", "kind"} -> Connections \cup {None}]
    /\ connection \in [Connections ->
          [names : SUBSET Resources, reconnectAttempts : 0..MaxReconnectAttempts,
           isReconnecting : BOOLEAN, sleeping : BOOLEAN,
           request : Requests \cup {None}, told : BOOLEAN]]
    /\ request \in [Requests ->
          [connection : Connections \cup {None}, state : {"none", "asked", "open"},
           aborted : BOOLEAN,
           by : {"none", "create", "update", "reconnect", "start"}]]

(* However many requests of a connection end, and whenever the monitor is  *)
(* stopped, isReconnecting holds exactly while one reconnection is under   *)
(* way, which waits or asks, and never two (attemptReconnection).          *)
OneReconnection ==
    \A c \in Connections :
        LET asking == {q \in RequestsOf(c) : request[q].by = "reconnect"}
        IN  Cardinality(asking) + (IF connection[c].sleeping THEN 1 ELSE 0)
              = IF connection[c].isReconnecting THEN 1 ELSE 0

\* the connection has a watch or will have one
Live(c) ==
    connection[c].isReconnecting \/ \E q \in RequestsOf(c) : ~request[q].aborted

(* No watch is lost silently: while it monitors, a connection of the       *)
(* monitor has a request that was not aborted, or reconnects, or has been  *)
(* reported; and a resource that was added is a name of a connection that  *)
(* has or opens a watch, in the map or not, unless its addition has thrown *)
(* or the connection it was added to has been reported.                    *)
WatchedOrTold ==
    isMonitoring =>
        /\ \A c \in Range(map) \ {None} : Live(c) \/ connection[c].told
        /\ \A r \in monitored \ told :
              \E c \in Connections : r \in connection[c].names /\ Live(c)

Watching(c) == \E q \in RequestsOf(c) : request[q].state = "open"

(* A connection that has lost its watch gets a new one, or is reported, as *)
(* long as the monitor runs: no start can fail for ever unnoticed          *)
(* (attemptReconnection, up to maxReconnectAttempts).                      *)
Restored ==
    \A c \in Connections :
        (isMonitoring /\ c \in Range(map))
          ~> (~isMonitoring \/ c \notin Range(map) \/ Watching(c) \/ connection[c].told)

(* After stopMonitoring, which aborts nothing, the requests run out for    *)
(* good: no timer and no late addition brings one back.                    *)
StoppedDrains ==
    (start # "no" /\ ~isMonitoring) ~> [](\A q \in Requests : request[q] = NoRequest)
=============================================================================
