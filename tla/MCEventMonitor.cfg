SPECIFICATION FairSpec
CONSTANTS
    a = a
    b = b
    Resources = {a, b}
    MaxReconnectAttempts = 2
    MaxConnections = 3
    MaxRequests = 2
CHECK_DEADLOCK FALSE
INVARIANT TypeOK
INVARIANT OneReconnection
INVARIANT WatchedOrTold
PROPERTY Restored
PROPERTY StoppedDrains
