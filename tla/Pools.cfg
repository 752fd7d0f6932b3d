SPECIFICATION Spec
CHECK_DEADLOCK FALSE
CONSTANTS
    Clients = {c1, c2}
    Endpoints = 1
    Channels = {h1, h2, h3, h4, h5}
    Strategies = {"round_robin", "random", "latency_aware"}
    MaxConn = 2
    MaxIdle = 1
    RetryCount = 2
    NoChannel = NoChannel
    NoEndpoint = NoEndpoint
    Callers = {k1, k2}
    Connections = {x1, x2}
    NoConnection = NoConnection
INVARIANT OneOwner
INVARIANT PermitsAccounted
INVARIANT KmipConserved
PROPERTY NoneDropped
PROPERTY ClientsServed
