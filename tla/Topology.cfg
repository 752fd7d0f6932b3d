SPECIFICATION Spec
CONSTANTS
    Nodes = {1, 2}
    Agents = {a1, a2}
    Updaters = {u1}
    Failovers = {f1}
    Updates <- MCChurn
    Strategies = {"round_robin", "latency_aware", "resource_based", "geo_affinity"}
    Answers = {"accepted", "rejected", "error"}
    EvictBatch = 1
    AutoScaling = TRUE
    MinNodeCount = 1
    MaxNodeCount = 2
    AnyNode = AnyNode
    NoMove = NoMove
    NoOne = NoOne
INVARIANT OneHome
INVARIANT StatesInGraph
PROPERTY LockReleased
