SPECIFICATION Spec
CONSTANTS
    Nodes = {1, 2, 3}
    Agents = {a1, a2, a3}
    Updaters = {u1, u2}
    Failovers = {}
    Updates <- MCUpdates
    Strategies = {"round_robin"}
    Answers = {"accepted", "rejected", "error"}
    EvictBatch = 1
    AutoScaling = FALSE
    MinNodeCount = 1
    MaxNodeCount = 3
    AnyNode = AnyNode
    NoMove = NoMove
    NoOne = NoOne
PROPERTY RoundRobinEven
PROPERTY MigrationKeepsAgents
