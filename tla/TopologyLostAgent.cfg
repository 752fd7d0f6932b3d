SPECIFICATION Spec
CONSTANTS
    Nodes = {1, 2}
    Agents = {a1}
    Updaters = {u1}
    Failovers = {f1}
    Updates <- MCChurn
    Strategies = {"geo_affinity"}
    Answers = {"accepted"}
    EvictBatch = 1
    AutoScaling = FALSE
    MinNodeCount = 1
    MaxNodeCount = 3
    AnyNode = AnyNode
    NoMove = NoMove
    NoOne = NoOne
PROPERTY MigrationKeepsAgents
