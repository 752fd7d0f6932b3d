SPECIFICATION Spec
CHECK_DEADLOCK FALSE
CONSTANTS
    Users = {u1, u2, u3}
    MaxRestarts = 2
    Nodes = {n1, n2, n3, n4}
    Loops = FALSE
    Packages = {p1, p2}
    Submodules = {s1}
    Parent = p1
    MaxTargets = 4
    Energies = {0, 1, 2}
    MaxIterations = 6
    Coolings = 5
    MaxStagnation = 3
    Interval = 4
    Window = 2
    MaxRuns = 2
    Jobs = {j1, j2}
    Clusters = {c1}
    NodePools = {pool1}
    Runs = {run1}
    MaxPolls = 2
    Callers = {v1, v2, v3}
    VaultRetries = 2
    MaxVersions = 3
    Charts = {h1, h2}
    Concurrency = 2
INVARIANT RestartsBounded
INVARIANT SccsExact
 
INVARIANT BestIsLeast
INVARIANT WorkAccounted
INVARIANT CacheCoherent
INVARIANT DeployedWhole
