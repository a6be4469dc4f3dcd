SPECIFICATION Spec
CONSTANTS
    Repos = {"r1", "r2"}
    Nodes = {"n1", "n2"}
    RepoOf <- MCRepoOf
    DependsOn <- MCDependsOn
    Providers <- MCProviders
    MaxAgents = 1
    MaxBuilds = 2
    MaxRepairs = 1
    MaxRetries = 1
    MaxCrashes = 1
INVARIANTS BuildsAreCurrent OneWriterPerNode WorkWithinBudget RunningMoves
CONSTRAINT CrashesApart
CHECK_DEADLOCK FALSE
