SPECIFICATION FairSpec
CONSTANTS
    Threads <- MCThreads
    Room = 1
    Prints <- MCPrints
    Ui = ui
    Worker = worker
    Packages = {1, 2}
    Curated = {1}
    None = None
INVARIANTS TextIsRead OnlyTicked ShownIsInstalled
PROPERTY NobodyWaitsForEver
