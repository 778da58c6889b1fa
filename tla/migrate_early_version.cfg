\* A script that sets the version first, on DuckDB.
SPECIFICATION Spec
CONSTANTS
    Versions <- MCVersions
    Parts <- MCParts
    Migrators = {m1}
    Files <- MCFiles
    VersionOf <- MCVersionOf
    PathRank <- MCPathRank
    Script <- EarlyScript
    Tables <- MCTables
    DBType = "duckdb"
    InitVersion = "0.0.13"
    StartVersions = {"0.0.8", "0.0.10"}
    Targets = {NoTarget}
    NoTarget = NoTarget
    NoVersion = NoVersion
    MaxAborts = 2
INVARIANTS SuccessMeansApplied
