\* A script that resets tables, run by two migrators on Postgres.
SPECIFICATION Spec
CONSTANTS
    Versions <- MCVersions
    Parts <- MCParts
    Migrators = {m1, m2}
    Files <- MCFiles
    VersionOf <- MCVersionOf
    PathRank <- MCPathRank
    Script <- DuckScript
    Tables <- MCTables
    DBType = "postgres"
    InitVersion = "0.0.13"
    StartVersions = {"0.0.8", "0.0.10"}
    Targets = {NoTarget}
    NoTarget = NoTarget
    NoVersion = NoVersion
    MaxAborts = 2
INVARIANTS SuccessMeansApplied
