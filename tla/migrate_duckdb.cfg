\* Two runs of the tool on one DuckDB file, with a script that cannot be repeated and a reset.
SPECIFICATION FairSpec
CONSTANTS
    Versions <- MCVersions
    Parts <- MCParts
    Migrators = {m1, m2}
    Files <- MCFiles
    VersionOf <- MCVersionOf
    PathRank <- MCPathRank
    Script <- DuckScript
    Tables <- MCTables
    DBType = "duckdb"
    InitVersion = "0.0.13"
    StartVersions = {"0.0.8", "0.0.10"}
    Targets = {"0.0.9", "0.0.010", NoTarget}
    NoTarget = NoTarget
    NoVersion = NoVersion
    MaxAborts = 2
INVARIANTS TypeOK RecordedIsApplied SuccessMeansApplied CreatedOrInterrupted
PROPERTIES ScriptsInOrder ImplementsCoreSchema MigrationCompletes ConflictOnlyAfterAbort
