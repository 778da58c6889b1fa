\* Two runs of the tool on one Postgres database at the same time.
SPECIFICATION FairSpec
CONSTANTS
    Versions <- MCVersions
    Parts <- MCParts
    Migrators = {m1, m2}
    Files <- MCFiles
    VersionOf <- MCVersionOf
    PathRank <- MCPathRank
    Script <- PgScript
    Tables <- MCTables
    DBType = "postgres"
    InitVersion = "0.0.13"
    StartVersions = {"0.0.8", "0.0.10"}
    Targets = {"0.0.9", "0.0.010", NoTarget}
    NoTarget = NoTarget
    NoVersion = NoVersion
    MaxAborts = 2
INVARIANTS TypeOK RecordedIsApplied SuccessMeansApplied CreatedOrInterrupted
PROPERTIES ScriptsInOrder ImplementsCoreSchema MigrationCompletes
