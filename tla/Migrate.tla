------------------------------ MODULE Migrate -------------------------------
(***************************************************************************)
(* cmd/migrate: the tool that creates the core database or brings its      *)
(* schema up to date by running the scripts of the migrations folder.      *)
(*                                                                         *)
(* The durable state is the core database: whether it exists, which        *)
(* statements of which scripts are in force, and the row of its table      *)
(* "version".  A migrator is one run of the tool; several may run at once  *)
(* (each replica of the automigrate image runs one) and each may die       *)
(* between any two database calls.  All its variables die with it.         *)
(*                                                                         *)
(* Two database engines behave differently, and both are modelled as the   *)
(* drivers the tool uses behave (external to this repository):             *)
(*   postgres  a script sent by one Exec is one transaction; any number of *)
(*             processes may be connected;                                 *)
(*   duckdb    the statements of a script commit one by one; an open       *)
(*             database file is locked against every other process.        *)
(*                                                                         *)
(* A migrator that dies while Postgres still executes its script is a slow *)
(* migrator that executes it and dies then: no action of its own.          *)
(***************************************************************************)
EXTENDS Versions, FiniteSets

CONSTANTS
    Migrators,      \* runs of the tool that may be active at the same time
    Files,          \* the scripts under the migrations folder
    VersionOf,      \* VersionOf[f]: first component of the script's path
    PathRank,       \* PathRank[f]: place of the path of f in strings.Compare order
    Script,         \* Script[f]: the statements of f, see Statements
    Tables,         \* the tables they work on
    DBType,         \* "postgres" or "duckdb"
    InitVersion,    \* the version that coredb.InitSchema creates
    StartVersions,  \* versions an existing database may have at the start
    Targets,        \* values of the flag -to-version that are used
    NoTarget,       \* the flag -to-version is empty
    NoVersion,      \* there is no version to speak of
    MaxAborts       \* bound: how many migrators die or meet an I/O error

(***************************************************************************)
(* What a statement of a script does, as far as losing its table and       *)
(* running it twice go:                                                    *)
(*   table    CREATE TABLE IF NOT EXISTS                                   *)
(*   add      fails if its object is already there (ALTER TABLE ... ADD)   *)
(*   change   may be run again (ADD COLUMN IF NOT EXISTS, UPDATE)          *)
(*   drop     DROP TABLE IF EXISTS                                         *)
(*   create   CREATE TABLE, after the DROP of the same script: with all    *)
(*            that earlier scripts have added to the table                 *)
(*   version  UPDATE "version" SET "version" = <the script's version>      *)
(* Indexes are left out.  They go with their table, and the script that    *)
(* creates it anew creates them again after its last table.                *)
(***************************************************************************)
Statements == [does : {"table", "add", "change", "drop", "create", "version"}, on : Tables]

\* Statement j is the first one after statement i of f on the same table.
NextOnTable(f, i, j) ==
    /\ i < j /\ Script[f][j].on = Script[f][i].on
    /\ \A k \in (i + 1) .. (j - 1) : Script[f][k].on # Script[f][i].on

\* How scripts are written: one that drops a table creates it again next, and what
\* drops or creates a table comes before all else on it.
ScriptShape(f) ==
    \A i \in DOMAIN Script[f] :
        /\ Script[f][i].does = "drop" =>
             \E j \in DOMAIN Script[f] : NextOnTable(f, i, j) /\ Script[f][j].does = "create"
        /\ Script[f][i].does = "create" =>
             \E j \in DOMAIN Script[f] : NextOnTable(f, j, i) /\ Script[f][j].does = "drop"
        /\ Script[f][i].does \in {"drop", "table"} =>
             \A j \in 1 .. (i - 1) : Script[f][j].on # Script[f][i].on

ASSUME MigrateAssumption ==
    /\ VersionOf \in [Files -> Versions]
    /\ PathRank \in [Files -> Nat]
    /\ \A f, g \in Files : PathRank[f] = PathRank[g] => f = g
    /\ Script \in [Files -> Seq(Statements)]
    /\ \A f \in Files : Script[f] # <<>> /\ ScriptShape(f)
    /\ DBType \in {"postgres", "duckdb"}
    /\ InitVersion \in Versions
    /\ StartVersions \subseteq Versions
    /\ Targets \subseteq Versions \cup {NoTarget}
    /\ NoTarget \notin Versions
    /\ NoVersion \notin Versions
    /\ MaxAborts \in Nat

VARIABLES
    db,         \* "absent", "empty" (no schema yet) or "ready"
    done,       \* done[f]: numbers of the statements of f in force, but for tables that are gone
    gone,       \* tables that a script has dropped and none has created since
    recorded,   \* the row of the table "version"
    pc,         \* where each migrator is
    target,     \* its flag -to-version
    version,    \* its variable "version"
    todo,       \* the scripts it has still to run (variable "files")
    pos,        \* statements of the current script already run (duckdb)
    aborts      \* bound variable

dbVars  == <<db, done, gone, recorded>>
ownVars == <<target, version, todo, pos>>
vars    == <<db, done, gone, recorded, pc, target, version, todo, pos, aborts>>

Stopped == {"idle", "success", "created", "failed"}
Running == {"check", "create", "schema", "open", "read", "exec", "bump", "checkpoint"}

TypeOK ==
    /\ db \in {"absent", "empty", "ready"}
    /\ done \in [Files -> SUBSET Nat]
    /\ \A f \in Files : done[f] \subseteq DOMAIN Script[f]
    /\ gone \subseteq Tables
    /\ recorded \in Versions \cup {NoVersion}
    /\ (db = "ready") <=> (recorded \in Versions)
    /\ pc \in [Migrators -> Stopped \cup Running]
    /\ target \in [Migrators -> Targets \cup {NoTarget}]
    /\ version \in [Migrators -> Versions \cup {NoVersion}]
    /\ todo \in [Migrators -> SUBSET Files]
    /\ pos \in [Migrators -> Nat]
    /\ aborts \in 0 .. MaxAborts
-----------------------------------------------------------------------------
(* Scripts and their order *)

\* Every statement of script f is in force, but for tables that are gone.
Applied(f) == done[f] = DOMAIN Script[f]

\* What statement i of f did is there.
InForce(f, i) == i \in done[f] /\ Script[f][i].on \notin gone

\* The filter of the walk over the migrations folder, as far as -to-version goes.
Within(f, t) == t = NoTarget \/ NotNewer(VersionOf[f], t)

\* The order of the scripts after slices.SortFunc.
RunsBefore(f, g) ==
    \/ Older(VersionOf[f], VersionOf[g])
    \/ SameVersion(VersionOf[f], VersionOf[g]) /\ PathRank[f] < PathRank[g]

\* Fault: the scripts run in the order of their paths, as WalkDir yields them.
IsNextUnsorted(f, s) == f \in s /\ \A g \in s \ {f} : PathRank[f] < PathRank[g]

\* f is the script the loop of main takes next from the set s.
IsNext(f, s) == f \in s /\ \A g \in s \ {f} : RunsBefore(f, g)

\* The scripts selected for a database of version v and flag t.
Selected(v, t) == {f \in Files : Older(v, VersionOf[f]) /\ Within(f, t)}

\* Between sql.Open and the end of the process.  (checkDBExists opens and closes.)
HasOpen == {"schema", "read", "exec", "bump", "checkpoint"}

\* A process other than m has the DuckDB file open.
LockedFor(m) == DBType = "duckdb" /\ \E n \in Migrators \ {m} : pc[n] \in HasOpen

\* Migrator m goes on at p, or ends there.
GoTo(m, p) == pc' = [pc EXCEPT ![m] = p]

\* Migrator m ends: nothing is left of its variables but the flag it ran with.
Exit(m, how) ==
    /\ GoTo(m, how)
    /\ version' = [version EXCEPT ![m] = NoVersion]
    /\ todo' = [todo EXCEPT ![m] = {}]
    /\ pos' = [pos EXCEPT ![m] = 0]
    /\ UNCHANGED target
-----------------------------------------------------------------------------
(* One statement on the database *)

\* The statements of f on table t, and the tables that f drops and creates anew.
On(f, t) == {i \in DOMAIN Script[f] : Script[f][i].on = t}
Resets(f) == {t \in Tables : \E i \in On(f, t) : Script[f][i].does = "drop"}

\* After statement i of f its table is another one: nothing is left of what f and the
\* scripts after it did to the old one.
Anew(f, i) ==
    \/ Script[f][i].does = "drop"
    \/ Script[f][i].does = "table" /\ Script[f][i].on \in gone

Effect(f, i) ==
    [g \in Files |->
        (IF Anew(f, i) /\ ~RunsBefore(g, f) THEN done[g] \ On(g, Script[f][i].on) ELSE done[g])
            \cup (IF g = f THEN {i} ELSE {})]

GoneAfter(f, i) ==
    CASE Script[f][i].does = "drop" -> gone \cup {Script[f][i].on}
      [] Script[f][i].does \in {"table", "create"} -> gone \ {Script[f][i].on}
      [] OTHER -> gone

\* All statements of f at once: every table it drops is there again at its end.
ScriptEffect(f) ==
    [g \in Files |->
        IF g = f THEN DOMAIN Script[f]
        ELSE IF RunsBefore(f, g) THEN {i \in done[g] : Script[g][i].on \notin Resets(f)}
        ELSE done[g]]

\* Statement i of f fails: what it adds is there already, or its table is gone.
Fails(f, i) ==
    \/ Script[f][i].does = "add" /\ i \in done[f]
    \/ Script[f][i].does \in {"add", "change"} /\ Script[f][i].on \in gone

ScriptFails(f) == \E i \in DOMAIN Script[f] : Script[f][i].on \notin Resets(f) /\ Fails(f, i)
-----------------------------------------------------------------------------
(* Init: no database yet, or one that an earlier release left in order *)

Init ==
    /\ gone = {}
    /\ \/ /\ db = "absent"
          /\ recorded = NoVersion
          /\ done = [f \in Files |-> {}]
       \/ /\ db = "ready"
          /\ recorded \in StartVersions
          /\ done = [f \in Files |->
                        IF NotNewer(VersionOf[f], recorded) THEN DOMAIN Script[f] ELSE {}]
    /\ pc = [m \in Migrators |-> "idle"]
    /\ target = [m \in Migrators |-> NoTarget]
    /\ version = [m \in Migrators |-> NoVersion]
    /\ todo = [m \in Migrators |-> {}]
    /\ pos = [m \in Migrators |-> 0]
    /\ aborts = 0
-----------------------------------------------------------------------------
(* The tool *)

\* Somebody runs the tool (again), with or without -to-version.
Start(m) ==
    /\ pc[m] \in Stopped
    /\ GoTo(m, "check")
    /\ \E t \in Targets : target' = [target EXCEPT ![m] = t]
    /\ UNCHANGED <<dbVars, version, todo, pos, aborts>>

\* checkDBExists: DuckDB opens the file it finds, and fails on a locked one.
CheckDBExists(m) ==
    /\ pc[m] = "check"
    /\ \/ db = "absent" /\ GoTo(m, "create") /\ UNCHANGED ownVars
       \/ db # "absent" /\ ~LockedFor(m) /\ GoTo(m, "open") /\ UNCHANGED ownVars
       \/ db # "absent" /\ LockedFor(m) /\ Exit(m, "failed")
    /\ UNCHANGED <<dbVars, aborts>>

\* Fault: the tool ends when the database exists, without its schema.
CreateDatabaseOnly(m) ==
    /\ pc[m] = "create"
    /\ \/ db = "absent" /\ db' = "empty" /\ Exit(m, "created")
       \/ db # "absent" /\ Exit(m, "failed") /\ UNCHANGED db
    /\ UNCHANGED <<done, gone, recorded, aborts>>

\* initDB, first half: CREATE DATABASE on Postgres, opening a new file on DuckDB.
CreateDatabase(m) ==
    /\ pc[m] = "create"
    /\ \/ /\ db = "absent"
          /\ db' = "empty"
          /\ GoTo(m, "schema")
          /\ UNCHANGED ownVars
       \/ /\ db # "absent"
          /\ DBType = "postgres" \/ LockedFor(m)
          /\ Exit(m, "failed")
          /\ UNCHANGED db
       \/ /\ db # "absent"
          /\ DBType = "duckdb" /\ ~LockedFor(m)
          /\ GoTo(m, "schema")
          /\ UNCHANGED <<db, ownVars>>
    /\ UNCHANGED <<done, gone, recorded, aborts>>

\* Fault: the new schema comes without its row in "version".
InitSchemaNoVersion(m) ==
    /\ pc[m] = "schema"
    /\ db' = "ready"
    /\ done' = [f \in Files |->
                  IF NotNewer(VersionOf[f], InitVersion) THEN DOMAIN Script[f] ELSE {}]
    /\ Exit(m, "created")
    /\ UNCHANGED <<gone, recorded, aborts>>

\* initDB, second half: InitSchema creates the schema of InitVersion, and fails
\* where another migrator created it meanwhile.  The tool then exits.  The text of
\* the schema is not in this repository: a run that dies before its end leaves a
\* database without version row, "empty" here.
InitSchema(m) ==
    /\ pc[m] = "schema"
    /\ \/ /\ db = "empty"
          /\ db' = "ready"
          /\ recorded' = InitVersion
          /\ done' = [f \in Files |->
                        IF NotNewer(VersionOf[f], InitVersion) THEN DOMAIN Script[f] ELSE {}]
          /\ Exit(m, "created")
          /\ UNCHANGED gone
       \/ /\ db # "empty"
          /\ Exit(m, "failed")
          /\ UNCHANGED dbVars
    /\ UNCHANGED aborts

\* openDB
OpenDB(m) ==
    /\ pc[m] = "open"
    /\ \/ ~LockedFor(m) /\ GoTo(m, "read") /\ UNCHANGED ownVars
       \/ LockedFor(m) /\ Exit(m, "failed")
    /\ UNCHANGED <<dbVars, aborts>>

\* SELECT version, the walk over the folder and the sort.  A database without
\* schema has no table to read.
ReadVersion(m) ==
    /\ pc[m] = "read"
    /\ \/ /\ db = "ready"
          /\ version' = [version EXCEPT ![m] = recorded]
          /\ todo' = [todo EXCEPT ![m] = Selected(recorded, target[m])]
          /\ GoTo(m, "exec")
          /\ UNCHANGED <<target, pos>>
       \/ /\ db # "ready"
          /\ Exit(m, "failed")
    /\ UNCHANGED <<dbVars, aborts>>

\* conn.Exec(parsedSQL) on Postgres: the whole script or nothing.
ExecScript(m) ==
    /\ DBType = "postgres"
    /\ pc[m] = "exec"
    /\ \E f \in todo[m] :
        /\ IsNext(f, todo[m])
        /\ \/ /\ ~ScriptFails(f)
              /\ done' = ScriptEffect(f)
              /\ recorded' = IF \E i \in DOMAIN Script[f] : Script[f][i].does = "version"
                             THEN VersionOf[f] ELSE recorded
              /\ GoTo(m, "bump")
              /\ UNCHANGED ownVars
           \/ /\ ScriptFails(f)
              /\ Exit(m, "failed")
              /\ UNCHANGED <<done, recorded>>
    /\ UNCHANGED <<db, gone, aborts>>

\* conn.Exec(parsedSQL) on DuckDB, one statement of it.
ExecStatement(m) ==
    /\ DBType = "duckdb"
    /\ pc[m] = "exec"
    /\ \E f \in todo[m] :
        LET i == pos[m] + 1
        IN  /\ IsNext(f, todo[m])
            /\ \/ /\ ~Fails(f, i)
                  /\ done' = Effect(f, i)
                  /\ gone' = GoneAfter(f, i)
                  /\ recorded' = IF Script[f][i].does = "version" THEN VersionOf[f] ELSE recorded
                  /\ IF i = Len(Script[f])
                     THEN GoTo(m, "bump") /\ pos' = [pos EXCEPT ![m] = 0]
                     ELSE UNCHANGED pc /\ pos' = [pos EXCEPT ![m] = i]
                  /\ UNCHANGED <<target, version, todo>>
               \/ /\ Fails(f, i)
                  /\ Exit(m, "failed")
                  /\ UNCHANGED <<done, gone, recorded>>
    /\ UNCHANGED <<db, aborts>>

\* Fault: the row gets the version of the script that has just run.
BumpVersionEarly(m) ==
    /\ pc[m] = "bump"
    /\ \E f \in todo[m] :
        /\ IsNext(f, todo[m])
        /\ recorded' = VersionOf[f]
        /\ version' = [version EXCEPT ![m] = VersionOf[f]]
        /\ todo' = [todo EXCEPT ![m] = @ \ {f}]
    /\ GoTo(m, "exec")
    /\ UNCHANGED <<db, done, gone, target, pos, aborts>>

\* The rest of the loop body: at the first script of a new version the row gets
\* the version that is now complete, the one before.
BumpVersion(m) ==
    /\ pc[m] = "bump"
    /\ \E f \in todo[m] :
        /\ IsNext(f, todo[m])
        /\ recorded' = IF version[m] # VersionOf[f] THEN version[m] ELSE recorded
        /\ version' = [version EXCEPT ![m] = VersionOf[f]]
        /\ todo' = [todo EXCEPT ![m] = @ \ {f}]
    /\ GoTo(m, "exec")
    /\ UNCHANGED <<db, done, gone, target, pos, aborts>>

\* Fault: nothing is written after the loop.
FinalVersionMissing(m) ==
    /\ pc[m] = "exec"
    /\ todo[m] = {}
    /\ IF DBType = "duckdb"
       THEN GoTo(m, "checkpoint") /\ UNCHANGED ownVars
       ELSE Exit(m, "success")
    /\ UNCHANGED <<dbVars, aborts>>

\* After the loop: the row gets the version of the last script.
FinalVersion(m) ==
    /\ pc[m] = "exec"
    /\ todo[m] = {}
    /\ recorded' = version[m]
    /\ IF DBType = "duckdb"
       THEN GoTo(m, "checkpoint") /\ UNCHANGED ownVars
       ELSE Exit(m, "success")
    /\ UNCHANGED <<db, done, gone, aborts>>

\* PRAGMA force_checkpoint
Checkpoint(m) ==
    /\ pc[m] = "checkpoint"
    /\ Exit(m, "success")
    /\ UNCHANGED <<dbVars, aborts>>

\* The process is killed, or a call of it returns an error of the operating
\* system, the network or the database and it exits with status 1.
Abort(m) ==
    /\ pc[m] \in Running
    /\ aborts < MaxAborts
    /\ aborts' = aborts + 1
    /\ Exit(m, "failed")
    /\ UNCHANGED dbVars
-----------------------------------------------------------------------------
Step(m) ==
    \/ CheckDBExists(m)
    \/ CreateDatabase(m)
    \/ InitSchema(m)
    \/ OpenDB(m)
    \/ ReadVersion(m)
    \/ ExecScript(m)
    \/ ExecStatement(m)
    \/ BumpVersion(m)
    \/ FinalVersion(m)
    \/ Checkpoint(m)

Next == \E m \in Migrators : Start(m) \/ Step(m) \/ Abort(m)

Spec == Init /\ [][Next]_vars

\* A started process goes on until it ends, and whoever runs the tool (the
\* restart policy of the container) runs it again until it has succeeded.
FairSpec ==
    /\ Spec
    /\ \A m \in Migrators : WF_vars(Step(m)) /\ WF_vars(pc[m] # "success" /\ Start(m))
-----------------------------------------------------------------------------
(***************************************************************************)
(* What the folder and the deployment must satisfy for the tool to be      *)
(* right.  Nothing in the code checks these: they are conditions of the    *)
(* theorems, and the runs show what happens where one does not hold.       *)
(***************************************************************************)

\* The versions that can get into the version row: all but those of -to-version.
StoredVersions == {InitVersion} \cup StartVersions \cup {VersionOf[f] : f \in Files}

\* None of them is written in two ways ("0.0.1", "0.0.01").
CanonicalVersions == \A a, b \in StoredVersions : SameVersion(a, b) => a = b

\* A script that sets the version row itself is the last one of its version,
\* and on DuckDB, where statements commit one by one, does it at its end.
VersionSetLast ==
    \A f \in Files : \A i \in DOMAIN Script[f] :
        Script[f][i].does = "version" =>
            /\ DBType = "duckdb" => i = Len(Script[f])
            /\ \A g \in Files \ {f} : SameVersion(VersionOf[g], VersionOf[f]) => RunsBefore(g, f)

\* The scripts after f that work on tables which f creates.
Undoes(f) ==
    {g \in Files : /\ RunsBefore(f, g)
                   /\ \E i \in DOMAIN Script[f], j \in DOMAIN Script[g] :
                         /\ Script[f][i].does \in {"drop", "table"}
                         /\ Script[g][j].on = Script[f][i].on}

\* They are of later versions, and tables are dropped only where one migrator at a
\* time can be at work.
ResetsAreSafe ==
    /\ \A f \in Files : \A g \in Undoes(f) : Older(VersionOf[f], VersionOf[g])
    /\ \/ DBType = "duckdb"
       \/ \A m, n \in Migrators : m = n
       \/ \A f \in Files : Resets(f) = {}

WellFormed == CanonicalVersions /\ VersionSetLast /\ ResetsAreSafe
-----------------------------------------------------------------------------
(* Properties *)

\* Script g has dropped table t and has not yet created it again: either some migrator
\* is at it, or one was cut short there.
Resetting(g, t) ==
    /\ t \in gone
    /\ \E i, j \in On(g, t) : /\ Script[g][i].does = "drop" /\ i \in done[g]
                             /\ Script[g][j].does = "create" /\ j \notin done[g]

\* The version row never promises more than the schema has, whatever migrators
\* interleave and wherever they die: every statement of every script of the recorded
\* version or an older one is in force, or its table was dropped by a newer script that
\* the row does not promise and that creates the table again when it is run.  The next
\* run skips the promised scripts (compareVersions(version, mv) >= 0), so anything else
\* that is missing here is lost.
RecordedIsApplied ==
    db = "ready" =>
        \A f \in Files : NotNewer(VersionOf[f], recorded) =>
            \A i \in DOMAIN Script[f] :
                InForce(f, i) \/ \E g \in Files : /\ Older(recorded, VersionOf[g])
                                                 /\ Resetting(g, Script[f][i].on)

\* "migrations applied successfully" is true: once a migrator has logged it, and as
\* long as nobody starts it again, all that scripts up to its -to-version did is in
\* force - but for tables that a script beyond -to-version, run and cut short by
\* another migrator, has dropped: the tool does not notice that these are missing.
SuccessMeansApplied ==
    \A m \in Migrators : pc[m] \in {"checkpoint", "success"} =>
        \A f \in Files : Within(f, target[m]) =>
            \A i \in DOMAIN Script[f] :
                InForce(f, i) \/ \E g \in Files : /\ ~Within(g, target[m])
                                                 /\ Resetting(g, Script[f][i].on)

\* No statement of a script takes effect before all that the scripts before it did is in
\* force, even if two migrators started from different versions.  What it may find
\* missing is a table that the script itself, or a later one that was cut short, has
\* dropped.
ScriptsInOrder ==
    [][\A f, g \in Files :
          (db = "ready" /\ ~(done'[f] \subseteq done[f]) /\ RunsBefore(g, f)) =>
            \A i \in DOMAIN Script[g] :
                InForce(g, i) \/ \E h \in Files : /\ ~RunsBefore(h, f)
                                                 /\ Resetting(h, Script[g][i].on)]_vars

\* The scripts that are in force as a schema, and those a version promises.
Installed == IF db = "ready" THEN {f \in Files : Applied(f)} ELSE {}
PromisedBy(v) == {f \in Files : NotNewer(VersionOf[f], v)}

Schema == INSTANCE CoreSchema
    WITH Scripts <- Files, Levels <- Versions, NoLevel <- NoVersion, Precedes <- RunsBefore,
         Promised <- PromisedBy, Renews <- Resets,
         installed <- Installed, missing <- gone, level <- recorded

\* Migrators that interleave and die implement CoreSchema: the schema changes one
\* script at a time, in their order, and loses only this script and later ones; a
\* table is missing only while a script that the version row does not promise has still
\* to create it again; and but for these tables the row is true after every step.
ImplementsCoreSchema == Schema!Spec

\* A script finds its objects already created, or its table gone, only after some run
\* was cut short: complete runs, with or without -to-version, never make the next run
\* fail.
ConflictOnlyAfterAbort ==
    [][\A m \in Migrators : (pc[m] = "exec" /\ pc'[m] = "failed") => aborts' > 0]_vars

\* A database without schema is one that some run is about to complete, or that a
\* run has left when it died: runs that race for its creation never spoil it.
CreatedOrInterrupted ==
    db = "empty" => aborts > 0 \/ \E m \in Migrators : pc[m] = "schema"

\* A database that has its schema ends up with all scripts in force and with the
\* newest version recorded, for good, though runs are killed, locked out and started
\* again - provided that, from some time on, a migrator that has succeeded is left
\* alone, nobody uses -to-version, and no script fails on what an interrupted run has
\* created already or dropped.
MigrationCompletes ==
    (/\ <>[][\A m \in Migrators : pc[m] = "success" => pc'[m] = "success"]_vars
     /\ <>[](\A m \in Migrators : target[m] = NoTarget)
     /\ <>[][\A m \in Migrators : (pc[m] = "exec" /\ pc'[m] = "failed") => aborts' > aborts]_vars)
        => ((db = "ready") ~> [](gone = {} /\ \A f \in Files : Applied(f) /\ NotNewer(VersionOf[f], recorded)))
=============================================================================
