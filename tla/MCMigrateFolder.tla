-------------------------- MODULE MCMigrateFolder ---------------------------
(***************************************************************************)
(* Folders for Migrate.  The scripts are those of src/migrations that      *)
(* tell the cases apart, under their own version numbers; "0.0.10" comes   *)
(* before "0.0.9" as a string.  Version 0.0.10 gets a second script, which *)
(* the tool allows for (it sorts by version, then by path).                *)
(***************************************************************************)
EXTENDS Migrate

\* "0.0.010" is a -to-version that somebody may give for 0.0.10.
MCVersions == {"0.0.8", "0.0.9", "0.0.10", "0.0.010", "0.0.13", "0.0.17"}
MCParts == [v \in MCVersions |->
    CASE v = "0.0.8"  -> <<0, 0, 8>>
      [] v = "0.0.9"  -> <<0, 0, 9>>
      [] v = "0.0.10" -> <<0, 0, 10>>
      [] v = "0.0.010" -> <<0, 0, 10>>
      [] v = "0.0.13" -> <<0, 0, 13>>
      [] v = "0.0.17" -> <<0, 0, 17>>]

MCFiles == {"f9", "f10a", "f10b", "f13", "f17"}
MCVersionOf == [f \in MCFiles |->
    CASE f = "f9"   -> "0.0.9"
      [] f = "f10a" -> "0.0.10"
      [] f = "f10b" -> "0.0.10"
      [] f = "f13"  -> "0.0.13"
      [] f = "f17"  -> "0.0.17"]
MCPathRank == [f \in MCFiles |->
    CASE f = "f10a" -> 1 [] f = "f10b" -> 2 [] f = "f13" -> 3 [] f = "f17" -> 4 [] f = "f9" -> 5]

MCTables == {"version", "sources", "types", "catalogs"}

Do(what, table) == [does |-> what, on |-> table]

\* DuckDB: f9 stands for the scripts that cannot be repeated (0.0.3 to 0.0.8) and for
\* 0.0.9, f10a and f10b for those that add columns to its tables (0.0.11, 0.0.12), f13
\* for the one that drops the tables, and creates them again in another order.
DuckScript == [f \in MCFiles |->
    CASE f = "f9"   -> <<Do("add", "sources"), Do("table", "types"), Do("table", "catalogs")>>
      [] f = "f10a" -> <<Do("change", "types")>>
      [] f = "f10b" -> <<Do("change", "catalogs")>>
      [] f = "f13"  -> <<Do("drop", "types"), Do("drop", "catalogs"), Do("create", "catalogs"),
                         Do("create", "types"), Do("version", "version")>>
      [] f = "f17"  -> <<Do("change", "types"), Do("version", "version")>>]

\* Postgres: the same without the reset, and with the version set first in one
\* script, which does no harm where a script is one transaction.
PgScript == [DuckScript EXCEPT !["f13"] = <<Do("version", "version"), Do("change", "catalogs")>>]

\* 0.0.15: the version first, on DuckDB.
EarlyScript == [DuckScript EXCEPT !["f17"] = <<Do("version", "version"), Do("change", "types")>>]
=============================================================================
