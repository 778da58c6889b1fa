----------------------------- MODULE MCMigrate ------------------------------
(* Instances of Migrate whose folder and deployment are well formed. *)
EXTENDS MCMigrateFolder

ASSUME WellFormed
=============================================================================
