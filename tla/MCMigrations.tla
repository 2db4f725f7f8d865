---------------------------- MODULE MCMigrations -----------------------------
(* Instance: the eight files of migration_files, with their statements.      *)
EXTENDS Migrations, TLC

MCNumFiles == 8
MCStatements == << 3, 3, 2, 1, 2, 1, 1, 1 >>
MCRepeatable == {1, 2, 3, 5, 8}
=============================================================================
