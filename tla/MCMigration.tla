----------------------------- MODULE MCMigration -----------------------------
(***************************************************************************)
(* Small instances of Migration.                                           *)
(***************************************************************************)
EXTENDS Migration, TLC

CONSTANTS o1, o2

Symmetry == Permutations(Processes)
==============================================================================
