--------------------------- MODULE MCKindMigration ---------------------------
(* KindMigration for TLC.  MCKindMigration_index.cfg has two indexers and no *)
(* task processor (the `memory` run); MCKindMigration_tasks.cfg has two task *)
(* processors, no indexer and an old tombstone (the `migration` run).        *)
EXTENDS KindMigration, TLC

\* Nothing tells one indexer from another.
IndexersAlike == Permutations(Indexer)
=============================================================================
