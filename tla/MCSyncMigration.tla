-------------------------- MODULE MCSyncMigration --------------------------
EXTENDS SyncMigration, TLC
CONSTANTS a, b
MCMachine == {a, b}
Symmetry == Permutations(MCMachine)
=============================================================================
