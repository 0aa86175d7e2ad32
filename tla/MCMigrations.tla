---------------------------- MODULE MCMigrations ----------------------------
EXTENDS Migrations, TLC

\* Openers and pids are interchangeable, and the run has invariants only.
Alike == Permutations(Procs) \cup Permutations(Pids)
=============================================================================
