------------------------------ MODULE MCFabric ------------------------------
(***************************************************************************)
(* Instances of ExecutionFabric for TLC: what callers ask for.             *)
(***************************************************************************)
EXTENDS ExecutionFabric, TLC

Option(idem, keyed, dryRun, planned, isolated) ==
  [idem |-> idem, keyed |-> keyed, dryRun |-> dryRun, planned |-> planned,
   isolated |-> isolated]

\* An unsafe effect behind a key, its dry run, a repeatable one behind the same
\* key, and one that runs in an environment.
MixedCalls ==
  {Option("non_idempotent", TRUE, FALSE, FALSE, FALSE),
   Option("non_idempotent", TRUE, TRUE, FALSE, FALSE),
   Option("idempotent_with_key", TRUE, FALSE, FALSE, FALSE),
   Option("unknown_unsafe", FALSE, FALSE, TRUE, TRUE)}

\* The unsafe effect alone.
UnsafeKeyed == {Option("non_idempotent", TRUE, FALSE, FALSE, FALSE)}

\* A call in an environment never looks at the slot, so it meets only its like.
MCInit ==
  Init /\ \A r, q \in Runs : opts[r].isolated = opts[q].isolated
MCSpec == MCInit /\ [][Next]_vars

\* Runs that differ in nothing but their name.
RunSymmetry == Permutations(Runs)
=============================================================================
