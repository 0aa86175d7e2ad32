----------------------------- MODULE MCRecovery -----------------------------
(***************************************************************************)
(* Instances of Recovery for TLC.                                          *)
(***************************************************************************)
EXTENDS Recovery, TLC

Option(idem, keyed, planned, isolated) ==
  [idem |-> idem, keyed |-> keyed, dryRun |-> FALSE, planned |-> planned,
   isolated |-> isolated]

\* What recovery tells apart in process: an unsafe and a repeatable effect.
InProcessKinds ==
  {Option("non_idempotent", FALSE, FALSE, FALSE),
   Option("naturally_idempotent", FALSE, FALSE, FALSE)}

UnsafeOnly == {Option("non_idempotent", FALSE, FALSE, FALSE)}

\* Also behind a key, with a plan, and in an environment.
AnyKind ==
  {Option("non_idempotent", TRUE, TRUE, FALSE),
   Option("naturally_idempotent", FALSE, FALSE, FALSE),
   Option("unknown_unsafe", FALSE, FALSE, TRUE)}

\* Runs that differ in nothing but their name.
RunSymmetry == Permutations(Runs)
=============================================================================
