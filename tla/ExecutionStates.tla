-------------------------- MODULE ExecutionStates --------------------------
(***************************************************************************)
(* The constant-level part of the execution fabric: the lifecycle table of *)
(* state-machine.ts, the state sets that recovery reads, the safety of a   *)
(* checkpoint kind (checkpoint.ts) and the joint retry decision            *)
(* (retry-classification.ts).                                              *)
(***************************************************************************)

NoTransition == [e \in {} |-> ""]

\* TRANSITIONS: Transitions[state][event] is the next state.
Transitions ==
  [created |->
     [plan |-> "planned", submit_policy |-> "awaiting_policy",
      authorize |-> "authorized", queue |-> "queued", cancel |-> "cancelled",
      mark_unavailable |-> "unavailable"],
   planned |->
     [submit_policy |-> "awaiting_policy", authorize |-> "authorized",
      queue |-> "queued", cancel |-> "cancelled", deny |-> "denied",
      budget_block |-> "budget_blocked", mark_unavailable |-> "unavailable"],
   awaiting_policy |->
     [require_approval |-> "awaiting_approval", authorize |-> "authorized",
      deny |-> "denied", budget_block |-> "budget_blocked",
      mark_unavailable |-> "unavailable", cancel |-> "cancelled",
      timeout |-> "timed_out"],
   awaiting_approval |->
     [grant_approval |-> "authorized", deny |-> "denied",
      cancel |-> "cancelled", timeout |-> "timed_out"],
   authorized |->
     [queue |-> "queued", start |-> "running", deny |-> "denied",
      budget_block |-> "budget_blocked", cancel |-> "cancelled"],
   queued |->
     [start |-> "running", cancel |-> "cancelled", timeout |-> "timed_out",
      budget_block |-> "budget_blocked", deny |-> "denied"],
   running |->
     [observe |-> "observing", succeed |-> "succeeded",
      partial |-> "partially_completed", fail |-> "failed",
      cancel |-> "cancelled", timeout |-> "timed_out",
      mark_dry_run |-> "succeeded"],
   observing |->
     [succeed |-> "succeeded", partial |-> "partially_completed",
      fail |-> "failed", reconcile |-> "reconciliation_required",
      cancel |-> "cancelled", timeout |-> "timed_out"],
   succeeded |-> [reconcile |-> "reconciliation_required"],
   partially_completed |-> [reconcile |-> "reconciliation_required"],
   failed |-> [reconcile |-> "reconciliation_required", retry |-> "queued"],
   cancelled |-> [reconcile |-> "reconciliation_required"],
   timed_out |-> [reconcile |-> "reconciliation_required", retry |-> "queued"],
   denied |-> NoTransition,
   budget_blocked |-> NoTransition,
   unavailable |-> NoTransition,
   reconciliation_required |-> NoTransition]

States == DOMAIN Transitions

\* transition() throws exactly when ~CanFire.
CanFire(state, event) == event \in DOMAIN Transitions[state]
Fire(state, event) == Transitions[state][event]

Terminal == {"succeeded", "partially_completed", "failed", "cancelled",
             "timed_out", "denied", "budget_blocked", "unavailable",
             "reconciliation_required"}

InFlight == {"queued", "running", "observing", "awaiting_approval"}

SideEffectPossible == {"running", "observing"}

-----------------------------------------------------------------------------
Idempotencies == {"naturally_idempotent", "idempotent_with_key",
                  "non_idempotent", "unknown_unsafe"}

\* The two classes every retry and resume gate treats as repeatable.
Repeatable == {"naturally_idempotent", "idempotent_with_key"}

CheckpointKinds == {"task_accepted", "plan_recorded", "policy_admitted",
                    "env_admitted", "step_started", "step_completed",
                    "cancellation_requested", "cleanup_completed",
                    "recovery_decided"}

AlwaysSafeKinds == {"task_accepted", "plan_recorded", "policy_admitted",
                    "env_admitted", "cleanup_completed", "recovery_decided"}

\* Mutant: the idempotency class is not asked for.
IsSideEffectSafeAnyClass(kind, idempotency) == kind # "cancellation_requested"

\* isSideEffectSafe.  The idempotency is "" while the record has no action yet.
\* model_turn_completed and tool_call_completed stand with step_completed, and
\* review_checkpoint_reached is never written.
IsSideEffectSafe(kind, idempotency) ==
  \/ kind \in AlwaysSafeKinds
  \/ kind \in {"step_started", "step_completed"} /\ idempotency \in Repeatable

\* classifyError: what the retry gate learns from an error.
ErrorClasses == {"retryable", "non_retryable", "cancellation"}

\* decideRetry.  `allowed` is the attempt/deadline budget and the caller's veto.
DecideRetry(error, idempotency, sideEffectUnknown, allowed) ==
  CASE error = "cancellation" -> "do_not_retry"
    [] error # "cancellation" /\ sideEffectUnknown
         /\ idempotency \notin Repeatable -> "reconcile"
    [] OTHER -> IF error = "retryable" /\ allowed THEN "retry"
                                                  ELSE "do_not_retry"
=============================================================================
