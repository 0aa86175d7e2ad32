--------------------------- MODULE WorkflowStates ---------------------------
(***************************************************************************)
(* The two transition tables of the workflow engine                        *)
(* (src/src/execution/workflow/state-machine.ts) and the second table a    *)
(* run transition is checked against (types.ts).  An event that a table    *)
(* does not list for a state makes applyRunEvent / applyNodeEvent throw.   *)
(***************************************************************************)
EXTENDS Naturals

NoEvents == [e \in {} |-> e]

RunEventMap == [
  draft |-> [publish |-> "published"],
  published |-> [queue |-> "queued"],
  queued |-> [start |-> "running", cancel |-> "cancelled",
              request_cancel |-> "cancelling", expire |-> "expired"],
  running |-> [enter_waiting |-> "waiting", enter_approval |-> "awaiting_approval",
               enter_review |-> "awaiting_review", pause |-> "paused",
               request_cancel |-> "cancelling", complete |-> "completed",
               partial_complete |-> "partially_completed", fail |-> "failed",
               block |-> "blocked"],
  waiting |-> [resume |-> "running", request_cancel |-> "cancelling",
               expire |-> "expired"],
  awaiting_approval |-> [resume |-> "running", request_cancel |-> "cancelling",
                         fail |-> "failed", expire |-> "expired"],
  awaiting_review |-> [resume |-> "running", request_cancel |-> "cancelling",
                       fail |-> "failed", expire |-> "expired"],
  paused |-> [resume |-> "running", request_cancel |-> "cancelling",
              expire |-> "expired"],
  cancelling |-> [cancel |-> "cancelled", fail |-> "failed"],
  cancelled |-> NoEvents,
  partially_completed |-> [require_compensation |-> "compensation_required",
                           complete |-> "completed", fail |-> "failed"],
  failed |-> [require_compensation |-> "compensation_required"],
  completed |-> NoEvents,
  compensation_required |-> NoEvents,
  blocked |-> [resume |-> "running", cancel |-> "cancelled", expire |-> "expired"],
  expired |-> NoEvents]

ValidRunTransitions == [
  draft |-> {"published"},
  published |-> {"queued"},
  queued |-> {"running", "cancelling", "cancelled", "expired"},
  running |-> {"waiting", "awaiting_approval", "awaiting_review", "paused",
               "cancelling", "completed", "partially_completed", "failed", "blocked"},
  waiting |-> {"running", "cancelling", "expired"},
  awaiting_approval |-> {"running", "cancelling", "failed", "expired"},
  awaiting_review |-> {"running", "cancelling", "failed", "expired"},
  paused |-> {"running", "cancelling", "expired"},
  cancelling |-> {"cancelled", "failed"},
  cancelled |-> {},
  partially_completed |-> {"compensation_required", "completed", "failed"},
  failed |-> {"compensation_required"},
  completed |-> {},
  compensation_required |-> {"compensating"},
  blocked |-> {"running", "cancelled", "expired"},
  expired |-> {}]

NodeEventMap == [
  pending |-> [mark_ready |-> "ready", block |-> "blocked", skip |-> "skipped",
               cancel |-> "cancelled", expire |-> "expired"],
  ready |-> [start |-> "running", skip |-> "skipped", cancel |-> "cancelled",
             expire |-> "expired"],
  running |-> [wait_approval |-> "waiting_approval", wait_review |-> "waiting_review",
               wait_timer |-> "waiting_timer", wait_event |-> "waiting_event",
               complete |-> "completed", fail |-> "failed", timeout |-> "timed_out",
               cancel |-> "cancelled"],
  waiting_approval |-> [start |-> "running", fail |-> "failed", cancel |-> "cancelled",
                        timeout |-> "timed_out", expire |-> "expired"],
  waiting_review |-> [start |-> "running", fail |-> "failed", cancel |-> "cancelled",
                      timeout |-> "timed_out", expire |-> "expired"],
  waiting_timer |-> [start |-> "running", timeout |-> "timed_out",
                     cancel |-> "cancelled"],
  waiting_event |-> [start |-> "running", timeout |-> "timed_out",
                     cancel |-> "cancelled"],
  completed |-> NoEvents,
  failed |-> [mark_ready |-> "ready", skip |-> "skipped",
              begin_compensate |-> "compensating"],
  cancelled |-> NoEvents,
  skipped |-> NoEvents,
  compensating |-> [compensated |-> "compensated", fail |-> "failed"],
  compensated |-> NoEvents,
  blocked |-> [mark_ready |-> "ready", skip |-> "skipped", expire |-> "expired"],
  timed_out |-> [mark_ready |-> "ready", skip |-> "skipped"],
  expired |-> NoEvents]

RunStates == DOMAIN RunEventMap
NodeStates == DOMAIN NodeEventMap

\* applyRunEvent and applyNodeEvent return, rather than throw.
RunCan(s, e) ==
  /\ e \in DOMAIN RunEventMap[s]
  /\ RunEventMap[s][e] \in ValidRunTransitions[s]
NodeCan(s, e) == e \in DOMAIN NodeEventMap[s]

canAcceptHumanInput(s) == s \in {"awaiting_approval", "awaiting_review"}
canPause(s) == s \in {"running", "waiting"}
canCancel(s) == s \in {"queued", "running", "waiting", "awaiting_approval",
                       "awaiting_review", "paused", "blocked"}

\* The states after which the engine forgets a run.
TerminalRun(s) == s \in {"completed", "failed", "cancelled", "expired"}
=============================================================================
