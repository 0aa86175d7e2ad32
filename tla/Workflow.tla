------------------------------ MODULE Workflow ------------------------------
(***************************************************************************)
(* WorkflowEngine (src/src/execution/workflow/engine.ts) executing one run *)
(* of one published definition, as WorkflowRuntime                         *)
(* (src/src/daemon/workflow-runtime.ts) builds and drives it.              *)
(*                                                                         *)
(* JavaScript runs between two awaits without interruption, so each such   *)
(* segment is one action: the start of every ready node up to its first    *)
(* await, the return of one agent, tool or timer, the end of a tick, and   *)
(* each control verb.  A verb or a result that arrives while another       *)
(* advanceRun() awaits its nodes starts or meets a second loop over the    *)
(* same run: `Loops` are the calls of advanceRun() that may be active.     *)
(*                                                                         *)
(* A run object lives in memory, in the store, or in both.  While `live`   *)
(* names one, every verb works on it; otherwise a verb works on a copy     *)
(* read from the store.  A loop that starts from such a copy owns it.      *)
(*                                                                         *)
(* The execution recorder never fails (the daemon's swallows its errors),  *)
(* waitForEvent() always rejects (the daemon's does), and what a branch    *)
(* decides is arbitrary.                                                   *)
(***************************************************************************)
EXTENDS WorkflowStates, Sequences

CONSTANTS
  Definitions,  \* the published definitions a run may be started from
  Loops,        \* bound: calls of advanceRun() active at a time
  MaxPauses,    \* bound: how often pause() is called
  MaxCrashes,   \* bound: how often the daemon dies
  None          \* no loop, no object

(***************************************************************************)
(* A definition: the node ids in order, and for each its kind, its         *)
(* dependencies, its maxRetries, and the targets of a branch; which        *)
(* approvals stop the workflow when denied, which nodes ask for a          *)
(* compensation when they fail, and which completions end it in part.      *)
(***************************************************************************)
Kinds == {"instant", "agentic", "tool_action", "wait_timer", "wait_event",
          "human_approval", "human_review", "branch", "completion", "compensation"}
HumanKinds == {"human_approval", "human_review"}

\* What WorkflowRun.nodeStates, a Map filled from the nodes of a definition that
\* passed validateGraph, and the state tables make of a run.
RunObjects(N) ==
  [run : RunStates, node : [N -> NodeStates], attempt : [N -> Nat]]

\* A definition the routes let through: every dependency and target is a node, the
\* order names each node once, and no node depends on itself through others.
IsDefinition(d) ==
  LET N == DOMAIN d.kind
  IN /\ d.kind \in [N -> Kinds]
     /\ d.deps \in [N -> SUBSET N]
     /\ d.retries \in [N -> Nat]
     /\ d.onTrue \in [N -> SUBSET N] /\ d.onFalse \in [N -> SUBSET N]
     /\ d.order \in Seq(N)
     /\ \A n \in N : \E i \in 1..Len(d.order) : d.order[i] = n
     /\ \A i, j \in 1..Len(d.order) : d.order[i] = d.order[j] => i = j
     /\ \A S \in SUBSET N : S # {} => \E n \in S : d.deps[n] \cap S = {}

ASSUME DefinitionsAssumption == \A d \in Definitions : IsDefinition(d)
ASSUME LoopsAssumption == Loops # {}
ASSUME NoneAssumption ==
  /\ None \notin Loops
  /\ \A d \in Definitions : None \notin RunObjects(DOMAIN d.kind)
ASSUME BoundsAssumption == MaxPauses \in Nat /\ MaxCrashes \in Nat

VARIABLES
  def,        \* run.definitionSnapshot
  objs,       \* the run object each loop was given, when it has one of its own
  live,       \* engine.live: the loop that owns the live object, or None
  stored,     \* the row WorkflowRepository.saveRun wrote last
  pc,         \* a loop: "idle", "top" of its while, or in a "tick"
  of,         \* the loop whose object it advances
  fly,        \* the nodes whose executeNode() it awaits
  ctrl,       \* engine.running: the loop whose AbortController is registered
  aborted,    \* the loop's controller was aborted
  decisions,  \* the human decisions saved: <<node, decision>>
  ended,      \* engine.reported.ended: run_end was emitted, and the state it told
  starts,     \* history: how often each node was started
  pauses, crashes  \* bounded counters

vars == <<def, objs, live, stored, pc, of, fly, ctrl, aborted, decisions, ended,
          starts, pauses, crashes>>

Nodes == DOMAIN def.kind
Decisions == {"approved", "denied", "changes_requested", "rejected", "expired"}

TypeOK ==
  LET RunObject == RunObjects(Nodes)
  IN /\ def \in Definitions
     /\ objs \in [Loops -> RunObject \cup {None}]
     /\ live \in Loops \cup {None}
     /\ stored \in RunObject
     /\ pc \in [Loops -> {"idle", "top", "tick"}]
     /\ of \in [Loops -> Loops]
     /\ fly \in [Loops -> SUBSET Nodes]
     /\ ctrl \in Loops \cup {None}
     /\ aborted \in [Loops -> BOOLEAN]
     /\ decisions \subseteq Nodes \X Decisions
     /\ ended \in RunStates \cup {None}
     /\ starts \in [Nodes -> Nat]
     /\ pauses \in 0..MaxPauses
     /\ crashes \in 0..MaxCrashes

-----------------------------------------------------------------------------
\* startRun: an entry node is ready, every other pending; saved as queued.
NewRun ==
  [run |-> "queued",
   node |-> [n \in Nodes |-> IF def.deps[n] = {} THEN "ready" ELSE "pending"],
   attempt |-> [n \in Nodes |-> 0]]

Init ==
  /\ def \in Definitions
  /\ stored = NewRun
  /\ live = CHOOSE l \in Loops : TRUE
  /\ objs = [l \in Loops |-> IF l = live THEN NewRun ELSE None]
  /\ pc = [l \in Loops |-> "idle"]
  /\ of = [l \in Loops |-> l]
  /\ fly = [l \in Loops |-> {}]
  /\ ctrl = None
  /\ aborted = [l \in Loops |-> FALSE]
  /\ decisions = {}
  /\ ended = None
  /\ starts = [n \in Nodes |-> 0]
  /\ pauses = 0
  /\ crashes = 0

\* requireRun: the live object, else a copy of the row.
Current == IF live = None THEN stored ELSE objs[live]

\* No loop is between two awaits: only then can anything else run.
Quiet == \A l \in Loops : pc[l] # "top" /\ (pc[l] = "tick" => fly[l] # {})

\* A loop whose id, and whose object, nothing uses.
Free(l) == pc[l] = "idle" /\ live # l /\ \A m \in Loops \ {l} : pc[m] = "idle" \/ of[m] # l

\* emitChanges: the first report of a terminal state is the run_end event; what
\* comes after it is not reported.
Report(o) == ended' = IF ended = None /\ TerminalRun(o.run) THEN o.run ELSE ended

-----------------------------------------------------------------------------
Put(o, n, s) == [o EXCEPT !.node[n] = s]

\* The catch of executeNode().  A `fail` the table refuses throws out of it, and
\* Promise.allSettled swallows that.
Caught(o, n, wasAborted) ==
  IF wasAborted \/ o.node[n] = "cancelled"
  THEN IF NodeCan(o.node[n], "cancel") THEN Put(o, n, "cancelled") ELSE o
  ELSE IF def.retries[n] > 0 /\ o.attempt[n] <= def.retries[n] THEN Put(o, n, "ready")
  ELSE IF NodeCan(o.node[n], "fail") THEN Put(o, n, "failed") ELSE o

\* A node takes a state of its own and then moves the run, which may throw.
Enter(o, n, state, event) ==
  IF RunCan(o.run, event)
  THEN [Put(o, n, state) EXCEPT !.run = RunEventMap[o.run][event]]
  ELSE Caught(Put(o, n, state), n, FALSE)

\* executeBranchNode: the targets of the side taken become ready, those of the
\* other side are skipped, and so is every pending node all of whose
\* dependencies are skipped.
Branched(o, n, taken) ==
  LET on == IF taken THEN def.onTrue[n] ELSE def.onFalse[n]
      off == (IF taken THEN def.onFalse[n] ELSE def.onTrue[n]) \ on
      pending == {m \in Nodes : o.node[m] = "pending"} \ on
      Closed(S) ==
        /\ off \cap pending \subseteq S
        /\ \A m \in pending :
             /\ def.deps[m] # {}
             /\ \A d \in def.deps[m] : d \in S \/ o.node[d] = "skipped"
             => m \in S
      skipped == {m \in pending : \A S \in SUBSET pending : Closed(S) => m \in S}
  IN [o EXCEPT !.node = [m \in Nodes |->
        IF m = n THEN "completed"
        ELSE IF m \in skipped THEN "skipped"
        ELSE IF m \in on /\ o.node[m] = "pending" THEN "ready"
        ELSE o.node[m]]]

\* executeCompletionNode: an outcome other than success ends the run in part.
Completes(n) == IF n \in def.partial THEN "partial_complete" ELSE "complete"

\* executeNode() up to its first await.
Started(o, n, taken) ==
  LET r == [Put(o, n, "running") EXCEPT !.attempt[n] = @ + 1]
  IN CASE def.kind[n] = "instant" -> Put(r, n, "completed")
       [] def.kind[n] \in {"agentic", "tool_action"} -> r
       [] def.kind[n] = "wait_timer" -> Enter(r, n, "waiting_timer", "enter_waiting")
       \* waitForEvent rejects, and the table has no `fail` from waiting_event.
       [] def.kind[n] = "wait_event" ->
            Caught(Enter(r, n, "waiting_event", "enter_waiting"), n, FALSE)
       [] def.kind[n] = "human_approval" ->
            Enter(r, n, "waiting_approval", "enter_approval")
       [] def.kind[n] = "human_review" ->
            Enter(r, n, "waiting_review", "enter_review")
       [] def.kind[n] = "branch" -> Branched(r, n, taken[n])
       [] def.kind[n] = "completion" -> Enter(r, n, "completed", Completes(n))
       \* begin_compensate is no event of a running node.
       [] def.kind[n] = "compensation" -> Caught(r, n, FALSE)

\* Mutant: a cancelled run is recomputed like any other.
RecomputedAfterCancel(o) ==
  LET In(S) == \E n \in Nodes : o.node[n] \in S
      To(s) == [o EXCEPT !.run = s]
  IN IF In({"waiting_approval"}) THEN To("awaiting_approval")
     ELSE IF In({"waiting_review"}) THEN To("awaiting_review")
     ELSE IF In({"waiting_timer", "waiting_event"}) THEN To("waiting")
     ELSE IF In({"failed"}) THEN To("failed")
     ELSE IF In({"pending", "ready", "running"}) THEN To("running")
     ELSE To("completed")

\* Mutant: a failure is looked for before the nodes that wait for a person.
RecomputedFailureFirst(o) ==
  LET In(S) == \E n \in Nodes : o.node[n] \in S
      To(s) == [o EXCEPT !.run = s]
  IN IF o.run = "cancelled" THEN o
     ELSE IF In({"failed"}) THEN To("failed")
     ELSE IF In({"waiting_approval"}) THEN To("awaiting_approval")
     ELSE IF In({"waiting_review"}) THEN To("awaiting_review")
     ELSE IF In({"waiting_timer", "waiting_event"}) THEN To("waiting")
     ELSE IF In({"pending", "ready", "running"}) THEN To("running")
     ELSE To("completed")

\* recomputeRunState.
Recomputed(o) ==
  LET In(S) == \E n \in Nodes : o.node[n] \in S
      To(s) == [o EXCEPT !.run = s]
  IN IF o.run \in {"cancelled", "cancelling"}
     THEN [o EXCEPT
            !.run = "cancelled",
            !.node = [n \in Nodes |->
               IF o.node[n] \in {"pending", "ready", "running", "waiting_timer", "waiting_event"}
               THEN "cancelled" ELSE o.node[n]]]
     ELSE IF In({"waiting_approval"}) THEN To("awaiting_approval")
     ELSE IF In({"waiting_review"}) THEN To("awaiting_review")
     ELSE IF In({"waiting_timer", "waiting_event"}) THEN To("waiting")
     ELSE IF In({"failed"})
     THEN To(IF \E n \in Nodes : o.node[n] = "failed" /\ n \in def.compensated
             THEN "compensation_required" ELSE "failed")
     ELSE IF In({"blocked"}) THEN To("blocked")
     ELSE IF ~In(NodeStates \ {"completed", "skipped", "compensated", "cancelled"})
     THEN To("completed")
     ELSE IF In({"pending", "ready", "running"}) THEN To("running")
     ELSE IF In({"completed", "skipped", "compensated", "cancelled"})
     THEN To("partially_completed")
     ELSE To("running")

\* Mutant: a node that failed or expired no longer holds its dependents back.
DepsOver(o, n) ==
  \A d \in def.deps[n] : o.node[d] \in {"completed", "skipped", "compensated", "failed",
                                        "expired"}

DepsSatisfied(o, n) ==
  \A d \in def.deps[n] : o.node[d] \in {"completed", "skipped", "compensated"}

\* refreshNodeReadiness.
Refreshed(o) ==
  [o EXCEPT !.node = [n \in Nodes |->
     IF o.node[n] = "pending" /\ DepsSatisfied(o, n) THEN "ready" ELSE o.node[n]]]

\* Mutant: a node in flight counts as ready.
ReadyOrRunning(o) ==
  {n \in Nodes : o.node[n] \in {"ready", "running"} /\ DepsSatisfied(o, n)}

\* getReadyNodes.
ReadyNodes(o) == {n \in Nodes : o.node[n] = "ready" /\ DepsSatisfied(o, n)}

-----------------------------------------------------------------------------
\* Mutant: a loop saves only when it stops for a person.
FinishUnsaved(l, o) ==
  /\ objs' = [objs EXCEPT ![of[l]] = o]
  /\ stored' = IF canAcceptHumanInput(o.run) THEN o ELSE stored
  /\ live' = IF TerminalRun(o.run) THEN None ELSE of[l]
  /\ pc' = [pc EXCEPT ![l] = "idle"]
  /\ Report(o)

\* A loop stops: saveRun, emitChanges, forgetIfTerminal.
Finish(l, o) ==
  /\ objs' = [objs EXCEPT ![of[l]] = o]
  /\ stored' = o
  /\ live' = IF TerminalRun(o.run) THEN None ELSE of[l]
  /\ pc' = [pc EXCEPT ![l] = "idle"]
  /\ Report(o)

\* A loop begins on the live object, or on a copy it then owns.
Begin(l, o) ==
  LET own == IF live = None THEN l ELSE live
  IN /\ objs' = [objs EXCEPT ![own] = o]
     /\ of' = [of EXCEPT ![l] = own]
     /\ pc' = [pc EXCEPT ![l] = "top"]
     /\ aborted' = [aborted EXCEPT ![l] = FALSE]

\* A verb rewrites the object it works on; a copy is dropped afterwards.
Rewrite(o) == objs' = IF live = None THEN objs ELSE [objs EXCEPT ![live] = o]

\* WorkflowRuntime.start: executeRun of the queued run.
Execute(l) ==
  /\ Quiet /\ l = live /\ objs[live].run = "queued"
  /\ LET o == [objs[live] EXCEPT !.run = "running"]
     IN Begin(l, o) /\ stored' = o
  /\ UNCHANGED <<def, live, fly, ctrl, decisions, ended, starts, pauses, crashes>>

\* Whether executeNode() is still awaiting something when it returns to the tick.
Awaits(o, n) ==
  \/ def.kind[n] \in {"agentic", "tool_action"}
  \/ def.kind[n] = "wait_timer" /\ RunCan(o.run, "enter_waiting")

\* executeNode() of the next node, unless it is not ready.
StartNext(prev, n, ready, taken) ==
  IF n \notin ready THEN prev
  ELSE [obj |-> Started(prev.obj, n, taken),
        fly |-> IF Awaits(prev.obj, n) THEN prev.fly \cup {n} ELSE prev.fly]

\* readyNodes.map(executeNode): each is started, in the definition's order, before
\* any is awaited.
AllStarted(o, ready, taken) ==
  LET after[i \in 0..Len(def.order)] ==
        IF i = 0 THEN [obj |-> o, fly |-> {}]
        ELSE StartNext(after[i - 1], def.order[i], ready, taken)
  IN after[Len(def.order)]

\* Mutant: the loop stops without recomputing the state of the run.
StopUnrecomputed(l) ==
  /\ pc[l] = "top"
  /\ LET o == objs[of[l]]
     IN /\ o.run # "running" \/ ReadyNodes(Refreshed(o)) = {}
        /\ Finish(l, o)
  /\ UNCHANGED <<def, of, fly, ctrl, aborted, decisions, starts, pauses, crashes>>

\* Mutant: the loop goes on when no node is ready.
StopOnlyWhenNotRunning(l) ==
  /\ pc[l] = "top"
  /\ objs[of[l]].run # "running" /\ Finish(l, objs[of[l]])
  /\ UNCHANGED <<def, of, fly, ctrl, aborted, decisions, starts, pauses, crashes>>

\* One iteration of the while of advanceRun, up to its await.
StopAdvancing(l) ==
  /\ pc[l] = "top"
  /\ LET o == objs[of[l]]
     IN \/ o.run # "running" /\ Finish(l, o)
        \/ /\ o.run = "running" /\ ReadyNodes(Refreshed(o)) = {}
           /\ Finish(l, Recomputed(Refreshed(o)))
  /\ UNCHANGED <<def, of, fly, ctrl, aborted, decisions, starts, pauses, crashes>>

StartTick(l) ==
  LET o == Refreshed(objs[of[l]])
      ready == ReadyNodes(o)
  IN /\ pc[l] = "top" /\ o.run = "running" /\ ready # {}
     /\ \E taken \in [{n \in ready : def.kind[n] = "branch"} -> BOOLEAN] :
          LET s == AllStarted(o, ready, taken)
          IN /\ objs' = [objs EXCEPT ![of[l]] = s.obj]
             /\ fly' = [fly EXCEPT ![l] = s.fly]
             /\ Report(s.obj)
     /\ starts' = [n \in Nodes |-> starts[n] + (IF n \in ready THEN 1 ELSE 0)]
     /\ ctrl' = l
     /\ aborted' = [aborted EXCEPT ![l] = FALSE]
     /\ pc' = [pc EXCEPT ![l] = "tick"]
     /\ UNCHANGED <<def, live, stored, of, decisions, pauses, crashes>>

\* Every node of the tick has settled.  The registered controller goes, whoever
\* registered it.
EndTick(l) ==
  LET o == Recomputed(objs[of[l]])
  IN /\ pc[l] = "tick" /\ fly[l] = {}
     /\ ctrl' = None
     /\ \/ canAcceptHumanInput(o.run) /\ Finish(l, o)
        \/ /\ ~canAcceptHumanInput(o.run)
           /\ objs' = [objs EXCEPT ![of[l]] = o]
           /\ pc' = [pc EXCEPT ![l] = "top"]
           /\ Report(o)
           /\ UNCHANGED <<live, stored>>
     /\ UNCHANGED <<def, of, fly, aborted, decisions, starts, pauses, crashes>>

\* An agent, a tool or a timer of loop l is done.
Settle(l, n, o) ==
  /\ objs' = [objs EXCEPT ![of[l]] = o]
  /\ fly' = [fly EXCEPT ![l] = @ \ {n}]
  /\ Report(o)
  /\ UNCHANGED <<def, live, stored, pc, of, ctrl, aborted, decisions, starts,
                 pauses, crashes>>

\* runAgentTask or executeTool returns; an aborted one reports a failure, or the
\* success it had when the abort came.
WorkReturns(l, n, ok) ==
  LET o == objs[of[l]]
  IN /\ Quiet /\ n \in fly[l] /\ def.kind[n] \in {"agentic", "tool_action"}
     /\ Settle(l, n, IF o.node[n] = "running"
                     THEN Put(o, n, IF ok THEN "completed" ELSE "failed")
                     ELSE Caught(o, n, aborted[l]))

\* scheduler.wait resolves, or rejects because the controller was aborted.
TimerReturns(l, n) ==
  LET o == objs[of[l]]
  IN /\ Quiet /\ n \in fly[l] /\ def.kind[n] = "wait_timer"
     /\ Settle(l, n, IF o.node[n] = "waiting_timer"
                     THEN Put(o, n, IF aborted[l] THEN "cancelled" ELSE "completed")
                     ELSE Caught(o, n, aborted[l]))

-----------------------------------------------------------------------------
pauseRun ==
  LET o == [Current EXCEPT !.run = "paused"]
  IN /\ Quiet /\ pauses < MaxPauses
     /\ canPause(Current.run) /\ RunCan(Current.run, "pause")
     /\ Rewrite(o) /\ stored' = o
     /\ pauses' = pauses + 1
     /\ UNCHANGED <<def, live, pc, of, fly, ctrl, aborted, decisions, ended, starts,
                    crashes>>

resumeRun(l) ==
  LET o == [Current EXCEPT !.run = "running"]
  IN /\ Quiet /\ Free(l) /\ Current.run = "paused"
     /\ Begin(l, o) /\ stored' = o
     /\ UNCHANGED <<def, live, fly, ctrl, decisions, ended, starts, pauses, crashes>>

\* Every node that is not over is cancelled, then the run.  The tick whose
\* controller is registered is aborted, and left to forget the run.
cancelRun ==
  LET o == [Current EXCEPT
             !.run = "cancelled",
             !.node = [n \in Nodes |->
                IF Current.node[n] \notin {"completed", "cancelled", "skipped", "failed"}
                   /\ NodeCan(Current.node[n], "cancel")
                THEN "cancelled" ELSE Current.node[n]]]
  IN /\ Quiet /\ canCancel(Current.run) /\ RunCan(Current.run, "request_cancel")
     /\ Rewrite(o) /\ stored' = o /\ Report(o)
     /\ IF ctrl = None
        THEN live' = None /\ UNCHANGED aborted
        ELSE aborted' = [aborted EXCEPT ![ctrl] = TRUE] /\ UNCHANGED live
     /\ UNCHANGED <<def, pc, of, fly, ctrl, decisions, starts, pauses, crashes>>

\* The decisions a surface offers for a node.  Only the approval record of this
\* process's bridge expires.
Offered(n) ==
  (IF def.kind[n] = "human_approval" THEN {"approved", "denied"}
   ELSE {"approved", "changes_requested", "rejected"})
  \cup (IF live = None THEN {} ELSE {"expired"})

\* Mutant: the node is given the name of the event instead of the state.
DecidedByEvent(n, d) ==
  CASE d = "approved" -> [node |-> "completed", event |-> "resume"]
    [] d = "expired" -> [node |-> "expire", event |-> "expire"]
    [] OTHER -> [node |-> "failed", event |-> "resume"]

\* The node and the run after a decision.  An approved review throws: waiting_review
\* has no `complete`.
Decided(n, d) ==
  CASE d = "approved" -> [node |-> "completed", event |-> "resume"]
    [] d = "denied" -> [node |-> "failed",
                        event |-> IF n \in def.stopOnDenial THEN "fail" ELSE "resume"]
    [] d = "changes_requested" -> [node |-> "failed", event |-> "resume"]
    [] d = "rejected" -> [node |-> "failed", event |-> "fail"]
    [] d = "expired" -> [node |-> "expired", event |-> "expire"]

\* submitHumanDecision.
submitHumanDecision(l, n, d) ==
  /\ Quiet /\ Free(l)
  /\ canAcceptHumanInput(Current.run)
  /\ Current.node[n] \in {"waiting_approval", "waiting_review"}
  /\ d \in Offered(n)
  /\ decisions' = decisions \cup {<<n, d>>}
  /\ IF def.kind[n] = "human_review" /\ d = "approved"
     THEN UNCHANGED <<objs, live, stored, pc, of, aborted, ended>>
     ELSE LET o == [Put(Current, n, Decided(n, d).node) EXCEPT
                     !.run = RunEventMap[Current.run][Decided(n, d).event]]
          IN /\ stored' = o /\ Report(o)
             /\ IF o.run = "running"
                THEN Begin(l, o) /\ UNCHANGED live
                ELSE Rewrite(o) /\ live' = None /\ UNCHANGED <<pc, of, aborted>>
  /\ UNCHANGED <<def, fly, ctrl, starts, pauses, crashes>>

\* The daemon dies: only the row and the saved decisions are left.  Nothing at
\* startup looks for runs.
Crash ==
  /\ Quiet /\ crashes < MaxCrashes
  /\ crashes' = crashes + 1
  /\ live' = None /\ ctrl' = None /\ ended' = None
  /\ objs' = [l \in Loops |-> None]
  /\ pc' = [l \in Loops |-> "idle"]
  /\ fly' = [l \in Loops |-> {}]
  /\ aborted' = [l \in Loops |-> FALSE]
  /\ UNCHANGED <<def, stored, of, decisions, starts, pauses>>

Internal(l) == StopAdvancing(l) \/ StartTick(l) \/ EndTick(l)

Returns(l, n) == TimerReturns(l, n) \/ \E ok \in BOOLEAN : WorkReturns(l, n, ok)

Next ==
  \/ pauseRun \/ cancelRun \/ Crash
  \/ \E l \in Loops :
       \/ Execute(l) \/ resumeRun(l) \/ Internal(l)
       \/ \E n \in Nodes :
            \/ Returns(l, n)
            \/ \E d \in Decisions : submitHumanDecision(l, n, d)

Spec == Init /\ [][Next]_vars

\* The event loop goes on, and agents, tools and timers return.
Fairness ==
  \A l \in Loops : WF_vars(Internal(l)) /\ WF_vars(\E n \in Nodes : Returns(l, n))
LiveSpec == Spec /\ Fairness

-----------------------------------------------------------------------------
Idle == \A l \in Loops : pc[l] = "idle"

\* No approval bypass: a loop starts a node only after a person approved every
\* approval node it waits for, in this process or in an earlier one, or a branch
\* left that approval out of the run, however the decision, an expiry, a
\* cancellation and a restart were interleaved.
ApprovalGates ==
  [][\A n \in Nodes : starts'[n] > starts[n] =>
       \E l \in Loops :
         /\ pc[l] = "top" /\ pc'[l] = "tick"
         /\ \A d \in def.deps[n] : def.kind[d] \in HumanKinds =>
              <<d, "approved">> \in decisions \/ objs[of[l]].node[d] = "skipped"]_vars

\* A run at rest could be lost to a restart without losing anything: what memory
\* says of it is what the store says, and a run memory forgot is over in the store.
RestIsSaved ==
  Idle => IF live = None THEN TerminalRun(stored.run) \/ crashes > 0
                         ELSE stored = objs[live]

\* A node that waits for a person belongs to a run that takes the decision: no
\* tick, decision or other loop moves the run elsewhere while the node waits.
HumanWaitOpen ==
  live # None => \A n \in Nodes :
    objs[live].node[n] \in {"waiting_approval", "waiting_review"} =>
      canAcceptHumanInput(objs[live].run)

\* While the daemon lives, no agent or tool node is started twice, even when
\* decisions and resumes run several loops over one run.
NeverRerun ==
  crashes = 0 => \A n \in Nodes :
    def.kind[n] \in {"agentic", "tool_action"} => starts[n] <= 1

\* engine.ts:13 without the proviso: not even a restart runs a node again.
\* The code breaks it: what a loop completes is saved only when it stops.
NeverRerunEver ==
  \A n \in Nodes : def.kind[n] \in {"agentic", "tool_action"} => starts[n] <= 1

\* The kinds of node whose start moves the run.
Movers == HumanKinds \cup {"wait_timer", "wait_event", "completion"}

\* A run whose loops have all stopped is over or waits for somebody.  It is left
\* running, or paused from there, only when an approval of it expired while another
\* node worked, and waiting only on an event, or on a timer that found the run
\* already moved by another node of its tick.
NeverStranded ==
  Idle /\ crashes = 0 =>
    /\ stored.run \in {"running", "paused"} => \E n \in Nodes : stored.node[n] = "expired"
    /\ stored.run = "waiting" => \E n \in Nodes :
         \/ stored.node[n] = "waiting_event"
         \/ /\ stored.node[n] = "waiting_timer"
            /\ \E m \in Nodes \ {n} : starts[m] > 0 /\ def.kind[m] \in Movers

\* A cancellation wins over every result, tick, decision and loop that was under
\* way when it came: the run stays cancelled and no node of it is started again.
CancelWins ==
  [][(crashes' = 0 /\ stored.run = "cancelled") =>
       stored'.run = "cancelled" /\ starts' = starts]_vars

\* workflow-runtime.ts:113: a node that waits for an event fails honestly instead
\* of hanging.  The code breaks it: `fail` is no event of waiting_event.
EventFails ==
  Idle => \A n \in Nodes : stored.node[n] # "waiting_event"

\* No unbounded loops: once nobody touches the run any more, every loop over it
\* stops, whatever is retried.
ComesToRest == <>[]Idle
=============================================================================
