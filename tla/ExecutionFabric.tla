-------------------------- MODULE ExecutionFabric --------------------------
(***************************************************************************)
(* ExecutionService.execute() (src/src/execution/service.ts): the one path *)
(* every tool call, agent step and workflow task takes, with the durable   *)
(* record, the checkpoints and the idempotency slot it writes.             *)
(*                                                                         *)
(* An element of Runs is one call of executeInner in an XR process of its  *)
(* own, so runs interleave at every SQL statement and crash separately.    *)
(* All runs of one model are for one capability: those with an idempotency *)
(* key have the same key, hence one slot.  The code between two awaits is  *)
(* synchronous: an action does it at once and queues its durable writes in *)
(* todo[r], which Write performs one at a time, so that a crash can come   *)
(* between any two.  Writes the code calls best-effort may fail.           *)
(***************************************************************************)
EXTENDS ExecutionStates, Integers, Sequences

CONSTANTS
  Runs,         \* calls of execute()
  Options,      \* what a caller may ask for: see OptionsAssumption
  MaxAttempts,  \* min(opts.maxAttempts, EXECUTION_BOUNDS.MAX_ATTEMPTS)
  Graceful,     \* may the runtime be stopped (onStop) under a run?
  MaxIncidents, \* bound: crashes, cancellations, stops and failed writes in all
  None          \* no record on disk / no checkpoint

ASSUME OptionsAssumption ==
  Options \subseteq [idem: Idempotencies, keyed: BOOLEAN, dryRun: BOOLEAN,
                     planned: BOOLEAN,    \* opts.plan is given
                     isolated: BOOLEAN]   \* opts.trust asks for an environment
ASSUME AttemptsAssumption == MaxAttempts \in Nat \ {0}
ASSUME GracefulAssumption == Graceful \in BOOLEAN
ASSUME IncidentsAssumption == MaxIncidents \in Nat

OutcomeKinds == {"none", "succeeded", "dry_run_simulated", "failed",
                 "cancelled", "timed_out", "denied", "budget_stopped",
                 "unavailable", "reconciliation_required"}

\* The parts of an ExecutionRecord that control reads.  `action`: record.action
\* (with the idempotency and the key) has been built.  `unknown`:
\* outcome.error.sideEffectUnknown.
Record == [state: States, outcome: OutcomeKinds, unknown: BOOLEAN,
           action: BOOLEAN]
Checkpoint == [kind: CheckpointKinds, safe: BOOLEAN]
ASSUME NoneAssumption == None \notin Record \cup Checkpoint

SlotStates == {"absent", "pending", "completed", "failed",
               "requires_reconciliation"}
WriteItem == [op: {"save", "final"}, rec: Record]
             \cup [op: {"checkpoint"}, cp: Checkpoint]
             \cup [op: {"slot"}, to: SlotStates]
             \cup [op: {"cancellation"}]
Locations == {"idle", "policy", "approval", "trust", "environment",
              "queue", "dedup", "claim", "flag", "start", "launch", "acting",
              "settle", "returned", "crashed"}

VARIABLES
  opts,         \* ExecuteOptions of each run
  pc,           \* where executeInner is
  mem,          \* the live record
  attempt,      \* record.id.attempt; 0 before the loop
  claimed,      \* claimedKey is set
  cancelFlag,   \* cancelFlags.get(runId).cancelled
  todo,         \* durable writes the synchronous code has still to do
  disk,         \* execution_records
  checkpoint,   \* the latest row of execution_checkpoints of each run
  durableCancel,\* the run has a row in execution_cancellations
  slot,         \* the idempotency slot of the one key
  accepted,     \* runs in the order of created_at
  effect,       \* the action in the outside world
  incidents,    \* crashes, cancellations and failed writes so far
  faulty,       \* history: a durable write or claim has failed
  reclaimed     \* history: a claim found a failed slot and proceeded

control == <<opts, pc, mem, attempt, claimed, cancelFlag, todo>>
durable == <<disk, checkpoint, durableCancel, slot>>
history == <<incidents, faulty, reclaimed>>
vars == <<control, durable, accepted, effect, history>>

\* "done": the action reported success, or its simulation in a dry run;
\* "refused": it reported that it did nothing.
Effects == {"none", "running", "done", "refused", "unknown"}

TypeOK ==
  /\ opts \in [Runs -> Options]
  /\ pc \in [Runs -> Locations]
  /\ mem \in [Runs -> Record]
  /\ attempt \in [Runs -> 0..MaxAttempts]
  /\ claimed \in [Runs -> BOOLEAN]
  /\ cancelFlag \in [Runs -> BOOLEAN]
  /\ todo \in [Runs -> Seq(WriteItem)]
  /\ disk \in [Runs -> Record \cup {None}]
  /\ checkpoint \in [Runs -> Checkpoint \cup {None}]
  /\ durableCancel \in [Runs -> BOOLEAN]
  /\ slot \in SlotStates
  /\ accepted \in Seq(Runs)
  /\ effect \in [Runs -> Effects]
  /\ incidents \in 0..MaxIncidents
  /\ faulty \in BOOLEAN
  /\ reclaimed \in BOOLEAN

-----------------------------------------------------------------------------
Created == [state |-> "created", outcome |-> "none", unknown |-> FALSE,
            action |-> FALSE]

Init ==
  /\ opts \in [Runs -> Options]
  /\ \A r, q \in Runs :
       opts[r].keyed /\ opts[q].keyed => opts[r].idem = opts[q].idem
  /\ pc = [r \in Runs |-> "idle"]
  /\ mem = [r \in Runs |-> Created]
  /\ attempt = [r \in Runs |-> 0]
  /\ claimed = [r \in Runs |-> FALSE]
  /\ cancelFlag = [r \in Runs |-> FALSE]
  /\ todo = [r \in Runs |-> <<>>]
  /\ disk = [r \in Runs |-> None]
  /\ checkpoint = [r \in Runs |-> None]
  /\ durableCancel = [r \in Runs |-> FALSE]
  /\ slot = "absent"
  /\ accepted = <<>>
  /\ effect = [r \in Runs |-> "none"]
  /\ incidents = 0
  /\ faulty = FALSE
  /\ reclaimed = FALSE

-----------------------------------------------------------------------------
\* What a step does to the control state of one run.

At(r, loc) == pc[r] = loc /\ todo[r] = <<>>
Goto(r, loc) == pc' = [pc EXCEPT ![r] = loc]
SetMem(r, rec) == mem' = [mem EXCEPT ![r] = rec]
Queue(r, writes) == todo' = [todo EXCEPT ![r] = @ \o writes]

Save(rec) == [op |-> "save", rec |-> rec]
Final(rec) == [op |-> "final", rec |-> rec]
SlotTo(state) == [op |-> "slot", to |-> state]
\* createCheckpoint: the flag is computed from the record when it is written.
Mark(r, rec, kind) ==
  [op |-> "checkpoint",
   cp |-> [kind |-> kind,
           safe |-> IsSideEffectSafe(kind, IF rec.action THEN opts[r].idem
                                                         ELSE "")]]

Move(rec, event) == [rec EXCEPT !.state = Fire(@, event)]
End(rec, event, outcome, unknown) ==
  [Move(rec, event) EXCEPT !.outcome = outcome, !.unknown = unknown]
\* The outcome is set around two transitions at once.
EndVia(rec, first, event, outcome, unknown) ==
  End(Move(rec, first), event, outcome, unknown)

\* The outer catch: "fail" is fired only if the table has it, best effort.
Aborted(rec) ==
  [rec EXCEPT !.outcome = IF @ = "none" THEN "failed" ELSE @,
              !.unknown = IF rec.outcome = "none"
                            THEN rec.state \in SideEffectPossible ELSE @,
              !.state = IF CanFire(@, "fail") THEN Fire(@, "fail") ELSE @]

Abort(r) ==
  SetMem(r, Aborted(mem[r])) /\ Goto(r, "settle") /\ UNCHANGED todo

fixed == <<opts, accepted>>
Incident(fault) ==
  /\ incidents < MaxIncidents /\ incidents' = incidents + 1
  /\ faulty' = (faulty \/ fault)
  /\ UNCHANGED reclaimed

-----------------------------------------------------------------------------
\* Accept, optional plan, policy, approval.

\* The call arrives; task_accepted is checkpointed before any row exists.
Accept(r) ==
  /\ At(r, "idle")
  /\ LET rec == IF opts[r].planned THEN Move(Created, "plan") ELSE Created IN
     /\ SetMem(r, rec)
     /\ Queue(r, <<Mark(r, rec, "task_accepted")>>
                 \o IF opts[r].planned
                      THEN <<Mark(r, rec, "plan_recorded"), Save(rec)>>
                      ELSE <<>>)
  /\ accepted' = Append(accepted, r)
  /\ Goto(r, "policy")
  /\ UNCHANGED <<opts, attempt, claimed, cancelFlag, durable, effect, history>>

\* applyPolicy up to the approval gate.
Policy(r) ==
  /\ At(r, "policy")
  /\ LET rec == Move(mem[r], "submit_policy") IN
     \/ \* checkBudget says no
        /\ SetMem(r, End(rec, "budget_block", "budget_stopped", FALSE))
        /\ Goto(r, "settle") /\ UNCHANGED todo
     \/ \* checkBudget throws
        /\ SetMem(r, End(rec, "mark_unavailable", "unavailable", FALSE))
        /\ Goto(r, "settle") /\ UNCHANGED todo
     \/ \* approval needed, no approver wired
        LET denied == End(rec, "deny", "denied", FALSE) IN
        /\ SetMem(r, denied)
        /\ Queue(r, <<Save(denied)>>) /\ Goto(r, "settle")
     \/ \* approval needed
        LET asked == Move(rec, "require_approval") IN
        /\ SetMem(r, asked)
        /\ Queue(r, <<Save(asked)>>) /\ Goto(r, "approval")
     \/ \* default allow
        /\ SetMem(r, rec)
        /\ Queue(r, <<Mark(r, rec, "policy_admitted")>>) /\ Goto(r, "trust")
  /\ UNCHANGED <<fixed, attempt, claimed, cancelFlag, durable, effect, history>>

\* The approver answers, or opts.approve throws.
Approval(r) ==
  /\ At(r, "approval")
  /\ \/ LET rec == Move(mem[r], "grant_approval") IN
        /\ SetMem(r, rec)
        /\ Queue(r, <<Mark(r, rec, "policy_admitted")>>) /\ Goto(r, "trust")
     \/ /\ SetMem(r, End(mem[r], "deny", "denied", FALSE))
        /\ Goto(r, "settle") /\ UNCHANGED todo
     \/ Abort(r)
  /\ UNCHANGED <<fixed, attempt, claimed, cancelFlag, durable, effect, history>>

-----------------------------------------------------------------------------
\* The trust gate.

\* runTrustGate: nothing asked, evaluated and left in process, blocked, or run
\* in an environment.
Trust(r) ==
  /\ At(r, "trust")
  /\ \/ /\ ~opts[r].isolated
        /\ Goto(r, "queue") /\ UNCHANGED <<mem, todo, effect>>
     \/ \* in_process_ok: host authority, tier 0, or tier 1 with no executable
        /\ opts[r].isolated
        /\ Queue(r, <<Save(mem[r])>>)
        /\ Goto(r, "queue") /\ UNCHANGED <<mem, effect>>
     \/ LET denied == [End(mem[r], "deny", "denied", FALSE)
                         EXCEPT !.action = TRUE] IN
        /\ opts[r].isolated
        /\ SetMem(r, denied) /\ Queue(r, <<Save(mem[r])>>)
        /\ Goto(r, "settle") /\ UNCHANGED effect
     \/ \* trust.evaluate runs the action inside an environment
        /\ opts[r].isolated
        /\ effect' = [effect EXCEPT ![r] = "running"]
        /\ Goto(r, "environment") /\ UNCHANGED <<mem, todo>>
  /\ UNCHANGED <<fixed, attempt, claimed, cancelFlag, durable, history>>

\* evaluate returns with the observation: only now is anything made durable,
\* and the lifecycle is walked in memory.
EnvironmentReturn(r) ==
  /\ At(r, "environment")
  /\ LET admitted == IF mem[r].state = "authorized" THEN mem[r]
                                                    ELSE Move(mem[r], "authorize")
         observed == [Move(Move(Move(admitted, "queue"), "start"), "observe")
                        EXCEPT !.action = TRUE] IN
     \/ /\ SetMem(r, End(observed, "succeed", "succeeded", FALSE))
        /\ effect' = [effect EXCEPT ![r] = "done"]
     \/ /\ SetMem(r, End(observed, "fail", "failed", FALSE))
        /\ effect' = [effect EXCEPT ![r] = "refused"]
  /\ Queue(r, <<Save(mem[r]), Mark(r, mem[r], "env_admitted")>>)
  /\ Goto(r, "settle")
  /\ UNCHANGED <<fixed, attempt, claimed, cancelFlag, durable, history>>

\* evaluate throws after the environment was used (its `finally` has no catch).
EnvironmentThrow(r) ==
  /\ At(r, "environment")
  /\ effect' = [effect EXCEPT ![r] = "unknown"]
  /\ Abort(r)
  /\ UNCHANGED <<fixed, attempt, claimed, cancelFlag, durable, history>>

-----------------------------------------------------------------------------
\* Queueing and the claim-first idempotency slot.

Slotted(r) == opts[r].keyed /\ opts[r].idem # "naturally_idempotent"

Enqueue(r) ==
  /\ At(r, "queue")
  /\ LET auth == IF mem[r].state = "authorized" THEN mem[r]
                                                ELSE Move(mem[r], "authorize")
         rec == [Move(auth, "queue") EXCEPT !.action = TRUE] IN
     /\ SetMem(r, rec)
     /\ Queue(r, <<Save(rec), Mark(r, rec, "step_started")>>)
  /\ Goto(r, IF Slotted(r) THEN "dedup" ELSE "start")
  /\ UNCHANGED <<fixed, attempt, claimed, cancelFlag, durable, effect, history>>

\* findCompletedByIdempotencyKey: the newest terminal record with the key.  The
\* SQL lists the terminal states except these two.
Matching(q) ==
  /\ opts[q].keyed /\ disk[q] # None
  /\ disk[q].action
  /\ disk[q].state \in Terminal \ {"unavailable", "reconciliation_required"}
Newest(S) ==
  CHOOSE q \in S : \E i \in 1..Len(accepted) :
    accepted[i] = q /\ \A j \in (i + 1)..Len(accepted) : accepted[j] \notin S
\* Mutant: any finished record with the key counts as its success.
PriorTerminal == \E q \in Runs : Matching(q)

PriorSuccess ==
  LET S == {q \in Runs : Matching(q)} IN
  S # {} /\ disk[Newest(S)].outcome = "succeeded"

Dedup(r) ==
  /\ At(r, "dedup")
  /\ IF PriorSuccess
       THEN /\ SetMem(r, EndVia(mem[r], "start", "succeed", "succeeded", FALSE))
            /\ Goto(r, "settle")
       ELSE Goto(r, "claim") /\ UNCHANGED mem
  /\ UNCHANGED <<fixed, attempt, claimed, cancelFlag, todo, durable, effect,
                 history>>

\* Mutant: the slot of an interrupted run is taken over whatever the class.
ClaimTakesOver(r) ==
  /\ At(r, "claim")
  /\ slot' = "pending"
  /\ claimed' = [claimed EXCEPT ![r] = TRUE]
  /\ Goto(r, "start")
  /\ reclaimed' = (reclaimed \/ slot = "failed")
  /\ UNCHANGED <<opts, accepted, mem, attempt, cancelFlag, todo, disk,
                 checkpoint, durableCancel, effect, incidents, faulty>>

\* IdempotencyStore.claim, one write transaction, and what execute() makes of it.
Claim(r) ==
  /\ At(r, "claim")
  /\ \/ /\ slot = "absent"
        /\ slot' = "pending"
        /\ claimed' = [claimed EXCEPT ![r] = TRUE]
        /\ Goto(r, "start") /\ UNCHANGED <<mem, reclaimed>>
     \/ \* may retry; the slot keeps the state "failed"
        /\ slot = "failed"
        /\ claimed' = [claimed EXCEPT ![r] = TRUE]
        /\ reclaimed' = TRUE
        /\ Goto(r, "start") /\ UNCHANGED <<mem, slot>>
     \/ /\ slot = "completed"
        /\ SetMem(r, EndVia(mem[r], "start", "succeed", "succeeded", FALSE))
        /\ Goto(r, "settle") /\ UNCHANGED <<claimed, slot, reclaimed>>
     \/ /\ slot = "requires_reconciliation"
        /\ SetMem(r, EndVia(mem[r], "start", "fail", "failed", TRUE))
        /\ Goto(r, "settle") /\ UNCHANGED <<claimed, slot, reclaimed>>
     \/ \* "a prior run claimed this effect and was interrupted"
        /\ slot = "pending"
        /\ IF opts[r].idem = "idempotent_with_key"
             THEN claimed' = [claimed EXCEPT ![r] = TRUE] /\ Goto(r, "start")
             ELSE Goto(r, "flag") /\ UNCHANGED claimed
        /\ UNCHANGED <<mem, slot, reclaimed>>
  /\ UNCHANGED <<opts, accepted, attempt, cancelFlag, todo, disk, checkpoint,
                 durableCancel, effect, incidents, faulty>>

\* requireReconciliation is a second transaction: the slot may have moved.
Flag(r) ==
  /\ At(r, "flag")
  /\ slot' = "requires_reconciliation"
  /\ SetMem(r, EndVia(mem[r], "start", "fail", "failed", TRUE))
  /\ Goto(r, "settle")
  /\ UNCHANGED <<fixed, attempt, claimed, cancelFlag, todo, disk, checkpoint,
                 durableCancel, effect, history>>

\* The lookup, the claim or the flag throws (a busy or full database).
SlotThrow(r) ==
  /\ At(r, "dedup") \/ At(r, "claim") \/ At(r, "flag")
  /\ Incident(TRUE)
  /\ Abort(r)
  /\ UNCHANGED <<fixed, attempt, claimed, cancelFlag, durable, effect>>

-----------------------------------------------------------------------------
\* The attempts: start, persist "running", launch, and the guards of
\* runWithGuards: whichever of the result, the watchdog and the timer settles
\* first wins, and the action itself is never stopped.

\* Mutant: the attempt starts without persisting the running state.
StartUnpersisted(r) ==
  /\ At(r, "start")
  /\ attempt' = [attempt EXCEPT ![r] = @ + 1]
  /\ SetMem(r, Move(mem[r], "start"))
  /\ Goto(r, "launch")
  /\ UNCHANGED <<fixed, claimed, cancelFlag, todo, durable, effect, history>>

\* Mutant: the attempt is not counted.
StartUncounted(r) ==
  /\ At(r, "start")
  /\ LET rec == Move(mem[r], "start") IN
     SetMem(r, rec) /\ Queue(r, <<Save(rec)>>)
  /\ Goto(r, "launch")
  /\ UNCHANGED <<fixed, attempt, claimed, cancelFlag, durable, effect, history>>

Start(r) ==
  /\ At(r, "start")
  /\ attempt' = [attempt EXCEPT ![r] = @ + 1]
  /\ LET rec == Move(mem[r], "start") IN
     SetMem(r, rec) /\ Queue(r, <<Save(rec)>>)
  /\ Goto(r, "launch")
  /\ UNCHANGED <<fixed, claimed, cancelFlag, durable, effect, history>>

Launch(r) ==
  /\ At(r, "launch")
  /\ effect' = [effect EXCEPT ![r] = "running"]
  /\ Goto(r, "acting")
  /\ UNCHANGED <<fixed, mem, attempt, claimed, cancelFlag, todo, durable, history>>

\* What the world looks like after a clean report of failure: nothing happened,
\* unless an earlier attempt of the same run is still unaccounted for.
AfterRefusal(r) == IF attempt[r] = 1 THEN "refused" ELSE "unknown"

Return(r) ==
  /\ At(r, "acting")
  /\ LET observed == Move(mem[r], "observe") IN
     \E ok \in BOOLEAN :
       /\ SetMem(r, IF opts[r].dryRun
                      THEN End(observed, "succeed", "dry_run_simulated", FALSE)
                    ELSE IF ok
                      THEN End(observed, "succeed", "succeeded", FALSE)
                      ELSE End(observed, "fail", "failed", FALSE))
       /\ effect' = [effect EXCEPT ![r] = IF ok \/ opts[r].dryRun
                                          THEN "done" ELSE AfterRefusal(r)]
       /\ Queue(r, <<Mark(r, observed, "step_completed")>>)
  /\ Goto(r, "settle")
  /\ UNCHANGED <<fixed, attempt, claimed, cancelFlag, durable, history>>

\* The cancelled branch of the catch, by the watchdog or after any rejection.
Cancelled(r) ==
  LET rec == End(mem[r], "cancel", "cancelled",
                 mem[r].state \in SideEffectPossible) IN
  /\ SetMem(r, rec)
  /\ Queue(r, <<Mark(r, rec, "cleanup_completed")>>)
  /\ Goto(r, "settle")

CancelWatch(r) ==
  /\ At(r, "acting") /\ cancelFlag[r]
  /\ Cancelled(r)
  /\ UNCHANGED <<fixed, attempt, claimed, cancelFlag, durable, effect, history>>

\* resetForRetry, or out of the loop.
RetryOr(r, rec, verdict) ==
  IF verdict = "retry"
    THEN /\ SetMem(r, [Move(rec, "retry") EXCEPT !.outcome = "none",
                                                 !.unknown = FALSE])
         /\ Goto(r, "start")
    ELSE SetMem(r, rec) /\ Goto(r, "settle")

\* The timer, or a rejection at or after the deadline.  An expired unsafe action
\* is not retried.
Expire(r) ==
  /\ At(r, "acting") /\ ~cancelFlag[r]
  /\ LET unknown == mem[r].state \in SideEffectPossible
         rec == End(mem[r], "timeout", "timed_out", unknown) IN
     \E allowed \in BOOLEAN :
       /\ allowed => attempt[r] < MaxAttempts
       /\ RetryOr(r, rec, DecideRetry("retryable", opts[r].idem, unknown, allowed))
  /\ \/ UNCHANGED effect
     \/ effect' = [effect EXCEPT ![r] = "unknown"]
  /\ UNCHANGED <<fixed, attempt, claimed, cancelFlag, todo, durable, history>>

\* Mutant: an error of an unsafe action is taken for a clean failure.
ThrowTrusting(r) ==
  /\ At(r, "acting") /\ ~cancelFlag[r]
  /\ effect' = [effect EXCEPT ![r] = "unknown"]
  /\ SetMem(r, End(mem[r], "fail", "failed", FALSE))
  /\ Goto(r, "settle")
  /\ UNCHANGED <<fixed, attempt, claimed, cancelFlag, todo, durable, history>>

\* opts.run rejects.  What the action did before is unknown.
Throw(r) ==
  /\ At(r, "acting")
  /\ effect' = [effect EXCEPT ![r] = "unknown"]
  /\ \/ cancelFlag[r] /\ Cancelled(r)
     \/ /\ ~cancelFlag[r]
        /\ LET unknown == mem[r].state \in SideEffectPossible
               failed == End(mem[r], "fail", "failed", unknown)
               upgraded == [failed EXCEPT !.state = "reconciliation_required",
                                          !.outcome = "reconciliation_required"]
           IN
           \E error \in ErrorClasses, allowed \in BOOLEAN :
             /\ allowed => attempt[r] < MaxAttempts
             /\ LET verdict == DecideRetry(error, opts[r].idem, unknown, allowed)
                IN RetryOr(r, IF \/ verdict = "reconcile"
                                 \/ opts[r].idem = "non_idempotent" /\ unknown
                                THEN upgraded ELSE failed, verdict)
        /\ UNCHANGED todo
  /\ UNCHANGED <<fixed, attempt, claimed, cancelFlag, durable, history>>

\* Mutant: the late result is still applied to the record.
LateReturnApplies(r) ==
  /\ effect[r] = "running" /\ pc[r] = "returned" /\ todo[r] = <<>>
  /\ effect' = [effect EXCEPT ![r] = "done"]
  /\ Queue(r, <<Save([mem[r] EXCEPT !.state = "succeeded",
                                    !.outcome = "succeeded"])>>)
  /\ UNCHANGED <<fixed, pc, mem, attempt, claimed, cancelFlag, durable, history>>

\* An action nobody waits for any more ends: `if (settled) return`.
LateReturn(r) ==
  /\ effect[r] = "running" /\ pc[r] \in {"start", "launch", "settle", "returned"}
  /\ effect' = [effect EXCEPT ![r] = "done"]
  /\ UNCHANGED <<control, durable, accepted, history>>

-----------------------------------------------------------------------------
\* settleIdempotencySlot and finalize; a run that never claimed skips the first.
\* Mutant: an unknown effect is filed as a plain failure.
SettledSlotPlain(rec) ==
  IF rec.outcome \in {"succeeded", "dry_run_simulated"} THEN "completed"
  ELSE "failed"

SettledSlot(rec) ==
  IF rec.outcome \in {"succeeded", "dry_run_simulated"} THEN "completed"
  ELSE IF rec.outcome = "reconciliation_required" \/ rec.unknown
    THEN "requires_reconciliation"
  ELSE "failed"

Settle(r) ==
  /\ At(r, "settle")
  /\ Queue(r, (IF claimed[r] THEN <<SlotTo(SettledSlot(mem[r]))>> ELSE <<>>)
              \o <<Final(mem[r])>>)
  /\ cancelFlag' = [cancelFlag EXCEPT ![r] = FALSE]
  /\ Goto(r, "returned")
  /\ UNCHANGED <<fixed, mem, attempt, claimed, durable, effect, history>>

\* The next durable write commits.
WriteDone(r) ==
  LET item == Head(todo[r]) IN
  /\ disk' = IF item.op \in {"save", "final"}
               THEN [disk EXCEPT ![r] = item.rec] ELSE disk
  /\ checkpoint' = IF item.op = "checkpoint"
                     THEN [checkpoint EXCEPT ![r] = item.cp] ELSE checkpoint
  /\ slot' = IF item.op = "slot" THEN item.to ELSE slot
  /\ durableCancel' = IF item.op = "cancellation"
                        THEN [durableCancel EXCEPT ![r] = TRUE]
                        ELSE durableCancel
  /\ UNCHANGED <<mem, history>>

\* Mutant: a failed final save leaves the reported success alone.
WriteFailedSilent(r) ==
  /\ Incident(TRUE)
  /\ UNCHANGED <<mem, durable>>

\* Every caller swallows the error; finalize also withdraws a success.
WriteFailed(r) ==
  LET item == Head(todo[r]) IN
  /\ Incident(TRUE)
  /\ IF item.op = "final" /\ item.rec.outcome = "succeeded"
       THEN SetMem(r, [mem[r] EXCEPT !.state = "reconciliation_required",
                                     !.outcome = "reconciliation_required"])
       ELSE UNCHANGED mem
  /\ UNCHANGED durable

Write(r) ==
  /\ todo[r] # <<>>
  /\ todo' = [todo EXCEPT ![r] = Tail(@)]
  /\ WriteDone(r) \/ WriteFailed(r)
  /\ UNCHANGED <<fixed, pc, attempt, claimed, cancelFlag, effect>>

-----------------------------------------------------------------------------
\* Where executeInner awaits; "start" is the backoff sleep once there was an
\* attempt.
Waiting(r) ==
  \/ At(r, "policy") \/ At(r, "approval") \/ At(r, "environment")
  \/ At(r, "acting") \/ (At(r, "start") /\ attempt[r] > 0)

\* cancel() on the live record.
Cancel(r) ==
  /\ Waiting(r) /\ ~cancelFlag[r] /\ Incident(FALSE)
  /\ cancelFlag' = [cancelFlag EXCEPT ![r] = TRUE]
  /\ Queue(r, <<Mark(r, mem[r], "cancellation_requested"),
                [op |-> "cancellation"]>>)
  /\ UNCHANGED <<fixed, pc, mem, attempt, claimed, durable, effect>>

\* onStop: every live run is marked interrupted, then cancelled.  (The update of
\* outcome_kind by the repository reaches nothing that control reads.)
Shutdown(r) ==
  /\ Graceful /\ Waiting(r) /\ Incident(FALSE)
  /\ cancelFlag' = [cancelFlag EXCEPT ![r] = TRUE]
  /\ Queue(r, <<Mark(r, mem[r], "recovery_decided"),
                Mark(r, mem[r], "cancellation_requested"),
                [op |-> "cancellation"]>>)
  /\ UNCHANGED <<fixed, pc, mem, attempt, claimed, durable, effect>>

Returned(r) == At(r, "returned")
Live(r) == pc[r] \notin {"idle", "crashed"} /\ ~Returned(r)

\* The process of a run dies: its memory is gone, its action cut off.
Crash(r) ==
  /\ Live(r) /\ Incident(FALSE)
  /\ Goto(r, "crashed")
  /\ SetMem(r, Created)
  /\ attempt' = [attempt EXCEPT ![r] = 0]
  /\ claimed' = [claimed EXCEPT ![r] = FALSE]
  /\ cancelFlag' = [cancelFlag EXCEPT ![r] = FALSE]
  /\ todo' = [todo EXCEPT ![r] = <<>>]
  /\ effect' = [effect EXCEPT ![r] = IF @ = "running" THEN "unknown" ELSE @]
  /\ UNCHANGED <<fixed, durable>>

Step(r) ==
  \/ Policy(r) \/ Approval(r) \/ Trust(r)
  \/ EnvironmentReturn(r) \/ EnvironmentThrow(r)
  \/ Enqueue(r) \/ Dedup(r) \/ Claim(r) \/ Flag(r) \/ SlotThrow(r)
  \/ Start(r) \/ Launch(r) \/ Return(r) \/ CancelWatch(r) \/ Expire(r)
  \/ Throw(r) \/ Settle(r) \/ Write(r)

Next ==
  \E r \in Runs :
    Accept(r) \/ Step(r) \/ LateReturn(r) \/ Cancel(r) \/ Shutdown(r) \/ Crash(r)

\* A live process runs on: the timer bounds the action, the approval TTL the
\* approver, and the environment's own limits evaluate().  Nothing makes a call
\* arrive, a user cancel or a process crash.
Fairness == \A r \in Runs : WF_vars(Step(r))

Spec == Init /\ [][Next]_vars /\ Fairness

-----------------------------------------------------------------------------
\* Properties.

Unsafe(r) == opts[r].idem \notin Repeatable

\* Runs for one non-repeatable effect, with the key that is to make it happen
\* once.  The environment path never looks at the key.
Contenders ==
  {r \in Runs : opts[r].keyed /\ Unsafe(r) /\ ~opts[r].isolated /\ ~opts[r].dryRun}

\* Claim-first (idempotency.ts:4-14): among concurrent, crashed and repeated
\* calls with one key at most one ever launches the effect, while no claim has
\* found a slot a failed attempt left behind.
LaunchedOnce ==
  \A r, q \in Contenders :
    effect[r] # "none" /\ effect[q] # "none" => r = q \/ reclaimed

\* "effect is non-idempotent -> DO NOT re-run" (idempotency.ts:11): no two runs
\* of the effect may both have happened.
NoBlindReplay ==
  \A r, q \in Contenders :
    {effect[r], effect[q]} \subseteq {"running", "done", "unknown"} => r = q

\* "A crash mid-effect must be classifiable honestly" (service.ts:703): with the
\* writes going through, the durable record of an action that runs in process, or
\* was cut off by a crash, is running or already final, never a state recovery
\* takes for "no side effect yet".
EffectVisible ==
  \A r \in Runs :
    ~opts[r].isolated /\ effect[r] \in {"running", "unknown"} /\ ~faulty =>
      disk[r] # None /\ disk[r].state \in {"running"} \cup Terminal

\* A success is always some run's: its own action, or that of a run with the
\* same key it was deduplicated against, reported done.  A dry run of that key
\* counts: it completes the slot as the action would (service.ts:971).
SuccessIsBacked ==
  \A r \in Runs : mem[r].outcome = "succeeded" =>
    \E q \in Runs :
      effect[q] = "done" /\ (q = r \/ (opts[q].keyed /\ opts[r].keyed))

\* "settle ... after the effect: complete on success" (service.ts:964-965): the
\* effect that a completed slot stands for has happened, and was not simulated.
SuccessIsReal ==
  \A r \in Runs : mem[r].outcome = "succeeded" =>
    \E q \in Runs :
      /\ effect[q] = "done" /\ ~opts[q].dryRun
      /\ q = r \/ (opts[q].keyed /\ opts[r].keyed)

\* "Persistence failure must not fabricate success" (service.ts:1393): whatever
\* writes fail, a success execute() returned is in the database.
ReportedIsDurable ==
  \A r \in Runs : Returned(r) /\ mem[r].outcome = "succeeded" =>
    disk[r] # None /\ disk[r].outcome = "succeeded"

\* A returned failure that does not say "side effect unknown" means that the
\* action did nothing (for in-process actions that are never retried).
HonestFailure ==
  \A r \in Runs :
    Returned(r) /\ Unsafe(r) /\ ~opts[r].isolated /\ ~mem[r].unknown
      /\ mem[r].outcome \in {"failed", "cancelled", "timed_out", "denied",
                             "budget_stopped", "unavailable"}
    => effect[r] \in {"none", "refused"}

\* An unknown effect closes its slot for good: settle, the second claimer's flag
\* and every later claim leave it requires_reconciliation.
UnknownClosesSlot ==
  \A r \in Contenders :
    Returned(r) /\ claimed[r] /\ mem[r].unknown /\ ~faulty /\ ~reclaimed =>
      slot = "requires_reconciliation"

\* Terminal records are final: no late result, retry or settlement of any run
\* overwrites a durable terminal state with another.
DurableTerminalFinal ==
  [][\A r \in Runs : disk[r] # None /\ disk[r].state \in Terminal =>
       disk'[r].state = disk[r].state]_vars

\* Whatever the action, the approver, the user and the database do, an accepted
\* call returns or its process has crashed.
AcceptedReturns ==
  \A r \in Runs : pc[r] = "policy" ~> (Returned(r) \/ pc[r] = "crashed")

\* "the durable state ends in "failed", never stuck mid-lifecycle"
\* (service.ts:632): the record of a call that has returned is terminal.
ReturnedIsTerminal ==
  \A r \in Runs : Returned(r) /\ disk[r] # None => disk[r].state \in Terminal
=============================================================================
