------------------------------ MODULE Recovery ------------------------------
(***************************************************************************)
(* Startup recovery (service.ts startupRecovery and resumeRecoverable,     *)
(* recovery.ts classify and verifyRecoveryBasis, repository.ts             *)
(* findInterrupted) over the durable state the execution fabric leaves.    *)
(*                                                                         *)
(* One XR process at a time holds the recovery lease (see Lease) and walks *)
(* the interrupted records; its reads and writes are separate SQL          *)
(* statements between which live runs, crashes and cancellations step.     *)
(* The audit-chain and authority hooks are external: they accept or refuse.*)
(***************************************************************************)
EXTENDS ExecutionFabric, FiniteSets

CONSTANTS
  Concurrent,   \* may a process start, and recover, while another's runs live?
  MaxPasses     \* bound: recovery passes

ASSUME ConcurrentAssumption == Concurrent \in BOOLEAN
ASSUME PassesAssumption == MaxPasses \in Nat

VARIABLES
  rpc,       \* where startupRecovery is; "off" outside a pass
  found,     \* findInterrupted's snapshot: the record of each run, or None
  left,      \* runs of the snapshot still to visit
  reread,    \* the record resumeRecoverable has read again
  decided,   \* runs this pass has recorded a decision for
  resumed,   \* runs this pass has claimed to resume
  aborted,   \* the last pass ended by an exception
  passes     \* passes begun

recovery == <<rpc, found, left, reread, decided, resumed, aborted, passes>>
rvars == <<vars, recovery>>

\* The states findInterrupted selects.
Interrupted == {"queued", "running", "observing", "awaiting_approval",
                "awaiting_policy", "authorized"}

RecoveryTypeOK ==
  /\ TypeOK
  /\ rpc \in {"off", "classify", "verify", "mark", "retry"}
  /\ found \in [Runs -> {rec \in Record : rec.state \in Interrupted} \cup {None}]
  /\ left \subseteq Runs
  /\ reread \in Record \cup {None}
  /\ decided \subseteq Runs
  /\ resumed \subseteq Runs
  /\ aborted \in BOOLEAN
  /\ passes \in 0..MaxPasses

RInit ==
  /\ Init
  /\ rpc = "off"
  /\ found = [r \in Runs |-> None]
  /\ left = {}
  /\ reread = None
  /\ decided = {}
  /\ resumed = {}
  /\ aborted = FALSE
  /\ passes = 0

-----------------------------------------------------------------------------
\* The ORDER BY of findInterrupted.
Rank(state) ==
  CASE state \in {"running", "observing"} -> 0
    [] state = "awaiting_approval" -> 1
    [] state = "awaiting_policy" -> 2
    [] state = "authorized" -> 3
    [] OTHER -> 4
Newer(r, q) ==
  \E i, j \in 1..Len(accepted) : accepted[i] = r /\ accepted[j] = q /\ i > j

\* Mutant: newest first, whatever the state.
NextByAge == CHOOSE r \in left : \A q \in left \ {r} : Newer(r, q)

NextRecord ==
  CHOOSE r \in left : \A q \in left \ {r} :
    \/ Rank(found[r].state) < Rank(found[q].state)
    \/ Rank(found[r].state) = Rank(found[q].state) /\ Newer(r, q)

IdempotencyOf(r, rec) == IF rec.action THEN opts[r].idem ELSE "unknown_unsafe"

\* classify, once nothing blocks: a state before any action, a checkpoint that
\* says so, or an idempotency that makes a repetition harmless.  (A quarantined
\* environment is only tested for queued records, and no environment run is ever
\* queued on disk.)
Resumable(r, rec, cp) ==
  \/ rec.state \notin InFlight \/ rec.state = "awaiting_approval"
  \/ cp # None /\ (cp.safe \/ rec.state \notin SideEffectPossible)
  \/ /\ rec.state \in SideEffectPossible
     /\ \/ IdempotencyOf(r, rec) = "naturally_idempotent"
        \/ IdempotencyOf(r, rec) = "idempotent_with_key" /\ opts[r].keyed

\* Mutant: the durable cancellation is not consulted.
ClassifyIgnoringCancel(r, rec, cp, accepts) ==
  IF ~accepts THEN "blocked"
  ELSE IF Resumable(r, rec, cp) THEN "auto_resume" ELSE "requires_approval"

\* classify: an unacknowledged cancellation first, then the hooks.
Classify(r, rec, cp, accepts) ==
  IF durableCancel[r] \/ ~accepts THEN "blocked"
  ELSE IF Resumable(r, rec, cp) THEN "auto_resume" ELSE "requires_approval"

\* verifyRecoveryBasis: gates 1 to 5.
Basis(r, rec, cp, accepts) ==
  /\ cp # None /\ accepts
  /\ cp.safe \/ IsSideEffectSafe(cp.kind, IF rec.action THEN opts[r].idem ELSE "")

-----------------------------------------------------------------------------
\* Another XR process starts, takes the recovery lease and queries.
Discover ==
  /\ rpc = "off" /\ passes < MaxPasses
  /\ Concurrent \/ \A r \in Runs : ~Live(r)
  /\ found' = [r \in Runs |->
                 IF disk[r] # None /\ disk[r].state \in Interrupted
                   THEN disk[r] ELSE None]
  /\ left' = {r \in Runs : found'[r] # None}
  /\ rpc' = "classify"
  /\ reread' = None /\ decided' = {} /\ resumed' = {} /\ aborted' = FALSE
  /\ passes' = passes + 1
  /\ UNCHANGED vars

\* classify and recordDecision for the next record of the snapshot.
Decide ==
  /\ rpc = "classify" /\ left # {}
  /\ LET r == NextRecord IN
     /\ decided' = decided \cup {r}
     /\ \E accepts \in BOOLEAN :
          IF Classify(r, found[r], checkpoint[r], accepts) = "auto_resume"
            THEN rpc' = "verify" /\ UNCHANGED left
            ELSE left' = left \ {r} /\ UNCHANGED rpc
  /\ UNCHANGED <<vars, found, reread, resumed, aborted, passes>>

\* resumeRecoverable with force: its own classification cannot stop it, only the
\* basis can.
Verify ==
  /\ rpc = "verify"
  /\ LET r == NextRecord IN
     \E accepts \in BOOLEAN :
       IF Basis(r, disk[r], checkpoint[r], accepts)
         THEN rpc' = "mark" /\ reread' = disk[r] /\ UNCHANGED left
         ELSE rpc' = "classify" /\ left' = left \ {r} /\ UNCHANGED reread
  /\ UNCHANGED <<vars, found, decided, resumed, aborted, passes>>

\* The "auto_resume" decision and the recovery_decided checkpoint.
MarkResumed ==
  /\ rpc = "mark"
  /\ LET r == NextRecord IN
     /\ checkpoint' = [checkpoint EXCEPT ![r] =
                         Mark(r, reread, "recovery_decided").cp]
     /\ IF reread.state \notin InFlight \/ reread.state = "awaiting_approval"
          THEN rpc' = "retry" /\ UNCHANGED <<left, resumed>>
          ELSE /\ rpc' = "classify"
               /\ left' = left \ {r} /\ resumed' = resumed \cup {r}
  /\ UNCHANGED <<control, disk, durableCancel, slot, accepted, effect, history,
                 found, reread, decided, aborted, passes>>

\* Mutant: the record is queued again whatever its state.
RetryAnyState ==
  /\ rpc = "retry"
  /\ disk' = [disk EXCEPT ![NextRecord] =
                [reread EXCEPT !.state = "queued", !.outcome = "none"]]
  /\ resumed' = resumed \cup {NextRecord}
  /\ left' = left \ {NextRecord} /\ rpc' = "classify"
  /\ UNCHANGED <<control, checkpoint, durableCancel, slot, accepted, effect,
                 history, found, reread, decided, passes, aborted>>

\* transition(state, "retry") for a record that had not begun; where the table
\* has no such event it throws out of the whole pass.
Retry ==
  /\ rpc = "retry"
  /\ LET r == NextRecord IN
     IF CanFire(reread.state, "retry")
       THEN /\ disk' = [disk EXCEPT ![r] =
                          [Move(reread, "retry") EXCEPT !.outcome = "none",
                                                        !.unknown = FALSE]]
            /\ resumed' = resumed \cup {r}
            /\ left' = left \ {r} /\ rpc' = "classify"
            /\ UNCHANGED aborted
       ELSE /\ aborted' = TRUE /\ rpc' = "off"
            /\ UNCHANGED <<disk, resumed, left>>
  /\ UNCHANGED <<control, checkpoint, durableCancel, slot, accepted, effect,
                 history, found, reread, decided, passes>>

\* Every record visited: dirty environments are quarantined, the lease released.
Finish ==
  /\ rpc = "classify" /\ left = {}
  /\ rpc' = "off"
  /\ UNCHANGED <<vars, found, left, reread, decided, resumed, aborted, passes>>

\* The recovering process dies in the middle of its pass.
RecoveryCrash ==
  /\ rpc # "off" /\ Incident(FALSE)
  /\ rpc' = "off" /\ left' = {} /\ found' = [r \in Runs |-> None]
  /\ UNCHANGED <<control, durable, accepted, effect, reread, decided, resumed,
                 aborted, passes>>

Pass == Decide \/ Verify \/ MarkResumed \/ Retry \/ Finish

\* A process accepts calls only once its own startup recovery is over.
Work == Next /\ UNCHANGED recovery /\ (Concurrent \/ rpc = "off")

RNext == Work \/ Discover \/ Pass \/ RecoveryCrash

RSpec == RInit /\ [][RNext]_rvars /\ Fairness

-----------------------------------------------------------------------------
\* Properties.

InProcess(r) == ~opts[r].isolated

\* "it must never repeat an unknown external side effect merely because a process
\* restarted" (recovery.ts:7): no resume is claimed for an unsafe effect that may
\* have happened, the trust gate and failed writes left aside.
UnsafeNeverResumedInProcess ==
  [][\A r \in resumed' \ resumed :
       Unsafe(r) /\ InProcess(r) /\ ~faulty => effect[r] \in {"none", "refused"}]_rvars

\* A cancellation that reached the database before the pass is honored by every
\* gate of it ("Execution must not resume", recovery.ts:210).
CancelBlocksResume == \A r \in resumed : ~durableCancel[r]

\* However a pass ends, the records it found running (the ones a side effect is
\* possible for) have a recorded decision, because they are visited first.
RunningDecided ==
  rpc = "off" =>
    \A r \in Runs : found[r] # None /\ found[r].state \in SideEffectPossible =>
      r \in decided

\* "discover interrupted work, classify, and record recovery decisions"
\* (service.ts:245): a pass that ends without crashing has decided every record
\* it found.
EveryRecordDecided ==
  rpc = "off" => \A r \in Runs : found[r] # None => r \in decided
=============================================================================
