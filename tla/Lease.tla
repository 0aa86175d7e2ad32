------------------------------- MODULE Lease -------------------------------
(***************************************************************************)
(* LeaseManager (src/src/execution/lease.ts): who may execute one target   *)
(* (a workflow, or the startup recovery of a workspace) when several XR    *)
(* processes share one SQLite file.                                        *)
(*                                                                         *)
(* acquire() is four or five separate SQL statements, each committed on    *)
(* its own, so every statement is an action here and other processes step  *)
(* between them; a process may also crash between any two.                 *)
(*                                                                         *)
(* An element of Proc is one incarnation of a LeaseManager: it is started  *)
(* at most once, so its identity is ownerInstanceId (a random UUID).  The  *)
(* operating system gives it a pid no live process has; PidReuse says      *)
(* whether a dead process's pid may come back.  The table holds at most    *)
(* one row per target (UNIQUE(target_type, target_id)); targets do not     *)
(* interact, so one is enough.  expires_at and acquired_at are written and *)
(* never read by acquire() and are left out.                               *)
(***************************************************************************)
EXTENDS Naturals

CONSTANTS
  Proc,        \* incarnations of an XR process
  Pid,         \* operating system process ids
  MaxLeases,   \* bound: no acquire() begins once this many leases were inserted
  PidReuse,    \* may the pid of a dead process be given to a new one?
  NoRow        \* no lease row for the target / nothing read

ASSUME PidAssumption == Pid # {}
ASSUME LeasesAssumption == MaxLeases \in Nat
ASSUME ReuseAssumption == PidReuse \in BOOLEAN

Row == [id: Nat, owner: Proc, pid: Pid, released: BOOLEAN, stale: BOOLEAN]
ASSUME NoRowAssumption == NoRow \notin Row

VARIABLES
  table,    \* the row of execution_leases for the target, or NoRow
  life,     \* "unborn", "alive" or "dead" for each incarnation
  pidOf,    \* the pid the incarnation was given; arbitrary while unborn
  pc,       \* where it is in acquire(); "owner": acquire() returned a lease
  seen,     \* `existing`: the row its SELECT returned
  issued,   \* how many leases were inserted; the next lease_id
  raced     \* history: a DELETE by target removed a row that was not released

vars == <<table, life, pidOf, pc, seen, issued, raced>>

Locations == {"idle", "inspect", "deleteReleased", "markStale",
              "deleteStale", "insert", "owner"}

TypeOK ==
  /\ table \in Row \cup {NoRow}
  /\ life \in [Proc -> {"unborn", "alive", "dead"}]
  /\ pidOf \in [Proc -> Pid]
  /\ pc \in [Proc -> Locations]
  /\ seen \in [Proc -> Row \cup {NoRow}]
  /\ issued \in Nat
  /\ raced \in BOOLEAN

-----------------------------------------------------------------------------
Alive == {p \in Proc : life[p] = "alive"}

\* isProcessDead: kill(pid, 0) finds no process.
ProcessDead(pid) == \A p \in Alive : pidOf[p] # pid

SameLease(r, s) == r # NoRow /\ s # NoRow /\ r.id = s.id

Goto(p, at) == pc' = [pc EXCEPT ![p] = at]

Init ==
  /\ table = NoRow
  /\ life = [p \in Proc |-> "unborn"]
  /\ pidOf = [p \in Proc |-> CHOOSE pid \in Pid : TRUE]
  /\ pc = [p \in Proc |-> "idle"]
  /\ seen = [p \in Proc |-> NoRow]
  /\ issued = 0
  /\ raced = FALSE

\* The operating system starts an XR process and names it.
Start(p) ==
  /\ life[p] = "unborn"
  /\ life' = [life EXCEPT ![p] = "alive"]
  /\ \E pid \in Pid :
       /\ \A q \in Proc \ {p} : pidOf[q] = pid =>
            \/ life[q] = "unborn"
            \/ PidReuse /\ life[q] = "dead"
       /\ pidOf' = [pidOf EXCEPT ![p] = pid]
  /\ UNCHANGED <<table, pc, seen, issued, raced>>

\* A kill, a power loss, a fault: no `finally` runs and the lease stays.
Crash(p) ==
  /\ life[p] = "alive"
  /\ life' = [life EXCEPT ![p] = "dead"]
  /\ Goto(p, "idle")
  /\ seen' = [seen EXCEPT ![p] = NoRow]
  /\ UNCHANGED <<table, pidOf, issued, raced>>

-----------------------------------------------------------------------------
\* acquire(): the SELECT of getLease.
ReadLease(p) ==
  /\ life[p] = "alive" /\ pc[p] = "idle" /\ issued < MaxLeases
  /\ seen' = [seen EXCEPT ![p] = table]
  /\ Goto(p, IF table = NoRow THEN "insert" ELSE "inspect")
  /\ UNCHANGED <<table, life, pidOf, issued, raced>>

\* Mutant: the liveness probe is skipped and any unreleased lease is taken over.
InspectNoProbe(p) ==
  /\ life[p] = "alive" /\ pc[p] = "inspect"
  /\ Goto(p, IF seen[p].released THEN "deleteReleased" ELSE "markStale")
  /\ UNCHANGED <<table, life, pidOf, seen, issued, raced>>

\* Mutant: a lease of a dead owner is refused like one of a live owner.
InspectNoTakeover(p) ==
  /\ life[p] = "alive" /\ pc[p] = "inspect"
  /\ Goto(p, IF seen[p].released THEN "deleteReleased" ELSE "idle")
  /\ UNCHANGED <<table, life, pidOf, seen, issued, raced>>

\* The three-way decision on the row that was read.  acquire() by the holder
\* itself (renew) only rewrites expires_at, which nothing reads.
Inspect(p) ==
  /\ life[p] = "alive" /\ pc[p] = "inspect"
  /\ Goto(p, IF seen[p].released THEN "deleteReleased"
             ELSE IF ProcessDead(seen[p].pid) THEN "markStale"
             ELSE "idle")
  /\ UNCHANGED <<table, life, pidOf, seen, issued, raced>>

\* DELETE ... WHERE target_type = ? AND target_id = ?  Whatever row is there now
\* goes, not the released row that was read.
DeleteReleased(p) ==
  /\ life[p] = "alive" /\ pc[p] = "deleteReleased"
  /\ raced' = (raced \/ (table # NoRow /\ ~table.released))
  /\ table' = NoRow
  /\ Goto(p, "insert")
  /\ UNCHANGED <<life, pidOf, seen, issued>>

MarkStale(p) ==
  /\ life[p] = "alive" /\ pc[p] = "markStale"
  /\ table' = IF SameLease(table, seen[p]) THEN [table EXCEPT !.stale = TRUE]
                                           ELSE table
  /\ Goto(p, "deleteStale")
  /\ UNCHANGED <<life, pidOf, seen, issued, raced>>

\* Mutant: the takeover deletes by target instead of by lease_id.
DeleteStaleByTarget(p) ==
  /\ life[p] = "alive" /\ pc[p] = "deleteStale"
  /\ table' = NoRow
  /\ Goto(p, "insert")
  /\ UNCHANGED <<life, pidOf, seen, issued, raced>>

\* DELETE ... WHERE lease_id = ?
DeleteStale(p) ==
  /\ life[p] = "alive" /\ pc[p] = "deleteStale"
  /\ table' = IF SameLease(table, seen[p]) THEN NoRow ELSE table
  /\ Goto(p, "insert")
  /\ UNCHANGED <<life, pidOf, seen, issued, raced>>

\* Mutant: the row does not name the process that owns it.
InsertUnnamed(p) ==
  /\ life[p] = "alive" /\ pc[p] = "insert" /\ table = NoRow
  /\ issued' = issued + 1
  /\ table' = [id |-> issued, owner |-> NoRow, pid |-> pidOf[p],
               released |-> FALSE, stale |-> FALSE]
  /\ Goto(p, "owner")
  /\ seen' = [seen EXCEPT ![p] = NoRow]
  /\ UNCHANGED <<life, pidOf, raced>>

\* The INSERT, and the catch that turns a UNIQUE violation into `null`.
Insert(p) ==
  /\ life[p] = "alive" /\ pc[p] = "insert"
  /\ IF table = NoRow
       THEN /\ issued' = issued + 1
            /\ table' = [id |-> issued, owner |-> p, pid |-> pidOf[p],
                         released |-> FALSE, stale |-> FALSE]
            /\ Goto(p, "owner")
       ELSE Goto(p, "idle") /\ UNCHANGED <<issued, table>>
  /\ seen' = [seen EXCEPT ![p] = NoRow]
  /\ UNCHANGED <<life, pidOf, raced>>

\* release(): UPDATE ... WHERE target AND released_at IS NULL.  The row is not
\* required to be the caller's.
Release(p) ==
  /\ life[p] = "alive" /\ pc[p] = "owner"
  /\ table' = IF table = NoRow THEN NoRow ELSE [table EXCEPT !.released = TRUE]
  /\ Goto(p, "idle")
  /\ UNCHANGED <<life, pidOf, seen, issued, raced>>

AcquireStep(p) ==
  \/ ReadLease(p) \/ Inspect(p) \/ DeleteReleased(p)
  \/ MarkStale(p) \/ DeleteStale(p) \/ Insert(p)

Next == \E p \in Proc : Start(p) \/ Crash(p) \/ AcquireStep(p) \/ Release(p)

\* A live process finishes the synchronous acquire() it is in, its caller tries
\* again, and execute() releases in `finally`.  Nothing makes a process start
\* or crash.
Fairness == \A p \in Proc : WF_vars(AcquireStep(p)) /\ WF_vars(Release(p))

Spec == Init /\ [][Next]_vars /\ Fairness

-----------------------------------------------------------------------------
Owners == {p \in Proc : pc[p] = "owner"}

\* "Two owners must NEVER execute the same workflow concurrently"
\* (service.ts:393): at most one process is past a successful acquire().
LeaseExclusive == \A p, q \in Owners : p = q

\* The takeover of a dead owner's lease, the UNIQUE insert, releases and crashes
\* in any order keep the lease exclusive; the one statement that can break it is
\* the DELETE by target reaching a row that has been replaced since it was read.
ExclusiveUnlessRaced == raced \/ LeaseExclusive

\* While that race has not happened, the one process that believes it holds the
\* lease is the one a third process reads in the table (lease.ts holdsLease):
\* no takeover ever removes the row of a live owner.
OwnerHasRow ==
  \A p \in Owners : ~raced =>
    /\ table # NoRow /\ table.owner = p
    /\ ~table.released /\ ~table.stale

Abandoned == table # NoRow /\ ~table.released /\ life[table.owner] = "dead"

\* "crash leaves lease unreleased -> stale on next check" (lease.ts:15): as long
\* as one process stays up and keeps asking, a dead owner's lease goes away.
AbandonedReclaimed ==
  \A p \in Proc :
    (Abandoned /\ life[p] = "alive")
      ~> (~Abandoned \/ life[p] # "alive" \/ issued >= MaxLeases)
=============================================================================
