----------------------------- MODULE Migrations -----------------------------
(***************************************************************************)
(* Opening a workspace: withMigrationLock() (src/src/state/migration-      *)
(* lock.ts) around runMigrationsUp() and runMigrationsDown()               *)
(* (src/src/state/migrations.ts), by several processes at once.            *)
(*                                                                         *)
(* The lock is a file made with O_EXCL that holds its maker's pid.  Making *)
(* the file and writing the pid are two calls, and so are looking at a     *)
(* file and unlinking it; unlinking removes whatever file is there by      *)
(* then.  Each migration is one transaction of its own.                    *)
(*                                                                         *)
(* Polls are 25 ms apart and a unit of time is some seconds, so time       *)
(* passes only when no live opener has anything to do but wait.  Nested    *)
(* calls of one process only count.  Live processes have different pids:   *)
(* one pid namespace.  A process that starts may get the pid of one that   *)
(* is gone, as the first process of a restarted container always does.     *)
(***************************************************************************)
EXTENDS Naturals

CONSTANTS
  Procs,      \* processes, each opening the workspace once
  Pids,       \* the pids the operating system gives out
  Latest,     \* the last schema version
  Stale,      \* age after which a lock file is evicted
  Patience,   \* time after which an opener throws
  MaxCrashes, \* bound
  MaxBusy,    \* bound: units of time during which a live process holds the lock
  None        \* no file, no pid

ASSUME MigrationAssumption ==
  /\ Latest \in Nat /\ Stale \in Nat /\ Patience \in Nat /\ Stale < Patience
  /\ MaxCrashes \in Nat /\ MaxBusy \in Nat /\ None \notin Procs \cup Pids

VARIABLES
  file,     \* the lock file: who made it, whether the pid is written, its age
  pid,      \* process.pid, the last one of a process that is gone
  pc,       \* where each process is
  goal,     \* the version it migrates to, "up" or "down"
  at,       \* the migrations it has gone through
  waited,   \* how long it has polled
  applied,  \* the schema_migrations table
  crashes, busy

vars == <<file, pid, pc, goal, at, waited, applied, crashes, busy>>

Versions == 1..Latest
Live(p) == pc[p] \notin {"off", "dead", "gone"}
Running == {p \in Procs : pc[p] = "running"}
NoFile == [maker |-> None, signed |-> FALSE, age |-> 0]
There == file.maker # None

\* The lock file is one that its maker holds, or held when it died.
TypeOK ==
  /\ file \in [maker : Procs \cup {None}, signed : BOOLEAN, age : Nat]
  /\ ~There => file = NoFile
  /\ There => pc[file.maker] \in {"dead", IF file.signed THEN "running" ELSE "created"}
  /\ pid \in [Procs -> Pids \cup {None}]
  /\ pc \in [Procs -> {"off", "polling", "created", "evicting", "running",
                       "done", "refused", "barred", "dead", "gone"}]
  /\ goal \in [Procs -> {"up", "down"}]
  /\ at \in [Procs -> 0..Latest]
  /\ waited \in [Procs -> Nat]
  /\ applied \subseteq Versions
  /\ crashes \in 0..MaxCrashes /\ busy \in 0..MaxBusy

Init ==
  /\ file = NoFile
  /\ pid = [p \in Procs |-> None]
  /\ pc = [p \in Procs |-> "off"]
  /\ goal \in [Procs -> {"up", "down"}]
  /\ at = [p \in Procs |-> 0]
  /\ waited = [p \in Procs |-> 0]
  /\ applied \in {1..n : n \in 0..Latest}
  /\ crashes = 0 /\ busy = 0

Goto(p, where) == pc' = [pc EXCEPT ![p] = where]

-----------------------------------------------------------------------------
Start(p) ==
  /\ pc[p] = "off"
  /\ Goto(p, "polling")
  /\ \E x \in Pids : /\ \A q \in Procs : Live(q) => pid[q] # x
                     /\ pid' = [pid EXCEPT ![p] = x]
  /\ UNCHANGED <<file, goal, at, waited, applied, crashes, busy>>

\* Mutant: without O_EXCL the call opens the file that is there.
CreateAnyway(p) ==
  /\ pc[p] = "polling"
  /\ file' = [maker |-> p, signed |-> FALSE, age |-> 0]
  /\ Goto(p, "created")
  /\ UNCHANGED <<pid, goal, at, waited, applied, crashes, busy>>

\* openSync(O_CREAT | O_EXCL).
Create(p) ==
  /\ pc[p] = "polling" /\ ~There
  /\ file' = [maker |-> p, signed |-> FALSE, age |-> 0]
  /\ Goto(p, "created")
  /\ UNCHANGED <<pid, goal, at, waited, applied, crashes, busy>>

\* writeSync() through the descriptor: the file it made, if that is still the one
\* at the path.
WritePid(p) ==
  /\ pc[p] = "created"
  /\ file' = IF file.maker = p THEN [file EXCEPT !.signed = TRUE] ELSE file
  /\ Goto(p, "running")
  /\ UNCHANGED <<pid, goal, at, waited, applied, crashes, busy>>

\* heldByThisProcessPid(): the pid in the file is the caller's own.
SelfHold(p) == There /\ file.signed /\ pid[file.maker] = pid[p]

\* A caller that finds its own pid throws at once: before the probe, and before it
\* looks at the age of the file.
Bar(p) ==
  /\ pc[p] = "polling" /\ SelfHold(p)
  /\ Goto(p, "barred")
  /\ UNCHANGED <<file, pid, goal, at, waited, applied, crashes, busy>>

\* The probe finds no process with the pid in the file; a lock without a pid in it
\* has no holder to probe.
HolderDead == file.signed /\ \A q \in Procs : Live(q) => pid[q] # pid[file.maker]

\* Mutant: nor does it grow old.
OverdueIfSigned == file.signed /\ file.age > Stale

Overdue == file.age > Stale

\* The read of the pid and the probe, or the stat: the file is to go.
Condemn(p) ==
  /\ pc[p] = "polling" /\ There /\ ~SelfHold(p)
  /\ HolderDead \/ Overdue
  /\ Goto(p, "evicting")
  /\ UNCHANGED <<file, pid, goal, at, waited, applied, crashes, busy>>

\* The unlink, of whatever is there now.
Evict(p) ==
  /\ pc[p] = "evicting"
  /\ file' = NoFile
  /\ Goto(p, "polling")
  /\ UNCHANGED <<pid, goal, at, waited, applied, crashes, busy>>

\* The deadline, looked at after the evictions.
GiveUp(p) ==
  /\ pc[p] = "polling" /\ There /\ ~SelfHold(p) /\ ~HolderDead /\ ~Overdue
  /\ waited[p] > Patience
  /\ Goto(p, "refused")
  /\ UNCHANGED <<file, pid, goal, at, waited, applied, crashes, busy>>

-----------------------------------------------------------------------------
\* The version that the next transaction of p is about.
Version(p) == IF goal[p] = "up" THEN at[p] + 1 ELSE Latest - at[p]

\* One transaction: applies or reverts the version if the table says it is due.
Migrate(p) ==
  LET v == Version(p)
  IN /\ pc[p] = "running" /\ at[p] < Latest
     /\ applied' = IF goal[p] = "up" THEN applied \cup {v} ELSE applied \ {v}
     /\ at' = [at EXCEPT ![p] = @ + 1]
     /\ UNCHANGED <<file, pid, pc, goal, waited, crashes, busy>>

\* Mutant: the lock file is left to the next opener.
ReleaseKeepsFile(p) ==
  /\ pc[p] = "running" /\ at[p] = Latest
  /\ Goto(p, "done")
  /\ UNCHANGED <<file, pid, goal, at, waited, applied, crashes, busy>>

\* The finally block: the file at the path goes, whoever made it.
Release(p) ==
  /\ pc[p] = "running" /\ at[p] = Latest
  /\ file' = NoFile
  /\ Goto(p, "done")
  /\ UNCHANGED <<pid, goal, at, waited, applied, crashes, busy>>

\* kill -9, at any point.
Crash(p) ==
  /\ pc[p] \in {"polling", "created", "evicting", "running"}
  /\ crashes < MaxCrashes /\ crashes' = crashes + 1
  /\ Goto(p, "dead")
  /\ UNCHANGED <<file, pid, goal, at, waited, applied, busy>>

\* A process that is through ends, and its pid is free.
Exit(p) ==
  /\ pc[p] \in {"done", "refused", "barred"}
  /\ Goto(p, "gone")
  /\ UNCHANGED <<file, pid, goal, at, waited, applied, crashes, busy>>

\* An opener that does not have to wait does not.
Prompt(p) ==
  \/ pc[p] \in {"created", "evicting"}
  \/ pc[p] = "polling" /\ (~There \/ SelfHold(p) \/ HolderDead \/ Overdue \/ waited[p] > Patience)

Elapse ==
  /\ \A p \in Procs : ~Prompt(p)
  /\ \E p \in Procs : pc[p] = "polling"
  /\ IF Running = {} THEN busy' = busy ELSE busy < MaxBusy /\ busy' = busy + 1
  /\ file' = IF There THEN [file EXCEPT !.age = @ + 1] ELSE file
  /\ waited' = [p \in Procs |-> IF pc[p] = "polling" THEN waited[p] + 1 ELSE waited[p]]
  /\ UNCHANGED <<pid, pc, goal, at, applied, crashes>>

Next ==
  \/ \E p \in Procs :
       \/ Start(p) \/ Create(p) \/ WritePid(p) \/ Bar(p) \/ Condemn(p) \/ Evict(p)
       \/ GiveUp(p) \/ Migrate(p) \/ Release(p) \/ Crash(p) \/ Exit(p)
  \/ Elapse

Spec == Init /\ [][Next]_vars

-----------------------------------------------------------------------------
\* migration-lock.ts:36: while no process dies and none holds the lock longer than
\* the stale threshold, one process migrates at a time and the table has no gap.
\* Either event lets a second process in: an evictor that looked before another
\* evicted removes the lock of the next holder.
LockHolds ==
  crashes = 0 /\ busy <= Stale =>
    /\ \A p, q \in Running : p = q
    /\ \A v \in applied : 1..v \subseteq applied

\* migration-lock.ts:39: "a crashed holder cannot wedge every future boot".  One crash,
\* even between making the file and writing the pid, or with its pid given to a
\* process that lives on, makes nobody time out; and who throws at once has the pid
\* of a process that died.
NotWedged ==
  \A p \in Procs :
    /\ pc[p] = "refused" => crashes > 1 \/ busy > 0
    /\ pc[p] = "barred" => \E q \in Procs : pc[q] = "dead" /\ pid[q] = pid[p]

\* What the header says, without that exception: while one process at most has died
\* and none has held the lock for long, every opener gets in.
NeverWedged ==
  crashes <= 1 /\ busy = 0 => \A p \in Procs : pc[p] \notin {"refused", "barred"}
=============================================================================
