-------------------------- MODULE MigrationProofs --------------------------
(***************************************************************************)
(* What holds of the migration lock for any number of processes, pids and  *)
(* versions and any thresholds: the lock file of a live process is held by *)
(* it, while nobody dies or holds the lock past the stale threshold one    *)
(* process migrates at a time and the schema has no gap, one crash makes   *)
(* no opener time out, and who throws at once has the pid of a dead one.   *)
(***************************************************************************)
EXTENDS Migrations, TLAPS

Undisturbed == crashes = 0 /\ busy <= Stale

\* Nobody has looked at a lock to evict, and whoever is past the create call made
\* the file that is there.
HolderHasFile ==
  /\ \A p \in Procs : pc[p] # "evicting" /\ pc[p] # "dead"
  /\ \A p \in Procs : pc[p] \in {"created", "running"} => file.maker = p

\* A lock is no older than the time it was held for.
AgeIsBusy == file.age <= busy

\* The table is a prefix of the versions; a holder that upgrades has gone through
\* part of it, and one that downgrades through what is missing.
Prefix(n) ==
  /\ applied = 1..n
  /\ \A p \in Procs : pc[p] = "running" =>
       /\ goal[p] = "up" => at[p] <= n
       /\ goal[p] = "down" => n + at[p] <= Latest

\* Before it holds the lock a process has gone through nothing.
Fresh == \A p \in Procs : pc[p] \in {"off", "polling", "created", "evicting"} => at[p] = 0

IInv ==
  /\ TypeOK
  /\ Fresh
  /\ Undisturbed => HolderHasFile /\ AgeIsBusy /\ \E n \in 0..Latest : Prefix(n)

-----------------------------------------------------------------------------
\* The state is well typed, and the lock file of a live process is the one of a
\* holder, whatever evictions race: nobody but its maker leaves the calls in
\* between without unlinking what is there.
LEMMA TypeStep == TypeOK /\ [Next]_vars => TypeOK'
<1> USE MigrationAssumption DEF TypeOK, Versions, Live, There, NoFile, Goto
<1> SUFFICES ASSUME TypeOK, [Next]_vars PROVE TypeOK'
  OBVIOUS
<1>1. ASSUME NEW p \in Procs, Start(p) PROVE TypeOK'
  BY <1>1 DEF Start
<1>2. ASSUME NEW p \in Procs, Create(p) PROVE TypeOK'
  BY <1>2 DEF Create
<1>3. ASSUME NEW p \in Procs, WritePid(p) PROVE TypeOK'
  BY <1>3 DEF WritePid
<1>4. ASSUME NEW p \in Procs, Condemn(p) PROVE TypeOK'
  BY <1>4 DEF Condemn
<1>5. ASSUME NEW p \in Procs, Evict(p) PROVE TypeOK'
  BY <1>5 DEF Evict
<1>6. ASSUME NEW p \in Procs, GiveUp(p) PROVE TypeOK'
  BY <1>6 DEF GiveUp
<1>7. ASSUME NEW p \in Procs, Migrate(p) PROVE TypeOK'
  <2>1. at[p] \in Nat /\ at[p] < Latest /\ at[p] + 1 \in 0..Latest
    BY <1>7 DEF Migrate
  <2>2. Version(p) \in 1..Latest
    BY <2>1 DEF Version
  <2>3. applied' \subseteq 1..Latest /\ at' \in [Procs -> 0..Latest]
    BY <1>7, <2>1, <2>2 DEF Migrate
  <2> QED BY <1>7, <2>3 DEF Migrate
<1>8. ASSUME NEW p \in Procs, Release(p) PROVE TypeOK'
  BY <1>8 DEF Release
<1>9. ASSUME NEW p \in Procs, Crash(p) PROVE TypeOK'
  BY <1>9 DEF Crash
<1>10. CASE Elapse
  <2>1. /\ file' \in [maker : Procs \cup {None}, signed : BOOLEAN, age : Nat]
        /\ file'.maker = file.maker /\ file'.signed = file.signed
    BY <1>10 DEF Elapse
  <2>2. There' = There /\ (~There => file' = NoFile)
    BY <1>10 DEF Elapse
  <2>3. waited' \in [Procs -> Nat]
    BY <1>10 DEF Elapse
  <2>4. busy' \in 0..MaxBusy
    BY <1>10 DEF Elapse
  <2> QED
    <3> HIDE DEF There, NoFile
    <3> QED BY <1>10, <2>1, <2>2, <2>3, <2>4 DEF Elapse
<1>11. CASE UNCHANGED vars
  BY <1>11 DEF vars
<1>12. ASSUME NEW p \in Procs, Bar(p) PROVE TypeOK'
  BY <1>12 DEF Bar
<1>13. ASSUME NEW p \in Procs, Exit(p) PROVE TypeOK'
  BY <1>13 DEF Exit
<1> QED
  BY <1>1, <1>2, <1>3, <1>4, <1>5, <1>6, <1>7, <1>8, <1>9, <1>10, <1>11, <1>12, <1>13 DEF Next

\* A process counts from zero each time it gets the lock.
LEMMA FreshStep == TypeOK /\ Fresh /\ [Next]_vars => Fresh'
BY DEF TypeOK, Fresh, Next, vars, Start, Create, WritePid, Bar, Condemn, Evict, GiveUp,
       Migrate, Release, Crash, Exit, Elapse, Goto

\* Init establishes all of it: the table starts as a prefix.
LEMMA InitInv == Init => IInv
<1> SUFFICES ASSUME Init PROVE IInv
  OBVIOUS
<1> USE MigrationAssumption
<1>1. PICK n \in 0..Latest : applied = 1..n
  BY DEF Init
<1>2. TypeOK
  BY <1>1 DEF Init, TypeOK, NoFile, There, Versions
<1>3. Fresh /\ HolderHasFile /\ AgeIsBusy /\ Prefix(n)
  BY <1>1 DEF Init, Fresh, HolderHasFile, AgeIsBusy, Prefix, NoFile
<1> QED BY <1>1, <1>2, <1>3 DEF IInv

\* What is disturbed stays so.
LEMMA DisturbedStays == TypeOK /\ [Next]_vars /\ Undisturbed' => Undisturbed
BY MigrationAssumption
   DEF TypeOK, Undisturbed, Next, vars, Start, Create, WritePid, Bar, Condemn, Evict, GiveUp,
       Migrate, Release, Crash, Exit, Elapse

\* While undisturbed no lock can be condemned: its holder lives, and it has not been
\* held for longer than the threshold.
LEMMA NothingToEvict ==
  ASSUME TypeOK, Undisturbed, HolderHasFile, AgeIsBusy
  PROVE  There => ~HolderDead /\ ~Overdue
<1>1. There => ~HolderDead
  BY DEF TypeOK, HolderHasFile, HolderDead, Live, There
<1>2. ~Overdue
  BY MigrationAssumption DEF TypeOK, Undisturbed, AgeIsBusy, Overdue
<1> QED BY <1>1, <1>2

\* The file of an undisturbed workspace goes from holder to holder.
LEMMA HolderStep ==
  ASSUME TypeOK, [Next]_vars, Undisturbed, Undisturbed', HolderHasFile, AgeIsBusy
  PROVE  HolderHasFile' /\ AgeIsBusy'
<1> USE MigrationAssumption DEF TypeOK, HolderHasFile, AgeIsBusy, There, NoFile, Goto
<1>1. ASSUME NEW p \in Procs, Start(p) PROVE HolderHasFile' /\ AgeIsBusy'
  BY <1>1 DEF Start
<1>2. ASSUME NEW p \in Procs, Create(p) PROVE HolderHasFile' /\ AgeIsBusy'
  BY <1>2 DEF Create
<1>3. ASSUME NEW p \in Procs, WritePid(p) PROVE HolderHasFile' /\ AgeIsBusy'
  BY <1>3 DEF WritePid
<1>4. ASSUME NEW p \in Procs, Condemn(p) PROVE FALSE
  BY <1>4, NothingToEvict DEF Condemn
<1>5. ASSUME NEW p \in Procs, Evict(p) PROVE FALSE
  BY <1>5 DEF Evict
<1>6. ASSUME NEW p \in Procs, GiveUp(p) PROVE HolderHasFile' /\ AgeIsBusy'
  BY <1>6 DEF GiveUp
<1>7. ASSUME NEW p \in Procs, Migrate(p) PROVE HolderHasFile' /\ AgeIsBusy'
  BY <1>7 DEF Migrate
<1>8. ASSUME NEW p \in Procs, Release(p) PROVE HolderHasFile' /\ AgeIsBusy'
  BY <1>8 DEF Release
<1>9. ASSUME NEW p \in Procs, Crash(p) PROVE FALSE
  BY <1>9 DEF Crash, Undisturbed
<1>10. CASE Elapse
  <2>1. file'.maker = file.maker /\ pc' = pc
    BY <1>10 DEF Elapse
  <2>2. \A p \in Procs : pc[p] # "created"
    BY <1>10 DEF Elapse, Prompt
  <2>3. There => Running # {}
    BY <2>2 DEF Running, Live
  <2>4. AgeIsBusy'
    BY <1>10, <2>3 DEF Elapse
  <2> QED BY <2>1, <2>4
<1>11. CASE UNCHANGED vars
  BY <1>11 DEF vars
<1>12. ASSUME NEW p \in Procs, Bar(p) PROVE HolderHasFile' /\ AgeIsBusy'
  BY <1>12 DEF Bar
<1>13. ASSUME NEW p \in Procs, Exit(p) PROVE HolderHasFile' /\ AgeIsBusy'
  BY <1>13 DEF Exit
<1> QED
  BY <1>1, <1>2, <1>3, <1>4, <1>5, <1>6, <1>7, <1>8, <1>9, <1>10, <1>11, <1>12, <1>13 DEF Next

\* There is one file, so one holder.
LEMMA OneHolder ==
  HolderHasFile => \A p, q \in Running : p = q
BY DEF HolderHasFile, Running

\* One migration of the only holder keeps the table a prefix: going up it repeats a
\* version that is there or adds the next, going down it takes the last one or
\* repeats one that is gone.
LEMMA MigrateStep ==
  ASSUME TypeOK, HolderHasFile, NEW n \in 0..Latest, Prefix(n),
         NEW p \in Procs, Migrate(p)
  PROVE  \E m \in 0..Latest : Prefix(m)'
<1> USE MigrationAssumption DEF TypeOK, Versions
<1>1. /\ at[p] \in 0..Latest /\ at[p] < Latest
      /\ pc' = pc /\ goal' = goal /\ pc[p] = "running"
      /\ at' = [at EXCEPT ![p] = @ + 1]
  BY DEF Migrate
<1>2. \A q \in Procs : pc[q] = "running" => q = p
  BY <1>1, OneHolder DEF Running
<1>3. CASE goal[p] = "up"
  <2>1. /\ at[p] <= n
        /\ applied = 1..n /\ applied' = applied \cup {at[p] + 1}
    BY <1>1, <1>3 DEF Prefix, Migrate, Version
  <2>2. CASE at[p] < n
    <3>1. applied' = 1..n
      BY <1>1, <2>1, <2>2
    <3>2. Prefix(n)'
      BY <1>1, <1>2, <1>3, <2>2, <3>1 DEF Prefix
    <3> QED BY <3>2
  <2>3. CASE at[p] = n
    <3>1. applied' = 1..(n + 1) /\ n + 1 \in 0..Latest
      <4>1. n \in Nat /\ n < Latest /\ applied' = (1..n) \cup {n + 1}
        BY <1>1, <2>1, <2>3
      <4> QED BY <4>1
    <3>2. Prefix(n + 1)'
      BY <1>1, <1>2, <1>3, <2>3, <3>1 DEF Prefix
    <3> QED BY <3>1, <3>2
  <2> QED BY <1>1, <2>1, <2>2, <2>3
<1>4. CASE goal[p] = "down"
  <2>1. /\ n + at[p] <= Latest
        /\ applied = 1..n /\ applied' = applied \ {Latest - at[p]}
    BY <1>1, <1>4 DEF Prefix, Migrate, Version
  <2>2. CASE n + at[p] < Latest
    <3>1. applied' = 1..n
      BY <1>1, <2>1, <2>2
    <3>2. Prefix(n)'
      BY <1>1, <1>2, <1>4, <2>2, <3>1 DEF Prefix
    <3> QED BY <3>2
  <2>3. CASE n + at[p] = Latest
    <3>1. applied' = 1..(n - 1) /\ n - 1 \in 0..Latest
      <4>1. n \in Nat /\ 0 < n /\ Latest - at[p] = n /\ applied' = (1..n) \ {n}
        BY <1>1, <2>1, <2>3
      <4> QED BY <4>1
    <3>2. Prefix(n - 1)'
      BY <1>1, <1>2, <1>4, <2>3, <3>1 DEF Prefix
    <3> QED BY <3>1, <3>2
  <2>4. n + at[p] < Latest \/ n + at[p] = Latest
    <3> HIDE DEF TypeOK
    <3>1. n \in Nat /\ at[p] \in Nat /\ Latest \in Nat
      BY <1>1
    <3> QED BY <2>1, <3>1
  <2> QED BY <2>2, <2>3, <2>4
<1> QED BY <1>1, <1>3, <1>4

\* No other step moves the table, and a new holder starts from nothing.
LEMMA PrefixStep ==
  ASSUME TypeOK, Fresh, HolderHasFile, NEW n \in 0..Latest, Prefix(n), [Next]_vars
  PROVE  \E m \in 0..Latest : Prefix(m)'
<1>1. CASE \E p \in Procs : Migrate(p)
  BY <1>1, MigrateStep
<1>2. CASE ~ \E p \in Procs : Migrate(p)
  <2>1. /\ applied' = applied /\ goal' = goal /\ at' = at
        /\ \A p \in Procs : pc'[p] = "running" => pc[p] \in {"running", "created"}
    BY <1>2 DEF TypeOK, Next, vars, Start, Create, WritePid, Bar, Condemn, Evict, GiveUp,
                Release, Crash, Exit, Elapse, Goto
  <2>2. \A p \in Procs : pc[p] = "created" => at[p] = 0
    BY DEF Fresh
  <2>3. Prefix(n)'
    BY <2>1, <2>2, MigrationAssumption DEF Prefix, TypeOK
  <2> QED BY <2>3
<1> QED BY <1>1, <1>2

\* Every step of any process, and time, preserves the inductive invariant.
LEMMA InvStep == IInv /\ [Next]_vars => IInv'
<1> SUFFICES ASSUME IInv, [Next]_vars PROVE IInv'
  OBVIOUS
<1>1. TypeOK' /\ Fresh'
  BY TypeStep, FreshStep DEF IInv
<1>2. ASSUME Undisturbed'
      PROVE  HolderHasFile' /\ AgeIsBusy' /\ \E n \in 0..Latest : Prefix(n)'
  <2>1. Undisturbed
    BY <1>2, DisturbedStays DEF IInv
  <2>2. HolderHasFile' /\ AgeIsBusy'
    BY <1>2, <2>1, HolderStep DEF IInv
  <2>3. PICK n \in 0..Latest : Prefix(n)
    BY <2>1 DEF IInv
  <2>4. \E m \in 0..Latest : Prefix(m)'
    BY <2>1, <2>3, PrefixStep DEF IInv
  <2> QED BY <2>2, <2>4
<1> QED BY <1>1, <1>2 DEF IInv

\* The inductive invariant holds throughout (withMigrationLock, migration-lock.ts:127).
LEMMA Invariance == Spec => []IInv
<1>1. Init => IInv
  BY InitInv
<1>2. IInv /\ [Next]_vars => IInv'
  BY InvStep
<1> QED BY <1>1, <1>2, PTL DEF Spec

-----------------------------------------------------------------------------
\* The lock file of a live process is the lock of a process that holds it, for any
\* number of openers and whatever is evicted under them.
THEOREM Typed == Spec => []TypeOK
<1>1. IInv => TypeOK
  BY DEF IInv
<1> QED BY <1>1, Invariance, PTL

\* migration-lock.ts:36: the exclusive create, the sweep and the finally block keep
\* the migrations to one process, and the table without gaps, for any number of
\* openers in either direction, until one dies or holds the lock too long.
THEOREM LockExcludes == Spec => []LockHolds
<1>1. IInv => LockHolds
  <2> SUFFICES ASSUME IInv, Undisturbed
               PROVE  /\ \A p, q \in Running : p = q
                      /\ \A v \in applied : 1..v \subseteq applied
    BY DEF LockHolds, Undisturbed
  <2>1. PICK n \in 0..Latest : applied = 1..n
    BY DEF IInv, Prefix
  <2>2. \A v \in applied : 1..v \subseteq applied
    BY <2>1, MigrationAssumption
  <2> QED BY <2>2, OneHolder DEF IInv
<1> QED BY <1>1, Invariance, PTL

-----------------------------------------------------------------------------
\* Nobody has held the lock for any length of time, and at most one process died.
Calm == crashes <= 1 /\ busy = 0

\* The lock file of a process that died; its pid may be missing, or another's by now.
Orphaned == There /\ pc[file.maker] = "dead"

\* While it is calm an opener only ever waits for the one orphan there can be, and
\* no longer than the orphan is old; so it stops waiting when the orphan is stale.
Waits ==
  Calm =>
    /\ crashes = 0 => /\ file.age = 0
                      /\ \A p \in Procs : waited[p] = 0 /\ pc[p] # "dead"
    /\ Orphaned => file.age <= Stale + 1 /\ \A p \in Procs : waited[p] <= file.age
    /\ \A p \in Procs : waited[p] <= Stale + 1 /\ pc[p] # "refused"

\* Time passes only over an orphan: any other file that is there has a live holder,
\* who is prompt or busy.
LEMMA TimeOverOrphan ==
  ASSUME TypeOK, Elapse, Calm'
  PROVE  Orphaned /\ file.age <= Stale /\ file' = [file EXCEPT !.age = @ + 1]
<1>1. PICK p \in Procs : pc[p] = "polling"
  BY DEF Elapse
<1>2. There /\ ~Overdue
  BY <1>1 DEF Elapse, Prompt
<1>3. Running = {}
  BY MigrationAssumption DEF Elapse, Calm, TypeOK
<1>4. file.maker \in Procs /\ pc[file.maker] \notin {"created", "running"}
  BY <1>2, <1>3 DEF Elapse, Prompt, TypeOK, There, Running
<1>5. pc[file.maker] = "dead"
  BY <1>2, <1>4 DEF TypeOK
<1>6. file.age <= Stale
  BY <1>2, MigrationAssumption DEF Overdue, TypeOK
<1> QED BY <1>2, <1>5, <1>6 DEF Orphaned, Elapse

\* Every step keeps that.
LEMMA WaitsStep == TypeOK /\ Waits /\ [Next]_vars => Waits'
<1> USE MigrationAssumption
<1> SUFFICES ASSUME TypeOK, Waits, [Next]_vars, Calm'
             PROVE  /\ crashes' = 0 => /\ file'.age = 0
                                       /\ \A p \in Procs : waited'[p] = 0 /\ pc'[p] # "dead"
                    /\ Orphaned' => /\ file'.age <= Stale + 1
                                    /\ \A p \in Procs : waited'[p] <= file'.age
                    /\ \A p \in Procs : waited'[p] <= Stale + 1 /\ pc'[p] # "refused"
  BY DEF Waits
<1>1. Calm /\ (crashes' = 0 => crashes = 0)
  BY DEF TypeOK, Calm, Next, vars, Start, Create, WritePid, Bar, Condemn, Evict, GiveUp,
         Migrate, Release, Crash, Exit, Elapse
<1>2. /\ crashes = 0 => /\ file.age = 0
                        /\ \A p \in Procs : waited[p] = 0 /\ pc[p] # "dead"
      /\ Orphaned => file.age <= Stale + 1 /\ \A p \in Procs : waited[p] <= file.age
      /\ \A p \in Procs : waited[p] <= Stale + 1 /\ pc[p] # "refused"
  BY <1>1 DEF Waits
<1> DEFINE Goal ==
      /\ crashes' = 0 => /\ file'.age = 0
                         /\ \A p \in Procs : waited'[p] = 0 /\ pc'[p] # "dead"
      /\ Orphaned' => file'.age <= Stale + 1 /\ \A p \in Procs : waited'[p] <= file'.age
      /\ \A p \in Procs : waited'[p] <= Stale + 1 /\ pc'[p] # "refused"
<1>3. ASSUME UNCHANGED <<crashes, waited, file>>,
             NEW p \in Procs, pc[p] # "dead",
             NEW where \in {"polling", "evicting", "running", "done", "barred", "gone"},
             pc' = [pc EXCEPT ![p] = where]
      PROVE  Goal
  <2>1. \A q \in Procs : (pc'[q] = "dead" <=> pc[q] = "dead") /\ (pc'[q] = "refused" => pc[q] = "refused")
    BY <1>3 DEF TypeOK
  <2>2. Orphaned' <=> Orphaned
    BY <1>3, <2>1 DEF TypeOK, Orphaned, There
  <2> QED BY <1>1, <1>2, <1>3, <2>1, <2>2
<1>4. ASSUME UNCHANGED <<crashes, waited>>, ~Orphaned', file'.age = 0 \/ file'.age = file.age,
             NEW p \in Procs, pc[p] # "dead",
             NEW where \in {"created", "polling", "running", "done"},
             pc' = [pc EXCEPT ![p] = where]
      PROVE  Goal
  BY <1>1, <1>2, <1>4 DEF TypeOK
<1>5. ASSUME NEW p \in Procs, Start(p) \/ Bar(p) \/ Condemn(p) \/ Exit(p) PROVE Goal
  BY <1>3, <1>5 DEF Start, Bar, Condemn, Exit, Goto
<1>6. ASSUME NEW p \in Procs, Create(p) PROVE Goal
  <2>1. ~Orphaned'
    BY <1>6 DEF Create, Goto, Orphaned, There, TypeOK
  <2>2. file'.age = 0
    BY <1>6 DEF Create
  <2> QED BY <1>4, <1>6, <2>1, <2>2 DEF Create, Goto
<1>7. ASSUME NEW p \in Procs, WritePid(p) PROVE Goal
  <2>1. CASE file.maker = p
    <3>1. file' = [file EXCEPT !.signed = TRUE] /\ file'.maker = p /\ file'.age = file.age
      BY <1>7, <2>1 DEF WritePid, TypeOK
    <3>2. ~Orphaned'
      BY <1>7, <3>1 DEF Orphaned, WritePid, Goto, TypeOK
    <3> QED BY <1>4, <1>7, <3>1, <3>2 DEF WritePid, Goto
  <2>2. CASE file.maker # p
    BY <1>3, <1>7, <2>2 DEF WritePid, Goto
  <2> QED BY <2>1, <2>2
<1>8. ASSUME NEW p \in Procs, Evict(p) \/ Release(p) PROVE Goal
  <2>1. ~Orphaned' /\ file'.age = 0
    BY <1>8 DEF Evict, Release, NoFile, Orphaned, There
  <2> QED BY <1>4, <1>8, <2>1 DEF Evict, Release, Goto
<1>9. ASSUME NEW p \in Procs, GiveUp(p) PROVE FALSE
  BY <1>2, <1>9 DEF GiveUp, TypeOK
<1>10. ASSUME NEW p \in Procs, Migrate(p) PROVE Goal
  BY <1>1, <1>2, <1>10 DEF Migrate, Orphaned, There
<1>11. ASSUME NEW p \in Procs, Crash(p) PROVE Goal
  <2>1. crashes = 0 /\ crashes' = 1 /\ file' = file /\ waited' = waited
        /\ pc' = [pc EXCEPT ![p] = "dead"]
    BY <1>11 DEF Crash, Goto, Calm, TypeOK
  <2>2. file'.age = 0 /\ \A q \in Procs : waited'[q] = 0 /\ pc'[q] # "refused"
    BY <1>2, <2>1 DEF TypeOK
  <2> QED BY <2>1, <2>2
<1>12. CASE Elapse
  <2>1. /\ Orphaned /\ file.age <= Stale /\ file' = [file EXCEPT !.age = @ + 1]
    BY <1>12, TimeOverOrphan
  <2>2. /\ file'.age = file.age + 1 /\ file.age \in Nat
        /\ \A p \in Procs : waited'[p] <= waited[p] + 1 /\ waited[p] \in Nat /\ waited'[p] \in Nat
        /\ UNCHANGED <<pc, crashes>>
    BY <1>12, <2>1 DEF Elapse, TypeOK
  <2>3. crashes # 0
    BY <1>2, <2>1 DEF Orphaned, There, TypeOK
  <2>4. file'.age <= Stale + 1 /\ \A p \in Procs : waited'[p] <= file'.age
    BY <1>2, <2>1, <2>2
  <2> QED BY <1>2, <2>2, <2>3, <2>4
<1>13. CASE UNCHANGED vars
  BY <1>1, <1>2, <1>13 DEF vars, Orphaned, There
<1> QED
  BY <1>5, <1>6, <1>7, <1>8, <1>9, <1>10, <1>11, <1>12, <1>13 DEF Next

\* Live processes have different pids, and who has thrown at once has a dead one's.
PidInv ==
  /\ \A p, q \in Procs : Live(p) /\ Live(q) /\ pid[p] = pid[q] => p = q
  /\ \A p \in Procs : pc[p] = "barred" => \E q \in Procs : pc[q] = "dead" /\ pid[q] = pid[p]

\* A live process finds its own pid in the file of a dead one only: a file that a
\* live process has signed is the lock it holds, and it does not poll meanwhile.
LEMMA SelfHoldIsDead ==
  ASSUME TypeOK, PidInv, NEW p \in Procs, Bar(p)
  PROVE  file.maker \in Procs /\ pc[file.maker] = "dead" /\ pid[file.maker] = pid[p]
<1>1. /\ file.maker \in Procs /\ pc[file.maker] \in {"dead", "running"}
      /\ pid[file.maker] = pid[p] /\ pc[p] = "polling"
  BY DEF Bar, SelfHold, There, TypeOK
<1>2. pc[file.maker] = "running" => file.maker = p
  BY <1>1 DEF PidInv, Live
<1> QED BY <1>1, <1>2

\* Every step keeps that: a process that starts gets a pid that no live one has.
LEMMA PidStep == TypeOK /\ PidInv /\ [Next]_vars => PidInv'
<1> SUFFICES ASSUME TypeOK, PidInv, [Next]_vars PROVE PidInv'
  OBVIOUS
<1>1. ASSUME NEW p \in Procs, Start(p) PROVE PidInv'
  BY <1>1 DEF Start, Goto, PidInv, Live, TypeOK
<1>2. ASSUME NEW p \in Procs, Bar(p) PROVE PidInv'
  <2>1. pc' = [pc EXCEPT ![p] = "barred"] /\ pid' = pid /\ pc[p] = "polling"
    BY <1>2 DEF Bar, Goto
  <2>2. file.maker \in Procs /\ pc[file.maker] = "dead" /\ pid[file.maker] = pid[p]
    BY <1>2, SelfHoldIsDead
  <2> QED BY <2>1, <2>2 DEF PidInv, Live, TypeOK
<1>3. ASSUME pid' = pid, NEW p \in Procs, pc[p] \notin {"off", "dead", "gone"},
             NEW where \in {"polling", "created", "evicting", "running", "done",
                            "refused", "dead", "gone"},
             pc' = [pc EXCEPT ![p] = where]
      PROVE  PidInv'
  BY <1>3 DEF PidInv, Live, TypeOK
<1>4. ASSUME NEW p \in Procs,
             Create(p) \/ WritePid(p) \/ Condemn(p) \/ Evict(p) \/ GiveUp(p)
               \/ Release(p) \/ Crash(p) \/ Exit(p)
      PROVE  PidInv'
  BY <1>3, <1>4 DEF Create, WritePid, Condemn, Evict, GiveUp, Release, Crash, Exit, Goto
<1>5. CASE UNCHANGED <<pid, pc>>
  BY <1>5 DEF PidInv, Live
<1>6. ASSUME Elapse \/ UNCHANGED vars \/ \E p \in Procs : Migrate(p)
      PROVE  UNCHANGED <<pid, pc>>
  BY <1>6 DEF Elapse, vars, Migrate
<1> QED BY <1>1, <1>2, <1>4, <1>5, <1>6 DEF Next

\* migration-lock.ts:39, "a crashed holder cannot wedge every future boot".  Whatever
\* the number of openers, one that died with the lock, its pid not written, gone or
\* given to another, costs those that wait the stale threshold and a unit, less than
\* they wait for; who throws without waiting has the pid of a process that died.
THEOREM NobodyIsWedged == Spec => []NotWedged
<1>1. Init => Waits /\ PidInv
  BY MigrationAssumption DEF Init, Waits, Orphaned, There, NoFile, PidInv, Live
<1>2. TypeOK /\ Waits /\ PidInv => NotWedged
  <2> SUFFICES ASSUME TypeOK, Waits, PidInv, NEW p \in Procs
               PROVE  /\ pc[p] = "refused" => crashes > 1 \/ busy > 0
                      /\ pc[p] = "barred" => \E q \in Procs : pc[q] = "dead" /\ pid[q] = pid[p]
    BY DEF NotWedged
  <2>1. pc[p] = "refused" => ~Calm
    BY DEF Waits
  <2>2. crashes \in Nat /\ busy \in Nat
    BY MigrationAssumption DEF TypeOK
  <2>3. pc[p] = "refused" => crashes > 1 \/ busy > 0
    BY <2>1, <2>2 DEF Calm
  <2>4. pc[p] = "barred" => \E q \in Procs : pc[q] = "dead" /\ pid[q] = pid[p]
    BY DEF PidInv
  <2> QED BY <2>3, <2>4
<1> QED BY <1>1, <1>2, WaitsStep, PidStep, Typed, PTL DEF Spec

=============================================================================
