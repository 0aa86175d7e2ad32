---------------------------- MODULE LeaseProofs ----------------------------
(***************************************************************************)
(* TLAPS proofs about Lease, for every set of processes and pids, every    *)
(* bound and both values of PidReuse.  The inductive invariant adds to the *)
(* properties what acquire() knows at each of its statements: a row it     *)
(* read names a process that was started, and a row it is about to remove  *)
(* as stale belongs to a process that is dead, and stays dead.             *)
(***************************************************************************)
EXTENDS Lease, TLAPS

\* A row, in the table or read from it, was inserted by the process it names.
RowOK(r) ==
  /\ life[r.owner] # "unborn"
  /\ r.pid = pidOf[r.owner]
  /\ r.id < issued

BusyAlive == \A p \in Proc : pc[p] # "idle" => life[p] = "alive"

RowsOK ==
  /\ table # NoRow => RowOK(table)
  /\ \A p \in Proc : seen[p] # NoRow => RowOK(seen[p])

\* A lease_id names one lease: the row read and the row with its id in the
\* table have one owner.
IdsUnique ==
  \A p \in Proc : SameLease(table, seen[p]) => table.owner = seen[p].owner

SeenRow ==
  \A p \in Proc :
    /\ pc[p] \in {"inspect", "deleteReleased", "markStale", "deleteStale"}
         => seen[p] # NoRow
    /\ pc[p] \in {"markStale", "deleteStale"} => life[seen[p].owner] = "dead"

LeaseInv ==
  TypeOK /\ BusyAlive /\ RowsOK /\ IdsUnique /\ SeenRow /\ OwnerHasRow

-----------------------------------------------------------------------------
\* The initial table is empty and nothing is running.
LEMMA InitInv == Init => LeaseInv
<1>1. ASSUME Init PROVE TypeOK
  <2>1. (CHOOSE pid \in Pid : TRUE) \in Pid
    BY PidAssumption
  <2> QED BY <1>1, <2>1 DEF Init, TypeOK, Locations
<1>2. ASSUME Init PROVE BusyAlive /\ RowsOK /\ IdsUnique /\ SeenRow /\ OwnerHasRow
  BY <1>2 DEF Init, BusyAlive, RowsOK, IdsUnique, SeenRow, OwnerHasRow, Owners, SameLease
<1> QED BY <1>1, <1>2 DEF LeaseInv
\* Starting a process touches no row, and only an unborn one gets a pid.
LEMMA StartInv == ASSUME LeaseInv, NEW p \in Proc, Start(p) PROVE LeaseInv'
<1> USE NoRowAssumption DEF LeaseInv, Start
<1>1. TypeOK'
  BY DEF TypeOK, Row, Locations
<1>2. BusyAlive'
  BY DEF TypeOK, BusyAlive
<1>3. RowsOK'
  BY DEF TypeOK, RowsOK, RowOK, Row
<1>4. IdsUnique'
  BY DEF TypeOK, RowsOK, RowOK, IdsUnique, SameLease, Row
<1>5. SeenRow'
  BY DEF TypeOK, BusyAlive, RowsOK, RowOK, SeenRow, Row
<1>6. OwnerHasRow'
  BY DEF TypeOK, BusyAlive, RowsOK, RowOK, IdsUnique, SeenRow, OwnerHasRow, Owners, SameLease, Row
<1> QED BY <1>1, <1>2, <1>3, <1>4, <1>5, <1>6

\* A crash leaves the table alone; the owner it may kill stops being one.
LEMMA CrashInv == ASSUME LeaseInv, NEW p \in Proc, Crash(p) PROVE LeaseInv'
<1> USE NoRowAssumption DEF LeaseInv, Crash, Goto
<1>1. TypeOK'
  BY DEF TypeOK, Row, Locations
<1>2. BusyAlive'
  BY DEF TypeOK, BusyAlive
<1>3. RowsOK'
  BY DEF TypeOK, RowsOK, RowOK, Row
<1>4. IdsUnique'
  BY DEF TypeOK, RowsOK, RowOK, IdsUnique, SameLease, Row
<1>5. SeenRow'
  BY DEF TypeOK, BusyAlive, RowsOK, RowOK, SeenRow, Row
<1>6. OwnerHasRow'
  BY DEF TypeOK, BusyAlive, RowsOK, RowOK, IdsUnique, SeenRow, OwnerHasRow, Owners, SameLease, Row
<1> QED BY <1>1, <1>2, <1>3, <1>4, <1>5, <1>6

\* The SELECT copies a row that is in order.
LEMMA ReadLeaseInv == ASSUME LeaseInv, NEW p \in Proc, ReadLease(p) PROVE LeaseInv'
<1> USE NoRowAssumption DEF LeaseInv, ReadLease, Goto
<1>1. TypeOK'
  BY DEF TypeOK, Row, Locations
<1>2. BusyAlive'
  BY DEF TypeOK, BusyAlive
<1>3. RowsOK'
  BY DEF TypeOK, RowsOK, RowOK, Row
<1>4. IdsUnique'
  BY DEF TypeOK, RowsOK, RowOK, IdsUnique, SameLease, Row
<1>5. SeenRow'
  BY DEF TypeOK, BusyAlive, RowsOK, RowOK, SeenRow, Row
<1>6. OwnerHasRow'
  BY DEF TypeOK, BusyAlive, RowsOK, RowOK, IdsUnique, SeenRow, OwnerHasRow, Owners, SameLease, Row
<1> QED BY <1>1, <1>2, <1>3, <1>4, <1>5, <1>6

\* An owner whose pid no live process has is dead.
LEMMA InspectInv == ASSUME LeaseInv, NEW p \in Proc, Inspect(p) PROVE LeaseInv'
<1> USE NoRowAssumption DEF LeaseInv, Inspect, Goto, ProcessDead, Alive
<1>1. TypeOK'
  BY DEF TypeOK, Row, Locations
<1>2. BusyAlive'
  BY DEF TypeOK, BusyAlive
<1>3. RowsOK'
  BY DEF TypeOK, RowsOK, RowOK, Row
<1>4. IdsUnique'
  BY DEF TypeOK, RowsOK, RowOK, IdsUnique, SameLease, Row
<1>5. SeenRow'
  BY DEF TypeOK, BusyAlive, RowsOK, RowOK, SeenRow, Row
<1>6. OwnerHasRow'
  BY DEF TypeOK, BusyAlive, RowsOK, RowOK, IdsUnique, SeenRow, OwnerHasRow, Owners, SameLease, Row
<1> QED BY <1>1, <1>2, <1>3, <1>4, <1>5, <1>6

\* A released row has no owner; a live one removed here sets raced.
LEMMA DeleteReleasedInv == ASSUME LeaseInv, NEW p \in Proc, DeleteReleased(p) PROVE LeaseInv'
<1> USE NoRowAssumption DEF LeaseInv, DeleteReleased, Goto
<1>1. TypeOK'
  BY DEF TypeOK, Row, Locations
<1>2. BusyAlive'
  BY DEF TypeOK, BusyAlive
<1>3. RowsOK'
  BY DEF TypeOK, RowsOK, RowOK, Row
<1>4. IdsUnique'
  BY DEF TypeOK, RowsOK, RowOK, IdsUnique, SameLease, Row
<1>5. SeenRow'
  BY DEF TypeOK, BusyAlive, RowsOK, RowOK, SeenRow, Row
<1>6. OwnerHasRow'
  BY DEF TypeOK, BusyAlive, RowsOK, RowOK, IdsUnique, SeenRow, OwnerHasRow, Owners, SameLease, Row
<1> QED BY <1>1, <1>2, <1>3, <1>4, <1>5, <1>6

\* The row marked is the one that was read, whose owner is dead.
LEMMA MarkStaleInv == ASSUME LeaseInv, NEW p \in Proc, MarkStale(p) PROVE LeaseInv'
<1> USE NoRowAssumption DEF LeaseInv, MarkStale, Goto
<1>1. TypeOK'
  BY DEF TypeOK, Row, Locations, SameLease
<1>2. BusyAlive'
  BY DEF TypeOK, BusyAlive
<1>3. RowsOK'
  BY DEF TypeOK, RowsOK, RowOK, Row, SameLease
<1>4. IdsUnique'
  BY DEF TypeOK, RowsOK, RowOK, IdsUnique, SameLease, Row
<1>5. SeenRow'
  BY DEF TypeOK, BusyAlive, RowsOK, RowOK, SeenRow, Row
<1>6. OwnerHasRow'
  BY DEF TypeOK, BusyAlive, RowsOK, RowOK, IdsUnique, SeenRow, OwnerHasRow, Owners, SameLease, Row
<1> QED BY <1>1, <1>2, <1>3, <1>4, <1>5, <1>6

\* The row removed is the one that was read, whose owner is dead.
LEMMA DeleteStaleInv == ASSUME LeaseInv, NEW p \in Proc, DeleteStale(p) PROVE LeaseInv'
<1> USE NoRowAssumption DEF LeaseInv, DeleteStale, Goto
<1>1. TypeOK'
  BY DEF TypeOK, Row, Locations
<1>2. BusyAlive'
  BY DEF TypeOK, BusyAlive
<1>3. RowsOK'
  BY DEF TypeOK, RowsOK, RowOK, Row
<1>4. IdsUnique'
  BY DEF TypeOK, RowsOK, RowOK, IdsUnique, SameLease, Row
<1>5. SeenRow'
  BY DEF TypeOK, BusyAlive, RowsOK, RowOK, SeenRow, Row
<1>6. OwnerHasRow'
  BY DEF TypeOK, BusyAlive, RowsOK, RowOK, IdsUnique, SeenRow, OwnerHasRow, Owners, SameLease, Row
<1> QED BY <1>1, <1>2, <1>3, <1>4, <1>5, <1>6

\* The row goes in only where there is none, under an id never used.
LEMMA InsertInv == ASSUME LeaseInv, NEW p \in Proc, Insert(p) PROVE LeaseInv'
<1> USE NoRowAssumption DEF LeaseInv, Insert, Goto
<1>row. table = NoRow => table' \in Row
  <2> SUFFICES ASSUME table = NoRow PROVE table' \in Row
    OBVIOUS
  <2>1. pidOf[p] \in Pid /\ issued \in Nat
    BY DEF TypeOK
  <2>2. table' = [id |-> issued, owner |-> p, pid |-> pidOf[p],
                  released |-> FALSE, stale |-> FALSE]
    OBVIOUS
  <2> QED BY ONLY <2>1, <2>2, p \in Proc, FALSE \in BOOLEAN, SMT DEF Row
<1>1. TypeOK'
  BY <1>row DEF TypeOK, Locations
<1>2. BusyAlive'
  BY DEF TypeOK, BusyAlive
<1>3. RowsOK'
  BY DEF TypeOK, RowsOK, RowOK, Row
<1>4. IdsUnique'
  BY DEF TypeOK, RowsOK, RowOK, IdsUnique, SameLease, Row
<1>5. SeenRow'
  BY DEF TypeOK, BusyAlive, RowsOK, RowOK, SeenRow, Row
<1>6. OwnerHasRow'
  <2>1. CASE table # NoRow
    BY <2>1 DEF TypeOK, OwnerHasRow, Owners
  <2>2. CASE table = NoRow
    <3>1. table' # NoRow
      BY ONLY <1>row, <2>2, NoRowAssumption
    <3>2. \A q \in Proc : pc[q] = "owner" => raced
      BY <2>2 DEF OwnerHasRow, Owners
    <3> QED BY <2>2, <3>1, <3>2 DEF TypeOK, OwnerHasRow, Owners
  <2> QED BY <2>1, <2>2
<1> QED BY <1>1, <1>2, <1>3, <1>4, <1>5, <1>6

\* The only owner releases its own row.
LEMMA ReleaseInv == ASSUME LeaseInv, NEW p \in Proc, Release(p) PROVE LeaseInv'
<1> USE NoRowAssumption DEF LeaseInv, Release, Goto
<1>1. TypeOK'
  BY DEF TypeOK, Row, Locations
<1>2. BusyAlive'
  BY DEF TypeOK, BusyAlive
<1>3. RowsOK'
  BY DEF TypeOK, RowsOK, RowOK, Row
<1>4. IdsUnique'
  BY DEF TypeOK, RowsOK, RowOK, IdsUnique, SameLease, Row
<1>5. SeenRow'
  BY DEF TypeOK, BusyAlive, RowsOK, RowOK, SeenRow, Row
<1>6. OwnerHasRow'
  BY DEF TypeOK, BusyAlive, RowsOK, RowOK, IdsUnique, SeenRow, OwnerHasRow, Owners, SameLease, Row
<1> QED BY <1>1, <1>2, <1>3, <1>4, <1>5, <1>6

-----------------------------------------------------------------------------
\* Every step keeps the invariant.
LEMMA NextInv == LeaseInv /\ [Next]_vars => LeaseInv'
<1> SUFFICES ASSUME LeaseInv, [Next]_vars PROVE LeaseInv'
  OBVIOUS
<1>1. CASE UNCHANGED vars
  BY <1>1 DEF vars, LeaseInv, TypeOK, BusyAlive, RowsOK, RowOK, IdsUnique,
     SameLease, SeenRow, OwnerHasRow, Owners
<1>2. ASSUME NEW p \in Proc, Start(p) \/ Crash(p) \/ AcquireStep(p) \/ Release(p)
      PROVE LeaseInv'
  BY <1>2, StartInv, CrashInv, ReadLeaseInv, InspectInv, DeleteReleasedInv,
     MarkStaleInv, DeleteStaleInv, InsertInv, ReleaseInv DEF AcquireStep
<1> QED BY <1>1, <1>2 DEF Next

\* acquire(), release(), crashes and process starts keep LeaseInv in every order.
THEOREM LeaseInvariant == Spec => []LeaseInv
BY InitInv, NextInv, PTL DEF Spec

\* Type correctness of the lease table and of every process's acquire().
THEOREM LeaseTypeOK == Spec => []TypeOK
<1>1. LeaseInv => TypeOK
  BY DEF LeaseInv
<1> QED BY LeaseInvariant, <1>1, PTL

\* lease.ts holdsLease is true of every process acquire() has told it owns the
\* target, as long as no DELETE by target has hit a live lease.
THEOREM LeaseOwnerHasRow == Spec => []OwnerHasRow
<1>1. LeaseInv => OwnerHasRow
  BY DEF LeaseInv
<1> QED BY LeaseInvariant, <1>1, PTL

\* "Two owners must NEVER execute the same workflow concurrently"
\* (service.ts:393) holds of every history without that DELETE.
THEOREM LeaseExclusion == Spec => []ExclusiveUnlessRaced
<1>1. LeaseInv => ExclusiveUnlessRaced
  BY DEF LeaseInv, OwnerHasRow, ExclusiveUnlessRaced, LeaseExclusive, Owners
<1> QED BY LeaseInvariant, <1>1, PTL
=============================================================================
