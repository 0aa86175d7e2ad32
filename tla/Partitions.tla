----------------------------- MODULE Partitions -----------------------------
(***************************************************************************)
(* The budget of a delegated tree: PartitionRepo                           *)
(* (src/src/state/repos/partition-repo.ts), the CostGovernor of each       *)
(* worker over it (src/src/cost/governor.ts), and the funding of the       *)
(* workflow (src/src/services/multi-agent-orchestration.ts).               *)
(*                                                                         *)
(* One root envelope is cut into one partition per task.  A worker settles *)
(* its last step and asks for the next in one stretch of JavaScript, and   *)
(* each ledger operation is one write transaction; what a step really uses *)
(* is known when the provider answers, and is kept in memory until it is   *)
(* settled.  What the governor refuses before it asks the ledger (the      *)
(* task's own ceilings, the monthly cap) is a Settle that goes no further; *)
(* what the ledger refuses has also swept the stale rows.                  *)
(*                                                                         *)
(* The consumption of the root row, which nothing reads, and close() and   *)
(* release(), which nothing calls, are left out.                           *)
(***************************************************************************)
EXTENDS Integers, FiniteSetsExt, SequencesExt

CONSTANTS
  Children,   \* task ids, each the child of one partition
  Weight,     \* the role weight of a task
  RootCaps,   \* ceilings a workflow may be opened with; 0 is no ceiling
  Floor,      \* the smallest partition
  Estimates,  \* what a step may be estimated at
  Uses,       \* what a step may really use
  MaxOver,    \* bound: how far a step may exceed its estimate
  Res,        \* bound: partition_reservations rows in use at once
  MaxAged,    \* bound: reservations that outlive the TTL
  MaxCrashes, \* bound
  None        \* no row

Dims == {"usd", "tok"}
Amount == [Dims -> Nat]
Zero == [d \in Dims |-> 0]
Plus(x, y) == [d \in Dims |-> x[d] + y[d]]

ASSUME PartitionAssumption ==
  /\ Weight \in [Children -> Nat \ {0}]
  /\ RootCaps \subseteq Amount /\ Estimates \subseteq Amount
  /\ Uses \subseteq Amount \ {Zero} /\ Floor \in Amount
  /\ MaxOver \in Nat /\ MaxAged \in Nat /\ MaxCrashes \in Nat
  /\ IsFiniteSet(Children) /\ IsFiniteSet(Res) /\ None \notin Res \cup Children \cup Amount

VARIABLES
  root,    \* the cap of the root envelope
  cap,     \* the cap of each partition
  spent,   \* its settled consumption
  res,     \* the child and the estimate of each reservation row
  active,  \* rows whose status is 'active'
  old,     \* active rows older than the TTL
  running, \* the workflow is being executed
  open,    \* the row a worker's governor has to settle
  since,   \* what its meter moved since that row was admitted
  real,    \* history: what the provider charged a child
  lost,    \* history: a charge will never be settled, or its row has expired
  aged, crashes

ledger == <<root, cap, spent, res, active, old>>
vars == <<ledger, running, open, since, real, lost, aged, crashes>>

TypeOK ==
  /\ root \in Amount \cup {None}
  /\ cap \in [Children -> Amount \cup {None}]
  /\ spent \in [Children -> Amount] /\ real \in [Children -> Amount]
  /\ since \in [Children -> Amount]
  /\ res \in [Res -> [child : Children \cup {None}, est : Amount]]
  /\ old \subseteq active /\ active \subseteq Res
  /\ \A r \in active : res[r].child # None
  /\ open \in [Children -> Res \cup {None}]
  /\ \A c \in Children : /\ open[c] # None => running /\ res[open[c]].child = c
                         /\ open[c] = None => since[c] = Zero
  /\ running \in BOOLEAN /\ lost \in BOOLEAN
  /\ aged \in 0..MaxAged /\ crashes \in 0..MaxCrashes

Init ==
  /\ root = None
  /\ cap = [c \in Children |-> None]
  /\ spent = [c \in Children |-> Zero] /\ real = [c \in Children |-> Zero]
  /\ res = [r \in Res |-> [child |-> None, est |-> Zero]]
  /\ active = {} /\ old = {}
  /\ running = FALSE
  /\ open = [c \in Children |-> None] /\ since = [c \in Children |-> Zero]
  /\ lost = FALSE
  /\ aged = 0 /\ crashes = 0

-----------------------------------------------------------------------------
Cut == {c \in Children : cap[c] # None}
CapSum(caps, d) == SumFunction([c \in {x \in Children : caps[x] # None} |-> caps[c][d]])
Total(f, d) == SumFunction([c \in Children |-> f[c][d]])

\* Mutant: the partitions made earlier are not counted.
HeadroomOfRoot(top, d) == top[d]

\* What is left of root cap `top` in dimension d to cut partitions from.
Headroom(top, d) == top[d] - CapSum(cap, d)

\* The share by weight of task c, one of the tasks `new`, in dimension d.
Share(top, new, c, d) ==
  (Headroom(top, d) * Weight[c]) \div SumFunction([x \in new |-> Weight[x]])

\* A share below the floor is lifted to it if the running total allows the floor.
Lifted(top, new, run, c, d) ==
  /\ Share(top, new, c, d) < Floor[d]
  /\ run[d] + Floor[d] <= Headroom(top, d)

\* A task that cannot have the floor in dollars is denied; in tokens it gets what is
\* left.
Affordable(top, new, run, c) ==
  \/ top["usd"] = 0
  \/ Share(top, new, c, "usd") >= Floor["usd"]
  \/ Lifted(top, new, run, c, "usd")

Portion(top, new, run, c) ==
  [d \in Dims |->
     CASE top[d] = 0 -> 0
       [] top[d] # 0 /\ Share(top, new, c, d) >= Floor[d] -> Share(top, new, c, d)
       [] top[d] # 0 /\ Lifted(top, new, run, c, d) -> Floor[d]
       [] OTHER -> Max({0, Headroom(top, d) - run[d]})]

CutNext(acc, top, new, c) ==
  IF c \notin new \/ ~Affordable(top, new, acc.run, c) THEN acc
  ELSE LET x == Portion(top, new, acc.run, c)
       IN [run |-> Plus(acc.run, x), caps |-> [acc.caps EXCEPT ![c] = x]]

\* partition(): every task without a partition gets its share of the headroom, one
\* after the other.
Slice(top, tasks) ==
  LET new == {c \in ToSet(tasks) : cap[c] = None}
      after[i \in 0..Len(tasks)] ==
        IF i = 0 THEN [run |-> Zero, caps |-> cap]
        ELSE CutNext(after[i - 1], top, new, tasks[i])
  IN after[Len(tasks)].caps

\* fundWorkflow(): the root is opened once, the partitions are cut, and a workflow
\* with an unfunded task does not run.  On a resume, perhaps with tasks that a plan
\* edit added, the old rows stay as they are.
Fund(top, tasks) ==
  LET first == root = None
      ceiling == IF first THEN top ELSE root
      caps == Slice(ceiling, tasks)
  IN /\ ~running
     /\ root' = ceiling
     /\ cap' = caps
     /\ running' = (\A c \in ToSet(tasks) : caps[c] # None)
     /\ UNCHANGED <<spent, res, active, old, open, since, real, lost, aged, crashes>>

-----------------------------------------------------------------------------
\* commit() moves what the meter counted since the admission into the ledger, but
\* only if the row is still active.
Settles(c) == open[c] # None /\ open[c] \in active
SpentAfter(c) == IF Settles(c) THEN [spent EXCEPT ![c] = Plus(@, since[c])] ELSE spent

\* Mutant: the end of a run forgets the reservation instead of settling it.
SettleForgets(c) ==
  /\ open[c] # None
  /\ active' = active \ {open[c]} /\ old' = old \ {open[c]}
  /\ open' = [open EXCEPT ![c] = None]
  /\ since' = [since EXCEPT ![c] = Zero]
  /\ UNCHANGED <<root, cap, spent, res, running, real, lost, aged, crashes>>

\* The row of c is settled, if it has one.
Settled(c) ==
  /\ spent' = SpentAfter(c)
  /\ open' = [open EXCEPT ![c] = None]
  /\ since' = [since EXCEPT ![c] = Zero]
  /\ UNCHANGED <<root, cap, res, running, real, aged, crashes>>

\* settleOpenReservation(): before the governor refuses by itself, a change of
\* prices, or the end of the run.
Settle(c) ==
  /\ open[c] # None
  /\ Settled(c)
  /\ active' = active \ {open[c]} /\ old' = old \ {open[c]}
  /\ UNCHANGED lost

\* The ledger, once c has settled and the stale rows are swept: a swept row that
\* another worker has still to settle is a charge that will not count.
InFlight(c) == active \ (old \cup {open[c]})
Sweeps(c) == lost' = (lost \/ \E x \in Children \ {c} : open[x] \in old)
Reserved(rows, d) == SumFunction([r \in rows |-> res[r].est[d]])

Within(limit, used) == limit = 0 \/ used <= limit

\* Mutant: the other workers' steps in flight are not counted against the root.
AdmissibleAlone(c, est) ==
  \A d \in Dims :
    LET mine == {r \in InFlight(c) : res[r].child = c}
    IN /\ Within(cap[c][d], SpentAfter(c)[c][d] + Reserved(mine, d) + est[d])
       /\ Within(root[d], Total(SpentAfter(c), d) + Reserved(mine, d) + est[d])

\* admit(): the partition's ceiling and the root's, each against what is settled
\* and what is in flight.
Admissible(c, est) ==
  \A d \in Dims :
    LET rows == InFlight(c)
        mine == {r \in rows : res[r].child = c}
    IN /\ Within(cap[c][d], SpentAfter(c)[c][d] + Reserved(mine, d) + est[d])
       /\ Within(root[d], Total(SpentAfter(c), d) + Reserved(rows, d) + est[d])

Free == {r \in Res \ active : \A c \in Children : open[c] # r}

\* checkBeforeStep() that is allowed: settle, sweep, reserve.
Admit(c, est) ==
  LET r == CHOOSE x \in Free : TRUE
  IN /\ running /\ cap[c] # None /\ Free # {}
     /\ Admissible(c, est)
     /\ spent' = SpentAfter(c)
     /\ Sweeps(c)
     /\ res' = [res EXCEPT ![r] = [child |-> c, est |-> est]]
     /\ active' = InFlight(c) \cup {r} /\ old' = {}
     /\ open' = [open EXCEPT ![c] = r]
     /\ since' = [since EXCEPT ![c] = Zero]
     /\ UNCHANGED <<root, cap, running, real, aged, crashes>>

\* checkBeforeStep() that the ledger refuses: the settlement and the sweep stay.
Refuse(c, est) ==
  /\ running /\ cap[c] # None
  /\ ~Admissible(c, est)
  /\ Settled(c) /\ Sweeps(c)
  /\ active' = InFlight(c) /\ old' = {}

\* The provider answers: record().
Answer(c, use) ==
  /\ open[c] # None /\ since[c] = Zero
  /\ \A d \in Dims : use[d] <= res[open[c]].est[d] + MaxOver
  /\ since' = [since EXCEPT ![c] = use]
  /\ real' = [real EXCEPT ![c] = Plus(@, use)]
  /\ UNCHANGED <<ledger, running, open, lost, aged, crashes>>

\* The last worker is done: the workflow has ended, and may be resumed.
Finish ==
  /\ running /\ \A c \in Children : open[c] = None
  /\ running' = FALSE
  /\ UNCHANGED <<ledger, open, since, real, lost, aged, crashes>>

\* A step takes longer than the TTL.
Age(r) ==
  /\ r \in active \ old
  /\ aged < MaxAged /\ aged' = aged + 1
  /\ old' = old \cup {r}
  /\ UNCHANGED <<root, cap, spent, res, active, running, open, since, real, lost, crashes>>

\* The process dies: the meters are gone, the rows stay active.
Crash ==
  /\ running
  /\ crashes < MaxCrashes /\ crashes' = crashes + 1
  /\ running' = FALSE
  /\ lost' = (lost \/ \E c \in Children : since[c] # Zero)
  /\ open' = [c \in Children |-> None] /\ since' = [c \in Children |-> Zero]
  /\ UNCHANGED <<ledger, real, aged>>

Next ==
  \/ \E top \in RootCaps, S \in SUBSET Children :
       \E tasks \in SetToSeqs(S) : S # {} /\ Fund(top, tasks)
  \/ \E c \in Children :
       \/ Settle(c)
       \/ \E est \in Estimates : Admit(c, est) \/ Refuse(c, est)
       \/ \E use \in Uses : Answer(c, use)
  \/ \E r \in Res : Age(r)
  \/ Finish
  \/ Crash

Spec == Init /\ [][Next]_vars

-----------------------------------------------------------------------------
\* The ledger never charges more than the provider did, and when no process died
\* between an answer and its settlement, and no step outlived the TTL, it misses
\* only what a worker has not settled yet.
LedgerHonest ==
  \A c \in Children, d \in Dims :
    /\ spent[c][d] + since[c][d] <= real[c][d]
    /\ ~lost => spent[c][d] + since[c][d] = real[c][d]

\* partitions.test.ts:4: a workflow spends at most its root envelope and what
\* steps in flight exceed their estimates by: one step for each worker, not one.
WithinEnvelope ==
  ~lost /\ root # None =>
    \A d \in Dims :
      /\ root[d] > 0 => Total(real, d) <= root[d] + Cardinality(Children) * MaxOver
      /\ \A c \in Cut : cap[c][d] > 0 => real[c][d] <= cap[c][d] + MaxOver

\* partition-repo.ts:17: the partitions do not add up to more than the root.  It
\* holds only while no task was lifted to the floor, the lifted ones being checked
\* against the shares handed out before them, and not the later ones.
CapsFit ==
  root # None => \A d \in Dims :
    \/ root[d] = 0
    \/ CapSum(cap, d) <= root[d]
    \/ \E c \in Cut : cap[c][d] = Floor[d]
=============================================================================
