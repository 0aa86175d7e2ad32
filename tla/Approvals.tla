----------------------------- MODULE Approvals -----------------------------
(***************************************************************************)
(* ApprovalStore (src/src/control/approval-store.ts) over the approvals    *)
(* table (src/src/state/workspace-store.ts), and the ApprovalQueue in      *)
(* front of it (src/src/control/approvals.ts), in several processes that   *)
(* share one SQLite file.                                                  *)
(*                                                                         *)
(* The durable row is the verdict.  Each outstanding promise is a waiter   *)
(* with a TTL timer and a poller of its own; one map per process remembers *)
(* only the newest waiter of an approval.  A process runs its JavaScript   *)
(* without interruption and a write to the row is one transaction, so each *)
(* timer, poll and call is one action.                                     *)
(*                                                                         *)
(* purgeSession() has no caller, and is left out.                          *)
(***************************************************************************)
EXTENDS Naturals, FiniteSets

CONSTANTS
  Procs,        \* processes that share the file
  Approvals,    \* durable approval records
  Waiters,      \* outcome promises, each used once
  MaxCrashes,   \* bound: how many processes crash
  None          \* no waiter, nowhere

ASSUME ApprovalAssumption ==
  /\ None \notin Waiters \cup Approvals \cup Procs \cup {"ttl"} \cup (Procs \X Approvals)
  /\ "ttl" \notin Procs
  /\ MaxCrashes \in Nat

VARIABLES
  row,      \* the decision column: "none" (no row), "pending" (NULL), a verdict
  by,       \* decided_by_channel: the process, or "ttl"
  due,      \* approvals whose requested_at + ttl_ms has passed
  told,     \* what a waiter's promise resolved to; "unused", "waiting", "lost"
  at,       \* a waiter: the process it lives in and the approval it waits for
  origin,   \* made by request() or by waitFor()
  armed,    \* waiters whose timer and poller are set
  reg,      \* waiters/timers/pollers maps: the newest waiter, per process and id
  entry,    \* the ApprovalQueue entry over a waiter: "none", "open", its answer
  closed,   \* processes whose store is closed
  crashes   \* bounded counter

vars == <<row, by, due, told, at, origin, armed, reg, entry, closed, crashes>>

Verdicts == {"approved", "denied", "timed_out"}
Place == Procs \X Approvals

TypeOK ==
  /\ row \in [Approvals -> {"none", "pending"} \cup Verdicts]
  /\ by \in [Approvals -> Procs \cup {"ttl", None}]
  /\ due \subseteq Approvals
  /\ told \in [Waiters -> {"unused", "waiting", "lost"} \cup Verdicts]
  /\ at \in [Waiters -> Place \cup {None}]
  /\ origin \in [Waiters -> {"request", "waitFor", None}]
  /\ armed \subseteq {w \in Waiters : told[w] = "waiting"}
  /\ reg \in [Place -> Waiters \cup {None}]
  /\ entry \in [Waiters -> {"none", "open", "approved", "denied"}]
  /\ closed \subseteq Procs
  /\ crashes \in 0..MaxCrashes

Init ==
  /\ row = [a \in Approvals |-> "none"]
  /\ by = [a \in Approvals |-> None]
  /\ due = {}
  /\ told = [w \in Waiters |-> "unused"]
  /\ at = [w \in Waiters |-> None]
  /\ origin = [w \in Waiters |-> None]
  /\ armed = {}
  /\ reg = [pl \in Place |-> None]
  /\ entry = [w \in Waiters |-> "none"]
  /\ closed = {}
  /\ crashes = 0

-----------------------------------------------------------------------------
Decided(a) == row[a] \in Verdicts

\* cleanup(id): the newest waiter's timer and poller are cleared and it is
\* forgotten; those of an older waiter of the same id are not.
Forgotten(pl) == {reg[pl]} \ {None}

\* The waiters in S hear `verdict`, and the queue entries over them follow: the
\* first answer an entry is given stays.
Hear(S, verdict) ==
  /\ told' = [w \in Waiters |-> IF w \in S THEN verdict ELSE told[w]]
  /\ entry' = [w \in Waiters |->
       IF w \in S /\ entry[w] = "open"
       THEN IF verdict = "approved" THEN "approved" ELSE "denied"
       ELSE entry[w]]

Register(p, a, w, how) ==
  /\ told[w] = "unused"
  /\ at' = [at EXCEPT ![w] = <<p, a>>]
  /\ origin' = [origin EXCEPT ![w] = how]

\* ApprovalStore.request(), with or without a queue entry over it.
Request(p, a, w, queued) ==
  /\ p \notin closed /\ row[a] = "none"
  /\ row' = [row EXCEPT ![a] = "pending"]
  /\ Register(p, a, w, "request")
  /\ told' = [told EXCEPT ![w] = "waiting"]
  /\ armed' = armed \cup {w}
  /\ reg' = [reg EXCEPT ![<<p, a>>] = w]
  /\ entry' = [entry EXCEPT ![w] = IF queued THEN "open" ELSE "none"]
  /\ UNCHANGED <<by, due, closed, crashes>>

\* waitFor(): re-attach to a record that another promise, perhaps of a process
\* that died, was raised for.
WaitForPending(p, a, w) ==
  /\ p \notin closed /\ row[a] = "pending"
  /\ Register(p, a, w, "waitFor")
  /\ told' = [told EXCEPT ![w] = "waiting"]
  /\ armed' = armed \cup {w}
  /\ reg' = [reg EXCEPT ![<<p, a>>] = w]
  /\ UNCHANGED <<row, by, due, entry, closed, crashes>>

WaitForAnswered(p, a, w) ==
  /\ row[a] # "none" /\ (p \in closed \/ Decided(a))
  /\ Register(p, a, w, "waitFor")
  /\ told' = [told EXCEPT ![w] = IF p \in closed THEN "timed_out" ELSE row[a]]
  /\ UNCHANGED <<row, by, due, armed, reg, entry, closed, crashes>>

-----------------------------------------------------------------------------
\* Mutant: the UPDATE does not ask for decision IS NULL.
DecideAgain(p, a, v) ==
  /\ p \notin closed /\ row[a] # "none"
  /\ row' = [row EXCEPT ![a] = v]
  /\ by' = [by EXCEPT ![a] = p]
  /\ Hear(Forgotten(<<p, a>>), v)
  /\ armed' = armed \ Forgotten(<<p, a>>)
  /\ reg' = [reg EXCEPT ![<<p, a>>] = None]
  /\ UNCHANGED <<due, at, origin, closed, crashes>>

\* Mutant: the local waiter is left to its poller.
DecideSilently(p, a, v) ==
  /\ p \notin closed /\ row[a] = "pending"
  /\ row' = [row EXCEPT ![a] = v]
  /\ by' = [by EXCEPT ![a] = p]
  /\ UNCHANGED <<due, told, at, origin, armed, reg, entry, closed, crashes>>

\* decide(): the row only if it is still pending, whatever its deadline; then the
\* newest waiter of this process hears it at once.
Decide(p, a, v) ==
  /\ p \notin closed /\ row[a] = "pending"
  /\ row' = [row EXCEPT ![a] = v]
  /\ by' = [by EXCEPT ![a] = p]
  /\ Hear(Forgotten(<<p, a>>), v)
  /\ armed' = armed \ Forgotten(<<p, a>>)
  /\ reg' = [reg EXCEPT ![<<p, a>>] = None]
  /\ UNCHANGED <<due, at, origin, closed, crashes>>

\* ApprovalQueue.answer() -> entry.resolve(): decide(), and the entry's promise
\* resolves to the local answer whatever decide() returned.
Answer(w, v) ==
  LET p == at[w][1]
      a == at[w][2]
      wins == p \notin closed /\ row[a] = "pending"
      heard == IF wins THEN Forgotten(<<p, a>>) ELSE {}
  IN /\ entry[w] = "open"
     /\ entry' = [entry EXCEPT ![w] = v]
     /\ row' = IF wins THEN [row EXCEPT ![a] = v] ELSE row
     /\ by' = IF wins THEN [by EXCEPT ![a] = p] ELSE by
     /\ told' = [x \in Waiters |-> IF x \in heard THEN v ELSE told[x]]
     /\ armed' = armed \ heard
     /\ reg' = IF wins THEN [reg EXCEPT ![<<p, a>>] = None] ELSE reg
     /\ UNCHANGED <<due, at, origin, closed, crashes>>

\* Mutant: the waiter hears the row without cleanup().
PollNoCleanup(w) ==
  /\ w \in armed /\ at[w][1] \notin closed /\ Decided(at[w][2])
  /\ Hear({w}, row[at[w][2]])
  /\ UNCHANGED <<row, by, due, at, origin, armed, reg, closed, crashes>>

\* The poller sees the row decided: the newest waiter hears it, then its own.
Poll(w) ==
  LET p == at[w][1]
      a == at[w][2]
      heard == {w} \cup Forgotten(<<p, a>>)
  IN /\ w \in armed /\ p \notin closed /\ Decided(a)
     /\ Hear(heard, row[a])
     /\ armed' = armed \ heard
     /\ reg' = [reg EXCEPT ![<<p, a>>] = None]
     /\ UNCHANGED <<row, by, due, at, origin, closed, crashes>>

\* Mutant: the timer settles the waiter only when it expired the row itself.
TimerOnlyIfExpired(w) ==
  LET p == at[w][1]
      a == at[w][2]
  IN /\ w \in armed /\ a \in due /\ p \notin closed /\ row[a] = "pending"
     /\ row' = [row EXCEPT ![a] = "timed_out"]
     /\ by' = [by EXCEPT ![a] = "ttl"]
     /\ Hear({w}, "timed_out")
     /\ armed' = armed \ ({w} \cup Forgotten(<<p, a>>))
     /\ reg' = [reg EXCEPT ![<<p, a>>] = None]
     /\ UNCHANGED <<due, at, origin, closed, crashes>>

\* The TTL timer: expire() sweeps every pending row past its deadline, and the
\* waiter is told.  request()'s timer says timed_out whatever the row says;
\* waitFor()'s reads the row.
Timer(w) ==
  LET p == at[w][1]
      a == at[w][2]
      swept == {b \in due : row[b] = "pending"}
      expires == p \notin closed /\ row[a] = "pending"
      final == IF expires THEN "timed_out" ELSE row[a]
  IN /\ w \in armed /\ a \in due
     /\ row' = IF expires
               THEN [b \in Approvals |-> IF b \in swept THEN "timed_out" ELSE row[b]]
               ELSE row
     /\ by' = IF expires
              THEN [b \in Approvals |-> IF b \in swept THEN "ttl" ELSE by[b]]
              ELSE by
     /\ Hear({w}, IF origin[w] = "waitFor" /\ p \notin closed THEN final ELSE "timed_out")
     /\ armed' = armed \ ({w} \cup Forgotten(<<p, a>>))
     /\ reg' = [reg EXCEPT ![<<p, a>>] = None]
     /\ UNCHANGED <<due, at, origin, closed, crashes>>

-----------------------------------------------------------------------------
Deadline(a) ==
  /\ row[a] # "none" /\ a \notin due
  /\ due' = due \cup {a}
  /\ UNCHANGED <<row, by, told, at, origin, armed, reg, entry, closed, crashes>>

\* The process closes its store on the way out; its timers still run.
Close(p) ==
  /\ p \notin closed
  /\ closed' = closed \cup {p}
  /\ UNCHANGED <<row, by, due, told, at, origin, armed, reg, entry, crashes>>

LivesIn(w, p) == at[w] # None /\ at[w][1] = p

\* The process dies and is started again: its promises are gone, the rows stay.
Crash(p) ==
  /\ crashes < MaxCrashes
  /\ crashes' = crashes + 1
  /\ told' = [w \in Waiters |->
       IF LivesIn(w, p) /\ told[w] = "waiting" THEN "lost" ELSE told[w]]
  /\ entry' = [w \in Waiters |->
       IF LivesIn(w, p) THEN "none" ELSE entry[w]]
  /\ armed' = {w \in armed : ~LivesIn(w, p)}
  /\ reg' = [pl \in Place |-> IF pl[1] = p THEN None ELSE reg[pl]]
  /\ closed' = closed \ {p}
  /\ UNCHANGED <<row, by, due, at, origin>>

Next ==
  \/ \E w \in Waiters :
       \/ Poll(w) \/ Timer(w)
       \/ \E v \in {"approved", "denied"} : Answer(w, v)
  \/ \E p \in Procs :
       \/ Close(p) \/ Crash(p)
       \/ \E a \in Approvals :
            \/ \E v \in {"approved", "denied"} : Decide(p, a, v)
            \/ \E w \in Waiters :
                 \/ \E queued \in BOOLEAN : Request(p, a, w, queued)
                 \/ WaitForPending(p, a, w)
                 \/ WaitForAnswered(p, a, w)
  \/ \E a \in Approvals : Deadline(a)

Spec == Init /\ [][Next]_vars

\* Time passes and a timer that is set fires; nobody is obliged to answer, and the
\* poller may be late.
Fairness ==
  /\ \A a \in Approvals : WF_vars(Deadline(a))
  /\ \A w \in Waiters : WF_vars(Timer(w))
LiveSpec == Spec /\ Fairness

-----------------------------------------------------------------------------
\* Every process hears only recorded verdicts, or that its time is up, and a
\* recorded verdict never changes: the store implements Consent.
Promise ==
  INSTANCE Consent WITH
    Questions <- Approvals, Askers <- Waiters, verdict <- row, heard <- told,
    asks <- [w \in Waiters |-> IF at[w] = None THEN None ELSE at[w][2]]
ImplementsConsent == Promise!Spec

Displaced(w) == \E v \in Waiters \ {w} : at[v] = at[w]

\* approval-store.ts:259: a promise never hangs.  It holds of a waiter that is the
\* only one of its process for that approval; the timer of an older one clears
\* the timer of the newest.
AlwaysSettles ==
  \A w \in Waiters : told[w] = "waiting" ~> told[w] # "waiting" \/ Displaced(w)

\* Whoever goes ahead on a queue entry although the row says no, was outpaced by
\* another process or by the deadline; within one process that has its store and
\* waits once the first answer wins.
QueueFollowsRow ==
  \A w \in Waiters : entry[w] = "approved" =>
    LET a == at[w][2]
    IN \/ row[a] = "approved"
       \/ by[a] \in (Procs \cup {"ttl"}) \ {at[w][1]}
       \/ at[w][1] \in closed \/ Displaced(w)

\* approvals.ts:120: the first writer wins, whichever process it is.  The queue
\* breaks it: it does not look at what decide() returned.
FirstWriterWins ==
  \A w \in Waiters : entry[w] = "approved" =>
    row[at[w][2]] \notin {"denied", "timed_out"}
=============================================================================
