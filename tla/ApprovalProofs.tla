--------------------------- MODULE ApprovalProofs ---------------------------
(***************************************************************************)
(* For any number of processes, approvals and waits: the approval store    *)
(* implements Consent, so nobody hears a yes that is not recorded, and a   *)
(* recorded verdict is final.                                              *)
(***************************************************************************)
EXTENDS Approvals, TLAPS

\* A promise is used when it waits somewhere, and what it waits for was asked.
Placed ==
  \A w \in Waiters :
    /\ told[w] = "unused" <=> at[w] = None
    /\ entry[w] = "open" => at[w] # None
    /\ at[w] # None => row[at[w][2]] # "none"

\* The maps of a process name a wait of its own that is not over.
Registered ==
  \A pl \in Place : reg[pl] # None => told[reg[pl]] = "waiting" /\ at[reg[pl]] = pl

PInv == TypeOK /\ Placed /\ Registered

-----------------------------------------------------------------------------
\* Nothing is asked and nobody waits at first.
LEMMA InitPInv == Init => PInv
<1> USE ApprovalAssumption DEF Place
<1> SUFFICES ASSUME Init PROVE PInv
  OBVIOUS
<1>1. TypeOK
  BY DEF Init, TypeOK, Verdicts
<1>2. Placed /\ Registered
  BY DEF Init, Placed, Registered
<1> QED BY <1>1, <1>2 DEF PInv

\* The waits that hear an answer together are waits for it: the one whose timer or
\* poller runs, and the newest of its process.
LEMMA HeardWait ==
  ASSUME PInv, NEW p \in Procs, NEW a \in Approvals, NEW w \in Forgotten(<<p, a>>)
  PROVE  w \in Waiters /\ told[w] = "waiting" /\ at[w] = <<p, a>>
<1>1. <<p, a>> \in Place
  BY DEF Place
<1> QED BY <1>1 DEF PInv, TypeOK, Registered, Forgotten

\* A wait whose timer is set is going on, somewhere, for a question that was put.
LEMMA ArmedWait ==
  ASSUME PInv, NEW w \in armed
  PROVE  /\ w \in Waiters /\ told[w] = "waiting"
         /\ at[w] \in Place /\ at[w][1] \in Procs /\ at[w][2] \in Approvals
         /\ at[w] = <<at[w][1], at[w][2]>> /\ row[at[w][2]] # "none"
<1>1. w \in Waiters /\ told[w] = "waiting"
  BY DEF PInv, TypeOK
<1>2. at[w] # None /\ at[w] \in Place
  BY <1>1 DEF PInv, TypeOK, Placed
<1> QED BY <1>1, <1>2 DEF PInv, Placed, Place

-----------------------------------------------------------------------------
\* Every action keeps the maps and the promises in step.
LEMMA RequestKeeps ==
  ASSUME PInv, NEW p \in Procs, NEW a \in Approvals, NEW w \in Waiters,
         NEW queued \in BOOLEAN, Request(p, a, w, queued)
  PROVE  PInv'
<1> USE ApprovalAssumption DEF Place
<1>1. <<p, a>> \in Place /\ <<p, a>> # None
  OBVIOUS
<1>2. TypeOK'
  BY <1>1 DEF PInv, TypeOK, Request, Register, Verdicts
<1>3. Placed'
  BY <1>1 DEF PInv, TypeOK, Placed, Request, Register, Verdicts
<1>4. Registered'
  BY <1>1 DEF PInv, TypeOK, Placed, Registered, Request, Register, Verdicts
<1> QED BY <1>2, <1>3, <1>4 DEF PInv

\* A new wait for a row that is there: pending, answered, or out of reach.
LEMMA WaitForKeeps ==
  ASSUME PInv, NEW p \in Procs, NEW a \in Approvals, NEW w \in Waiters,
         WaitForPending(p, a, w) \/ WaitForAnswered(p, a, w)
  PROVE  PInv'
<1> USE ApprovalAssumption DEF Place, Register
<1>1. <<p, a>> \in Place /\ <<p, a>> # None
  OBVIOUS
<1>2. CASE WaitForPending(p, a, w)
  <2>1. TypeOK'
    BY <1>1, <1>2 DEF PInv, TypeOK, WaitForPending, Verdicts
  <2>2. Placed'
    BY <1>1, <1>2 DEF PInv, TypeOK, Placed, WaitForPending, Verdicts
  <2>3. Registered'
    BY <1>1, <1>2 DEF PInv, TypeOK, Placed, Registered, WaitForPending, Verdicts
  <2> QED BY <2>1, <2>2, <2>3 DEF PInv
<1>3. CASE WaitForAnswered(p, a, w)
  <2>1. row[a] \in Verdicts \/ p \in closed
    BY <1>3 DEF WaitForAnswered, Decided
  <2>2. told' = [told EXCEPT ![w] = told'[w]] /\ told'[w] \in Verdicts
    BY <1>3, <2>1 DEF PInv, TypeOK, WaitForAnswered, Verdicts
  <2>3. TypeOK'
    BY <1>1, <1>3, <2>2 DEF PInv, TypeOK, WaitForAnswered, Verdicts
  <2>4. Placed'
    BY <1>1, <1>3, <2>2 DEF PInv, TypeOK, Placed, WaitForAnswered, Verdicts
  <2>5. Registered'
    BY <1>1, <1>3, <2>2 DEF PInv, TypeOK, Placed, Registered, WaitForAnswered, Verdicts
  <2> QED BY <2>3, <2>4, <2>5 DEF PInv
<1> QED BY <1>2, <1>3

-----------------------------------------------------------------------------
\* What decide(), an answer, a poll and a timer have in common: a pending row may
\* get its verdict, the waits of S for pl hear it or that their time is up, and
\* none of them is armed or registered any more.
Settling(S, pl) ==
  /\ S \subseteq Waiters /\ pl \in Place
  /\ \A w \in S : at[w] = pl /\ told[w] = "waiting"
  /\ row' \in [Approvals -> {"none", "pending"} \cup Verdicts]
  /\ \A a \in Approvals : row'[a] = row[a] \/ (row[a] = "pending" /\ row'[a] \in Verdicts)
  /\ by' \in [Approvals -> Procs \cup {"ttl", None}]
  /\ told' = [w \in Waiters |-> IF w \in S THEN told'[w] ELSE told[w]]
  /\ \A w \in S : told'[w] \in {"timed_out"} \cup ({row'[pl[2]]} \cap Verdicts)
  /\ entry' \in [Waiters -> {"none", "open", "approved", "denied"}]
  /\ \A w \in Waiters : entry'[w] = "open" => entry[w] = "open"
  /\ armed' \subseteq armed \ S
  /\ reg' = [reg EXCEPT ![pl] = None]
  /\ UNCHANGED <<at, origin, closed, crashes, due>>

\* A settling step keeps the maps and the promises in step.
LEMMA SettlingKeeps ==
  ASSUME PInv, NEW S, NEW pl, Settling(S, pl)
  PROVE  PInv'
<1> USE ApprovalAssumption DEF Settling
<1>1. told' \in [Waiters -> {"unused", "waiting", "lost"} \cup Verdicts]
  BY DEF PInv, TypeOK, Verdicts
<1>2. armed' \subseteq {w \in Waiters : told'[w] = "waiting"}
  BY DEF PInv, TypeOK
<1>3. TypeOK'
  BY <1>1, <1>2 DEF PInv, TypeOK, Place
<1>4. Placed'
  <2> SUFFICES ASSUME NEW w \in Waiters
               PROVE  /\ told'[w] = "unused" <=> at[w] = None
                      /\ entry'[w] = "open" => at[w] # None
                      /\ at[w] # None => row'[at[w][2]] # "none"
    BY DEF Placed
  <2>1. told'[w] = "unused" <=> told[w] = "unused"
    BY DEF Verdicts
  <2>2. at[w] # None => row'[at[w][2]] # "none"
    <3> SUFFICES ASSUME at[w] # None PROVE row'[at[w][2]] # "none"
      OBVIOUS
    <3>1. at[w][2] \in Approvals /\ row[at[w][2]] # "none"
      BY DEF PInv, TypeOK, Placed, Place
    <3> QED BY <3>1 DEF Verdicts
  <2> QED BY <2>1, <2>2 DEF PInv, Placed
<1>5. Registered'
  <2> SUFFICES ASSUME NEW x \in Place, reg'[x] # None
               PROVE  told'[reg'[x]] = "waiting" /\ at[reg'[x]] = x
    BY DEF Registered
  <2>1. x # pl /\ reg'[x] = reg[x]
    BY DEF PInv, TypeOK
  <2>2. reg[x] \in Waiters /\ told[reg[x]] = "waiting" /\ at[reg[x]] = x
    BY <2>1 DEF PInv, TypeOK, Registered
  <2> QED BY <2>1, <2>2
<1> QED BY <1>3, <1>4, <1>5 DEF PInv

-----------------------------------------------------------------------------
\* decide() settles the newest wait of its process.
LEMMA DecideSettles ==
  ASSUME PInv, NEW p \in Procs, NEW a \in Approvals, NEW v \in {"approved", "denied"},
         Decide(p, a, v)
  PROVE  Settling(Forgotten(<<p, a>>), <<p, a>>)
<1>1. \A w \in Forgotten(<<p, a>>) : w \in Waiters /\ told[w] = "waiting" /\ at[w] = <<p, a>>
  BY HeardWait
<1>2. row' \in [Approvals -> {"none", "pending"} \cup Verdicts] /\ row'[a] = v
  BY DEF Decide, PInv, TypeOK, Verdicts
<1>3. entry' \in [Waiters -> {"none", "open", "approved", "denied"}]
      /\ \A w \in Waiters : entry'[w] = "open" => entry[w] = "open"
  BY DEF Decide, Hear, PInv, TypeOK
<1>4. told' = [w \in Waiters |-> IF w \in Forgotten(<<p, a>>) THEN v ELSE told[w]]
  BY DEF Decide, Hear
<1>5. by' \in [Approvals -> Procs \cup {"ttl", None}]
  BY DEF Decide, PInv, TypeOK
<1> QED BY <1>1, <1>2, <1>3, <1>4, <1>5 DEF Settling, Decide, Place, Verdicts, PInv, TypeOK

\* So does the answer of a queue entry, when its decide() wins; when it does not,
\* nobody hears anything.
LEMMA AnswerKeeps ==
  ASSUME PInv, NEW w \in Waiters, NEW v \in {"approved", "denied"}, Answer(w, v)
  PROVE  \/ Settling(Forgotten(at[w]), at[w])
         \/ /\ entry' = [entry EXCEPT ![w] = v]
            /\ UNCHANGED <<row, by, due, told, at, origin, armed, reg, closed, crashes>>
<1> DEFINE p == at[w][1]
           a == at[w][2]
           wins == p \notin closed /\ row[a] = "pending"
<1>1. at[w] \in Place /\ p \in Procs /\ a \in Approvals /\ at[w] = <<p, a>>
  BY DEF Answer, PInv, TypeOK, Placed, Place
<1>2. entry' = [entry EXCEPT ![w] = v]
  BY DEF Answer
<1>3. CASE wins
  <2>1. \A x \in Forgotten(<<p, a>>) : x \in Waiters /\ told[x] = "waiting" /\ at[x] = <<p, a>>
    BY <1>1, HeardWait
  <2>2. /\ row' = [row EXCEPT ![a] = v] /\ by' = [by EXCEPT ![a] = p]
        /\ told' = [x \in Waiters |-> IF x \in Forgotten(<<p, a>>) THEN v ELSE told[x]]
        /\ armed' = armed \ Forgotten(<<p, a>>)
        /\ reg' = [reg EXCEPT ![<<p, a>>] = None]
        /\ UNCHANGED <<due, at, origin, closed, crashes>>
    BY <1>3 DEF Answer
  <2>3. row' \in [Approvals -> {"none", "pending"} \cup Verdicts] /\ row'[a] = v
    BY <1>1, <2>2 DEF PInv, TypeOK, Verdicts
  <2>4. entry' \in [Waiters -> {"none", "open", "approved", "denied"}]
        /\ \A x \in Waiters : entry'[x] = "open" => entry[x] = "open"
    BY <1>2 DEF PInv, TypeOK
  <2>5. by' \in [Approvals -> Procs \cup {"ttl", None}]
    BY <1>1, <2>2 DEF PInv, TypeOK
  <2>6. Settling(Forgotten(<<p, a>>), <<p, a>>)
    BY <1>1, <1>3, <2>1, <2>2, <2>3, <2>4, <2>5 DEF Settling, Place, Verdicts, PInv, TypeOK
  <2> QED BY <1>1, <2>6
<1>4. CASE ~wins
  <2>1. UNCHANGED <<row, by, due, at, origin, reg, closed, crashes>> /\ armed' = armed
    BY <1>4 DEF Answer
  <2>2. told' = [x \in Waiters |-> IF x \in {} THEN v ELSE told[x]]
    BY <1>4 DEF Answer
  <2>3. told' = told
    BY <2>2 DEF PInv, TypeOK
  <2> QED BY <1>2, <2>1, <2>3
<1> QED BY <1>3, <1>4

\* A poll that sees the verdict settles the newest wait, and then its own.
LEMMA PollSettles ==
  ASSUME PInv, NEW w \in Waiters, Poll(w)
  PROVE  Settling({w} \cup Forgotten(at[w]), at[w])
<1> DEFINE p == at[w][1]
           a == at[w][2]
           S == {w} \cup Forgotten(<<p, a>>)
<1>1. /\ w \in armed /\ told[w] = "waiting" /\ at[w] = <<p, a>>
      /\ p \in Procs /\ a \in Approvals
  BY ArmedWait DEF Poll
<1>2. \A x \in S : x \in Waiters /\ told[x] = "waiting" /\ at[x] = <<p, a>>
  BY <1>1, HeardWait
<1>3. /\ row[a] \in Verdicts /\ armed' = armed \ S
      /\ reg' = [reg EXCEPT ![<<p, a>>] = None]
      /\ told' = [x \in Waiters |-> IF x \in S THEN row[a] ELSE told[x]]
      /\ UNCHANGED <<row, by, due, at, origin, closed, crashes>>
  BY DEF Poll, Decided, Hear
<1>4. /\ entry' \in [Waiters -> {"none", "open", "approved", "denied"}]
      /\ \A x \in Waiters : entry'[x] = "open" => entry[x] = "open"
  BY DEF Poll, Hear, PInv, TypeOK
<1>5. Settling(S, <<p, a>>)
  BY <1>1, <1>2, <1>3, <1>4 DEF Settling, Place, Verdicts, PInv, TypeOK
<1> QED BY <1>1, <1>5

\* A timer settles its own wait: with timed_out, or with a row that is no longer
\* pending.
LEMMA TimerSettles ==
  ASSUME PInv, NEW w \in Waiters, Timer(w)
  PROVE  Settling({w}, at[w])
<1> DEFINE p == at[w][1]
           a == at[w][2]
           swept == {b \in due : row[b] = "pending"}
           expires == p \notin closed /\ row[a] = "pending"
           says == IF origin[w] = "waitFor" /\ p \notin closed
                   THEN IF expires THEN "timed_out" ELSE row[a]
                   ELSE "timed_out"
<1>1. /\ w \in armed /\ told[w] = "waiting" /\ at[w] = <<p, a>> /\ a \in due
      /\ p \in Procs /\ a \in Approvals /\ row[a] # "none"
  BY ArmedWait DEF Timer
<1>2. /\ armed' \subseteq armed \ {w}
      /\ reg' = [reg EXCEPT ![<<p, a>>] = None]
      /\ told' = [x \in Waiters |-> IF x \in {w} THEN says ELSE told[x]]
      /\ UNCHANGED <<due, at, origin, closed, crashes>>
  BY DEF Timer, Hear
<1>3. /\ entry' \in [Waiters -> {"none", "open", "approved", "denied"}]
      /\ \A x \in Waiters : entry'[x] = "open" => entry[x] = "open"
  BY DEF Timer, Hear, PInv, TypeOK
<1>4. /\ row' = IF expires
                THEN [b \in Approvals |-> IF b \in swept THEN "timed_out" ELSE row[b]]
                ELSE row
      /\ by' = IF expires
               THEN [b \in Approvals |-> IF b \in swept THEN "ttl" ELSE by[b]]
               ELSE by
  BY DEF Timer
<1>5. /\ row' \in [Approvals -> {"none", "pending"} \cup Verdicts]
      /\ by' \in [Approvals -> Procs \cup {"ttl", None}]
      /\ \A b \in Approvals : \/ row'[b] = row[b]
                              \/ row[b] = "pending" /\ row'[b] = "timed_out"
  BY <1>4 DEF PInv, TypeOK, Verdicts
<1>6. says \in {"timed_out"} \cup ({row'[a]} \cap Verdicts)
  BY <1>1, <1>4 DEF PInv, TypeOK, Verdicts
<1>7. told'[w] = says
  BY <1>2
<1>8. Settling({w}, <<p, a>>)
  BY <1>1, <1>2, <1>3, <1>5, <1>6, <1>7 DEF Settling, Place, Verdicts, PInv, TypeOK
<1> QED BY <1>1, <1>8

-----------------------------------------------------------------------------
\* A crash loses the waits of its process, and a restart has empty maps.
LEMMA CrashKeeps ==
  ASSUME PInv, NEW p \in Procs, Crash(p)
  PROVE  PInv'
<1> USE ApprovalAssumption DEF Crash, LivesIn
<1>1. TypeOK'
  BY DEF PInv, TypeOK, Place
<1>2. Placed'
  BY DEF PInv, TypeOK, Placed, Place
<1>3. Registered'
  <2> SUFFICES ASSUME NEW pl \in Place, reg'[pl] # None
               PROVE  told'[reg'[pl]] = "waiting" /\ at[reg'[pl]] = pl
    BY DEF Registered
  <2>1. pl[1] # p /\ reg'[pl] = reg[pl]
    OBVIOUS
  <2>2. reg[pl] \in Waiters /\ told[reg[pl]] = "waiting" /\ at[reg[pl]] = pl
    BY <2>1 DEF PInv, TypeOK, Registered
  <2> QED BY <2>1, <2>2
<1> QED BY <1>1, <1>2, <1>3 DEF PInv

\* Every step keeps the maps and the promises in step.
LEMMA StepKeeps == PInv /\ [Next]_vars => PInv'
<1> SUFFICES ASSUME PInv, [Next]_vars PROVE PInv'
  OBVIOUS
<1>1. ASSUME NEW w \in Waiters, Poll(w) PROVE PInv'
  BY <1>1, PollSettles, SettlingKeeps
<1>2. ASSUME NEW w \in Waiters, Timer(w) PROVE PInv'
  BY <1>2, TimerSettles, SettlingKeeps
<1>3. ASSUME NEW w \in Waiters, NEW v \in {"approved", "denied"}, Answer(w, v)
      PROVE  PInv'
  <2>1. CASE Settling(Forgotten(at[w]), at[w])
    BY <2>1, SettlingKeeps
  <2>2. CASE /\ entry' = [entry EXCEPT ![w] = v]
             /\ UNCHANGED <<row, by, due, told, at, origin, armed, reg, closed, crashes>>
    BY <2>2 DEF PInv, TypeOK, Placed, Registered
  <2> QED BY <1>3, <2>1, <2>2, AnswerKeeps
<1>4. ASSUME NEW p \in Procs, Close(p) PROVE PInv'
  BY <1>4 DEF Close, PInv, TypeOK, Placed, Registered
<1>5. ASSUME NEW p \in Procs, Crash(p) PROVE PInv'
  BY <1>5, CrashKeeps
<1>6. ASSUME NEW p \in Procs, NEW a \in Approvals, NEW v \in {"approved", "denied"},
             Decide(p, a, v)
      PROVE  PInv'
  BY <1>6, DecideSettles, SettlingKeeps
<1>7. ASSUME NEW p \in Procs, NEW a \in Approvals, NEW w \in Waiters,
             NEW queued \in BOOLEAN, Request(p, a, w, queued)
      PROVE  PInv'
  BY <1>7, RequestKeeps
<1>8. ASSUME NEW p \in Procs, NEW a \in Approvals, NEW w \in Waiters,
             WaitForPending(p, a, w) \/ WaitForAnswered(p, a, w)
      PROVE  PInv'
  BY <1>8, WaitForKeeps
<1>9. ASSUME NEW a \in Approvals, Deadline(a) PROVE PInv'
  BY <1>9 DEF Deadline, PInv, TypeOK, Placed, Registered
<1>10. CASE UNCHANGED vars
  BY <1>10 DEF vars, PInv, TypeOK, Placed, Registered
<1> QED BY <1>1, <1>2, <1>3, <1>4, <1>5, <1>6, <1>7, <1>8, <1>9, <1>10 DEF Next

\* The maps and the promises are in step in every reachable state.
THEOREM ApprovalInvariant == Spec => []PInv
BY InitPInv, StepKeeps, PTL DEF Spec

\* The state of the store is well typed: in particular only a wait that is going
\* on has a timer.
THEOREM ApprovalTypeOK == Spec => []TypeOK
<1>1. PInv => TypeOK
  BY DEF PInv
<1> QED BY <1>1, ApprovalInvariant, PTL

-----------------------------------------------------------------------------
\* The two conjuncts of Promise!Next, in the variables of the store.
RowsMove ==
  \A a \in Approvals :
    \/ row'[a] = row[a]
    \/ row[a] = "none" /\ row'[a] = "pending"
    \/ row[a] = "pending" /\ row'[a] \in Verdicts

WaitMoves(w) ==
  \/ told'[w] = told[w] /\ at'[w] = at[w]
  \/ /\ told[w] = "unused" /\ at'[w] # None /\ at'[w][2] \in Approvals
     /\ row'[at'[w][2]] # "none"
     /\ told'[w] \in {"waiting", "timed_out"} \cup ({row'[at'[w][2]]} \cap Verdicts)
  \/ /\ told[w] = "waiting" /\ at'[w] = at[w] /\ at[w] # None
     /\ told'[w] \in {"lost", "timed_out"} \cup ({row'[at[w][2]]} \cap Verdicts)

\* A step that moves rows and waits in this way is one of Consent.
LEMMA MovesArePromised ==
  ASSUME PInv, PInv', RowsMove, \A w \in Waiters : WaitMoves(w)
  PROVE  Promise!Next
<1>1. DOMAIN row' = Approvals /\ DOMAIN told' = Waiters
  BY DEF PInv, TypeOK
<1>2. ASSUME NEW w \in Waiters
      PROVE  \/ /\ told'[w] = told[w]
                /\ (IF at'[w] = None THEN None ELSE at'[w][2])
                     = (IF at[w] = None THEN None ELSE at[w][2])
             \/ /\ told[w] = "unused" /\ at'[w] # None /\ at'[w][2] \in Approvals
                /\ row'[at'[w][2]] # "none"
                /\ told'[w] \in {"waiting", "timed_out"} \cup ({row'[at'[w][2]]} \cap Verdicts)
             \/ /\ told[w] = "waiting" /\ at'[w] = at[w] /\ at[w] # None
                /\ told'[w] \in {"lost", "timed_out"} \cup ({row'[at[w][2]]} \cap Verdicts)
  BY <1>2 DEF WaitMoves
<1> QED
  BY <1>1, <1>2 DEF RowsMove, Promise!Next, Promise!VerdictMoves, Promise!HearingMoves,
     Promise!Verdicts, Verdicts

\* A settling step is one: whoever hears waited for that row.
LEMMA SettlingIsPromised ==
  ASSUME PInv, PInv', NEW S, NEW pl, Settling(S, pl)
  PROVE  Promise!Next
<1>1. RowsMove
  BY DEF Settling, RowsMove
<1>2. ASSUME NEW w \in Waiters PROVE WaitMoves(w)
  <2>1. CASE w \in S
    <3>1. at'[w] = at[w] /\ at[w] = pl /\ told[w] = "waiting" /\ pl # None
      BY <2>1, ApprovalAssumption DEF Settling, Place
    <3>2. told'[w] \in {"timed_out"} \cup ({row'[pl[2]]} \cap Verdicts)
      BY <2>1 DEF Settling
    <3> QED BY <3>1, <3>2 DEF WaitMoves
  <2>2. CASE w \notin S
    BY <2>2 DEF Settling, WaitMoves
  <2> QED BY <2>1, <2>2
<1> QED BY <1>1, <1>2, MovesArePromised

\* So is the beginning of a wait.
LEMMA AskingIsPromised ==
  ASSUME PInv, PInv', NEW p \in Procs, NEW a \in Approvals, NEW w \in Waiters,
         \/ \E queued \in BOOLEAN : Request(p, a, w, queued)
         \/ WaitForPending(p, a, w)
         \/ WaitForAnswered(p, a, w)
  PROVE  Promise!Next
<1> USE ApprovalAssumption DEF Request, WaitForPending, WaitForAnswered, Register, Decided
<1>1. /\ told[w] = "unused" /\ at' = [at EXCEPT ![w] = <<p, a>>]
      /\ told' = [told EXCEPT ![w] = told'[w]]
      /\ told'[w] \in {"waiting", "timed_out"} \cup ({row'[a]} \cap Verdicts)
      /\ row'[a] # "none"
  <2>1. CASE \E queued \in BOOLEAN : Request(p, a, w, queued)
    BY <2>1 DEF PInv, TypeOK
  <2>2. CASE WaitForPending(p, a, w)
    BY <2>2 DEF PInv, TypeOK
  <2>3. CASE WaitForAnswered(p, a, w)
    <3>1. row'[a] = row[a] /\ (row[a] \in Verdicts \/ p \in closed)
      BY <2>3
    <3>2. told'[w] = IF p \in closed THEN "timed_out" ELSE row[a]
      BY <2>3 DEF PInv, TypeOK
    <3> QED BY <2>3, <3>1, <3>2 DEF PInv, TypeOK
  <2> QED BY <2>1, <2>2, <2>3
<1>2. RowsMove
  BY DEF RowsMove, PInv, TypeOK
<1>3. <<p, a>> # None
  BY DEF Place
<1>4. ASSUME NEW x \in Waiters PROVE WaitMoves(x)
  BY <1>1, <1>3 DEF WaitMoves, PInv, TypeOK
<1> QED BY <1>2, <1>4, MovesArePromised

\* Nothing has been asked at first.
LEMMA InitIsPromised == Init => Promise!Init
BY DEF Init, Promise!Init

\* Every step of the store is a step of Consent, or nothing that it can see.
LEMMA StepIsPromised == PInv /\ PInv' /\ [Next]_vars => [Promise!Next]_(Promise!vars)
<1> SUFFICES ASSUME PInv, PInv', [Next]_vars PROVE [Promise!Next]_(Promise!vars)
  OBVIOUS
<1>1. ASSUME NEW w \in Waiters, Poll(w) PROVE Promise!Next
  BY <1>1, PollSettles, SettlingIsPromised
<1>2. ASSUME NEW w \in Waiters, Timer(w) PROVE Promise!Next
  BY <1>2, TimerSettles, SettlingIsPromised
<1>3. ASSUME NEW w \in Waiters, NEW v \in {"approved", "denied"}, Answer(w, v)
      PROVE  [Promise!Next]_(Promise!vars)
  <2>1. CASE Settling(Forgotten(at[w]), at[w])
    BY <2>1, SettlingIsPromised
  <2>2. CASE UNCHANGED <<row, told, at>>
    BY <2>2 DEF Promise!vars
  <2> QED BY <1>3, <2>1, <2>2, AnswerKeeps
<1>4. ASSUME NEW p \in Procs, Close(p) PROVE UNCHANGED (Promise!vars)
  BY <1>4 DEF Close, Promise!vars
<1>5. ASSUME NEW p \in Procs, Crash(p) PROVE Promise!Next
  <2>1. RowsMove
    BY <1>5 DEF Crash, RowsMove
  <2>2. ASSUME NEW w \in Waiters PROVE WaitMoves(w)
    BY <1>5 DEF Crash, LivesIn, WaitMoves
  <2> QED BY <2>1, <2>2, MovesArePromised
<1>6. ASSUME NEW p \in Procs, NEW a \in Approvals, NEW v \in {"approved", "denied"},
             Decide(p, a, v)
      PROVE  Promise!Next
  BY <1>6, DecideSettles, SettlingIsPromised
<1>7. ASSUME NEW p \in Procs, NEW a \in Approvals, NEW w \in Waiters,
             \/ \E queued \in BOOLEAN : Request(p, a, w, queued)
             \/ WaitForPending(p, a, w)
             \/ WaitForAnswered(p, a, w)
      PROVE  Promise!Next
  BY <1>7, AskingIsPromised
<1>8. ASSUME NEW a \in Approvals, Deadline(a) PROVE UNCHANGED (Promise!vars)
  BY <1>8 DEF Deadline, Promise!vars
<1>9. CASE UNCHANGED vars
  BY <1>9 DEF vars, Promise!vars
<1> QED BY <1>1, <1>2, <1>3, <1>4, <1>5, <1>6, <1>7, <1>8, <1>9 DEF Next

\* The store implements Consent: a recorded verdict is final, and every waiter, in
\* any process, hears that verdict or that its time is up.
THEOREM ApprovalsImplementConsent == Spec => ImplementsConsent
<1>1. Init => Promise!Init
  BY InitIsPromised
<1>2. PInv /\ PInv' /\ [Next]_vars => [Promise!Next]_(Promise!vars)
  BY StepIsPromised
<1> QED BY <1>1, <1>2, ApprovalInvariant, PTL DEF Spec, ImplementsConsent, Promise!Spec

-----------------------------------------------------------------------------
(***************************************************************************)
(* The queue entries over the promises.                                    *)
(***************************************************************************)
\* Another process or the deadline decided the row, the store of the process is
\* closed, or a later wait of the process took the place of this one.
Outpaced(w) ==
  \/ by[at[w][2]] \in (Procs \cup {"ttl"}) \ {at[w][1]}
  \/ at[w][1] \in closed
  \/ Displaced(w)

\* A row has a decider when it has a verdict.
Owned == \A a \in Approvals : row[a] \in {"none", "pending"} <=> by[a] = None

\* An entry that is open hears whoever decides in its process; one that went ahead
\* follows the row, unless it was outpaced.
Attended(w) ==
  /\ entry[w] # "none" => at[w] # None
  /\ entry[w] = "open" =>
       Outpaced(w) \/ (row[at[w][2]] = "pending" /\ reg[at[w]] = w)
  /\ entry[w] = "approved" => Outpaced(w) \/ row[at[w][2]] = "approved"

QInv == PInv /\ Owned /\ \A w \in Waiters : Attended(w)

\* What outpaced an entry stays so, until its process restarts.
LEMMA StaysOutpaced ==
  ASSUME PInv, NEW w \in Waiters, at[w] # None, Outpaced(w),
         by'[at[w][2]] = by[at[w][2]] \/ by[at[w][2]] = None,
         at[w][1] \in closed => at[w][1] \in closed',
         \A v \in Waiters : at[v] # None => at'[v] = at[v]
  PROVE  Outpaced(w)'
<1> USE ApprovalAssumption
<1>1. at'[w] = at[w]
  OBVIOUS
<1>2. CASE by[at[w][2]] \in (Procs \cup {"ttl"}) \ {at[w][1]}
  <2>1. by[at[w][2]] # None
    BY <1>2
  <2>2. by'[at'[w][2]] = by[at[w][2]]
    BY <1>1, <2>1
  <2> QED BY <1>1, <1>2, <2>2 DEF Outpaced
<1>3. CASE at[w][1] \in closed
  BY <1>1, <1>3 DEF Outpaced
<1>4. CASE Displaced(w)
  BY <1>1, <1>4 DEF Outpaced, Displaced
<1> QED BY <1>2, <1>3, <1>4 DEF Outpaced

\* A step of a settling kind that gives the row of pl its verdict in the name of
\* `decider`, or of the deadline, and in which whoever hears has his entry answered.
LEMMA SettlingAttends ==
  ASSUME QInv, NEW S, NEW pl, Settling(S, pl),
         \A a \in Approvals :
           \/ row'[a] = row[a] /\ by'[a] = by[a]
           \/ row[a] = "pending" /\ row'[a] \in Verdicts /\ by'[a] = "ttl"
           \/ /\ a = pl[2] /\ pl[1] \in Procs \ closed
              /\ row[a] = "pending" /\ row'[a] \in Verdicts /\ by'[a] = pl[1],
         \A w \in Waiters :
           \/ entry'[w] = entry[w]
           \/ at[w] = pl /\ entry'[w] \in {"approved", "denied"}
              /\ (entry'[w] = "approved" => Outpaced(w) \/ row'[pl[2]] = "approved"),
         \A w \in Waiters : at[w] = pl /\ ~Displaced(w) /\ reg[pl] = w => entry'[w] # "open"
  PROVE  Owned' /\ \A w \in Waiters : Attended(w)'
<1> USE ApprovalAssumption DEF Settling, Place
<1>1. Owned'
  <2> SUFFICES ASSUME NEW a \in Approvals
               PROVE  row'[a] \in {"none", "pending"} <=> by'[a] = None
    BY DEF Owned
  <2>1. CASE row'[a] = row[a] /\ by'[a] = by[a]
    BY <2>1 DEF QInv, Owned
  <2>2. CASE row'[a] \in Verdicts /\ by'[a] \in Procs \cup {"ttl"}
    BY <2>2 DEF Verdicts
  <2> QED BY <2>1, <2>2
<1>2. ASSUME NEW w \in Waiters, entry'[w] # "none" PROVE Attended(w)'
  <2>1. at[w] # None /\ at'[w] = at[w] /\ at[w][2] \in Approvals /\ at[w][1] \in Procs
        /\ at[w] \in Procs \X Approvals
    BY <1>2 DEF QInv, Attended, PInv, TypeOK
  <2> DEFINE a == at[w][2]
  <2>2. Outpaced(w) => Outpaced(w)'
    <3>1. by'[a] = by[a] \/ by[a] = None
      BY <2>1 DEF QInv, Owned, Verdicts
    <3> QED BY <2>1, <3>1, StaysOutpaced DEF QInv
  <2>3. Displaced(w)' <=> Displaced(w)
    BY DEF Displaced
  <2>4. row'[a] = row[a] \/ Outpaced(w)' \/ (a = pl[2] /\ at[w][1] = pl[1] /\ pl[1] \notin closed)
    BY <2>1 DEF Outpaced
  <2>5. CASE entry'[w] = "open"
    <3>1. entry[w] = "open"
      BY <2>5
    <3>2. CASE Outpaced(w)
      BY <1>2, <2>1, <2>2, <2>5, <3>2 DEF Attended
    <3>3. CASE ~Outpaced(w)
      <4>1. row[a] = "pending" /\ reg[at[w]] = w /\ ~Displaced(w)
        BY <3>1, <3>3 DEF QInv, Attended, Outpaced
      <4>2. at[w] # pl
        BY <2>5, <4>1
      <4>3. reg'[at[w]] = w
        BY <2>1, <4>1, <4>2 DEF QInv, PInv, TypeOK
      <4>4. ~(a = pl[2] /\ at[w][1] = pl[1])
        BY <2>1, <4>2
      <4>5. row'[a] = "pending" \/ Outpaced(w)'
        BY <2>4, <4>1, <4>4
      <4> QED BY <1>2, <2>1, <2>5, <4>3, <4>5 DEF Attended
    <3> QED BY <3>2, <3>3
  <2>6. CASE entry'[w] = "approved"
    <3>1. CASE entry'[w] = entry[w]
      <4>1. Outpaced(w) \/ row[a] = "approved"
        BY <2>6, <3>1 DEF QInv, Attended
      <4>2. row[a] = "approved" => row'[a] = "approved"
        BY <2>1
      <4> QED BY <2>1, <2>2, <2>6, <4>1, <4>2 DEF Attended
    <3>2. CASE at[w] = pl /\ (Outpaced(w) \/ row'[pl[2]] = "approved")
      BY <2>1, <2>2, <2>6, <3>2 DEF Attended
    <3> QED BY <2>6, <3>1, <3>2
  <2>7. CASE entry'[w] \notin {"open", "approved"}
    BY <2>1, <2>7 DEF Attended
  <2> QED BY <2>5, <2>6, <2>7
<1>3. ASSUME NEW w \in Waiters, entry'[w] = "none" PROVE Attended(w)'
  BY <1>3 DEF Attended
<1> QED BY <1>1, <1>2, <1>3

\* Each of the four does that.
LEMMA DecideAttends ==
  ASSUME QInv, NEW p \in Procs, NEW a \in Approvals, NEW v \in {"approved", "denied"},
         Decide(p, a, v)
  PROVE  Owned' /\ \A w \in Waiters : Attended(w)'
<1> DEFINE S == Forgotten(<<p, a>>)
<1>1. Settling(S, <<p, a>>)
  BY DecideSettles DEF QInv
<1>2. row[a] = "pending" /\ row'[a] = v /\ by'[a] = p /\ \A b \in Approvals \ {a} : row'[b] = row[b] /\ by'[b] = by[b]
  BY DEF Decide, QInv, PInv, TypeOK
<1>3. \A w \in Waiters : entry'[w] = IF w \in S /\ entry[w] = "open" THEN v ELSE entry[w]
  BY DEF Decide, Hear
<1>4. \A w \in S : at[w] = <<p, a>>
  BY <1>1 DEF Settling
<1>5. \A w \in Waiters : at[w] = <<p, a>> /\ reg[<<p, a>>] = w => w \in S
  BY ApprovalAssumption DEF Forgotten
<1>6. p \notin closed
  BY DEF Decide
<1> HIDE DEF S
<1> QED BY <1>1, <1>2, <1>3, <1>4, <1>5, <1>6, SettlingAttends DEF Verdicts

\* The answer of an entry: its own decide() wins, or somebody else decided.
LEMMA AnswerAttends ==
  ASSUME QInv, NEW w \in Waiters, NEW v \in {"approved", "denied"}, Answer(w, v)
  PROVE  Owned' /\ \A x \in Waiters : Attended(x)'
<1> DEFINE p == at[w][1]
           a == at[w][2]
           S == Forgotten(<<p, a>>)
           wins == p \notin closed /\ row[a] = "pending"
<1>1. at[w] \in Place /\ p \in Procs /\ a \in Approvals /\ at[w] = <<p, a>> /\ entry[w] = "open"
      /\ at[w] # None /\ row[a] # "none"
  BY DEF Answer, QInv, PInv, TypeOK, Placed, Place
<1>2. entry' = [entry EXCEPT ![w] = v] /\ entry'[w] = v
  BY DEF Answer, QInv, PInv, TypeOK
<1>3. CASE wins
  <2>1. Settling(S, <<p, a>>)
    <3>1. Settling(Forgotten(at[w]), at[w])
      <4>1. reg' = [reg EXCEPT ![at[w]] = None] /\ row' = [row EXCEPT ![a] = v]
        BY <1>1, <1>3 DEF Answer
      <4>2. row' # row
        BY <1>1, <1>3, <4>1 DEF QInv, PInv, TypeOK
      <4> QED BY <4>2, AnswerKeeps DEF QInv
    <3> QED BY <1>1, <3>1
  <2>2. row' = [row EXCEPT ![a] = v] /\ by' = [by EXCEPT ![a] = p]
    BY <1>3 DEF Answer
  <2>3. row'[a] = v /\ by'[a] = p /\ \A b \in Approvals \ {a} : row'[b] = row[b] /\ by'[b] = by[b]
    BY <1>1, <2>2 DEF QInv, PInv, TypeOK
  <2>4. \A x \in Waiters : x # w => entry'[x] = entry[x]
    BY <1>2 DEF QInv, PInv, TypeOK
  <2>5. \A x \in Waiters : at[x] = <<p, a>> /\ ~Displaced(x) => x = w
    BY <1>1 DEF Displaced
  <2> HIDE DEF S
  <2> QED BY <1>1, <1>2, <1>3, <2>1, <2>3, <2>4, <2>5, SettlingAttends DEF Verdicts
<1>4. CASE ~wins
  <2>1. UNCHANGED <<row, by, at, reg, closed>>
    BY <1>4 DEF Answer
  <2>2. \A x \in Waiters : Outpaced(x)' <=> Outpaced(x)
    BY <2>1 DEF Outpaced, Displaced
  <2>3. Outpaced(w)
    BY <1>1, <1>4 DEF QInv, Attended, Outpaced
  <2>4. Owned'
    BY <2>1 DEF QInv, Owned
  <2>5. ASSUME NEW x \in Waiters, x # w PROVE Attended(x)'
    <3>1. entry'[x] = entry[x]
      BY <1>2, <2>5 DEF QInv, PInv, TypeOK
    <3> QED BY <2>1, <2>2, <3>1 DEF QInv, Attended
  <2>6. Attended(w)'
    BY <1>1, <1>2, <2>1, <2>2, <2>3 DEF Attended
  <2> QED BY <2>4, <2>5, <2>6
<1> QED BY <1>3, <1>4

\* A poll passes the recorded verdict on.
LEMMA PollAttends ==
  ASSUME QInv, NEW w \in Waiters, Poll(w)
  PROVE  Owned' /\ \A x \in Waiters : Attended(x)'
<1> DEFINE pl == at[w]
           S == {w} \cup Forgotten(pl)
<1>1. Settling(S, pl)
  BY PollSettles DEF QInv
<1>2. pl = <<pl[1], pl[2]>> /\ pl[2] \in Approvals
  BY ArmedWait DEF Poll, QInv
<1>3. /\ \A x \in Waiters : entry'[x] = IF x \in S /\ entry[x] = "open"
                              THEN IF row[pl[2]] = "approved" THEN "approved" ELSE "denied"
                              ELSE entry[x]
      /\ UNCHANGED <<row, by>>
  BY <1>2 DEF Poll, Hear
<1>4. \A x \in S : at[x] = pl
  BY <1>1 DEF Settling
<1>5. \A x \in Waiters : reg[pl] = x => x \in S
  BY ApprovalAssumption DEF Forgotten
<1> HIDE DEF S
<1> QED BY <1>1, <1>3, <1>4, <1>5, SettlingAttends

\* A timer says what the row says or that time is up, and the rows it sweeps have
\* nobody's name.
LEMMA TimerAttends ==
  ASSUME QInv, NEW w \in Waiters, Timer(w)
  PROVE  Owned' /\ \A x \in Waiters : Attended(x)'
<1> DEFINE p == at[w][1]
           a == at[w][2]
           swept == {b \in due : row[b] = "pending"}
           expires == p \notin closed /\ row[a] = "pending"
           says == IF origin[w] = "waitFor" /\ p \notin closed
                   THEN IF expires THEN "timed_out" ELSE row[a]
                   ELSE "timed_out"
<1>1. Settling({w}, at[w])
  BY TimerSettles DEF QInv
<1>2. w \in Waiters /\ at[w] = <<p, a>> /\ a \in Approvals
  BY ArmedWait DEF Timer, QInv
<1>3. \A b \in Approvals :
        \/ row'[b] = row[b] /\ by'[b] = by[b]
        \/ row[b] = "pending" /\ row'[b] = "timed_out" /\ by'[b] = "ttl"
  BY DEF Timer
<1>4. \A x \in Waiters : entry'[x] = IF x \in {w} /\ entry[x] = "open"
                           THEN IF says = "approved" THEN "approved" ELSE "denied"
                           ELSE entry[x]
  BY DEF Timer, Hear
<1>5. says = "approved" => row'[a] = "approved"
  BY <1>2 DEF Timer
<1>6. \A x \in Waiters : at[x] = at[w] /\ ~Displaced(x) => x = w
  BY DEF Displaced
<1> HIDE DEF says
<1> QED BY <1>1, <1>2, <1>3, <1>4, <1>5, <1>6, SettlingAttends DEF Verdicts

\* A new wait takes the place of an older one of its process, if there is one.
LEMMA AskingAttends ==
  ASSUME QInv, PInv', NEW p \in Procs, NEW a \in Approvals, NEW w \in Waiters,
         \/ \E queued \in BOOLEAN : Request(p, a, w, queued)
         \/ WaitForPending(p, a, w)
         \/ WaitForAnswered(p, a, w)
  PROVE  Owned' /\ \A x \in Waiters : Attended(x)'
<1> USE ApprovalAssumption
<1>1. /\ told[w] = "unused" /\ at' = [at EXCEPT ![w] = <<p, a>>] /\ UNCHANGED <<by, closed>>
      /\ row' = row \/ (row[a] = "none" /\ row' = [row EXCEPT ![a] = "pending"])
      /\ reg' = [reg EXCEPT ![<<p, a>>] = w] \/ reg' = reg
      /\ entry' = entry \/ /\ entry' = [entry EXCEPT ![w] = entry'[w]]
                           /\ entry'[w] \in {"open", "none"}
                           /\ row'[a] = "pending" /\ reg' = [reg EXCEPT ![<<p, a>>] = w]
  BY DEF Request, WaitForPending, WaitForAnswered, Register, QInv, PInv, TypeOK
<1>2. at[w] = None /\ entry[w] = "none" /\ at'[w] = <<p, a>> /\ <<p, a>> \in Place /\ <<p, a>> # None
  BY <1>1 DEF QInv, Attended, PInv, TypeOK, Placed, Place
<1>3. \A b \in Approvals : \/ row'[b] = row[b]
                           \/ row[b] = "none" /\ row'[b] = "pending"
  BY <1>1 DEF QInv, PInv, TypeOK
<1>4. Owned'
  BY <1>1, <1>3 DEF QInv, Owned
<1>5. ASSUME NEW x \in Waiters, x # w PROVE Attended(x)'
  <2>1. at'[x] = at[x] /\ entry'[x] = entry[x]
    BY <1>1, <1>5 DEF QInv, PInv, TypeOK
  <2>2. CASE entry[x] = "none"
    BY <2>1, <2>2 DEF Attended
  <2>3. CASE entry[x] # "none"
    <3>1. at[x] # None /\ at[x] \in Place /\ at[x][2] \in Approvals /\ row[at[x][2]] # "none"
      BY <2>3 DEF QInv, Attended, PInv, Placed, TypeOK, Place
    <3>2. row'[at[x][2]] = row[at[x][2]]
      BY <1>3, <3>1
    <3>3. \A y \in Waiters : at[y] # None => at'[y] = at[y]
      BY <1>1, <1>2 DEF QInv, PInv, TypeOK
    <3>4. Outpaced(x) => Outpaced(x)'
      BY <1>1, <3>1, <3>3, StaysOutpaced DEF QInv
    <3>5. CASE at[x] = <<p, a>>
      <4>1. Displaced(x)'
        BY <1>2, <1>5, <2>1, <3>5 DEF Displaced
      <4> QED BY <2>1, <2>3, <3>1, <4>1 DEF Attended, Outpaced
    <3>6. CASE at[x] # <<p, a>>
      <4>1. reg'[at[x]] = reg[at[x]]
        BY <1>1, <3>1, <3>6 DEF QInv, PInv, TypeOK
      <4> QED BY <2>1, <3>1, <3>2, <3>4, <4>1 DEF QInv, Attended
    <3> QED BY <3>5, <3>6
  <2> QED BY <2>2, <2>3
<1>6. Attended(w)'
  <2>1. CASE entry' = entry
    BY <1>2, <2>1 DEF Attended
  <2>2. CASE entry'[w] \in {"open", "none"} /\ row'[a] = "pending" /\ reg' = [reg EXCEPT ![<<p, a>>] = w]
    <3>1. reg'[<<p, a>>] = w
      BY <1>2, <2>2 DEF QInv, PInv, TypeOK
    <3> QED BY <1>2, <2>2, <3>1 DEF Attended
  <2> QED BY <1>1, <2>1, <2>2
<1> QED BY <1>4, <1>5, <1>6

\* A restart has no entries of the process that died, and touches no other.
LEMMA CrashAttends ==
  ASSUME QInv, NEW p \in Procs, Crash(p)
  PROVE  Owned' /\ \A w \in Waiters : Attended(w)'
<1>1. UNCHANGED <<row, by, at>> /\ closed' = closed \ {p}
      /\ entry' = [w \in Waiters |-> IF LivesIn(w, p) THEN "none" ELSE entry[w]]
      /\ reg' = [pl \in Place |-> IF pl[1] = p THEN None ELSE reg[pl]]
  BY DEF Crash
<1>2. Owned'
  BY <1>1 DEF QInv, Owned
<1>3. ASSUME NEW w \in Waiters PROVE Attended(w)'
  <2>1. CASE entry'[w] = "none"
    BY <2>1 DEF Attended
  <2>2. CASE entry'[w] # "none"
    <3>1. entry'[w] = entry[w] /\ ~LivesIn(w, p) /\ at[w] # None /\ at[w] \in Place /\ at[w][1] # p
      BY <1>1, <2>2 DEF QInv, Attended, LivesIn, PInv, TypeOK
    <3>2. reg'[at[w]] = reg[at[w]]
      BY <1>1, <3>1
    <3>3. Outpaced(w) => Outpaced(w)'
      BY <1>1, <3>1, StaysOutpaced DEF QInv
    <3> QED BY <1>1, <3>1, <3>2, <3>3 DEF QInv, Attended
  <2> QED BY <2>1, <2>2
<1> QED BY <1>2, <1>3

\* Every step keeps what is said of the queue.
LEMMA StepAttends == QInv /\ PInv' /\ [Next]_vars => QInv'
<1> SUFFICES ASSUME QInv, PInv', [Next]_vars
             PROVE  Owned' /\ \A w \in Waiters : Attended(w)'
  BY DEF QInv
<1>1. ASSUME NEW w \in Waiters,
             Poll(w) \/ Timer(w) \/ \E v \in {"approved", "denied"} : Answer(w, v)
      PROVE  Owned' /\ \A x \in Waiters : Attended(x)'
  BY <1>1, PollAttends, TimerAttends, AnswerAttends
<1>2. ASSUME NEW p \in Procs, Close(p) PROVE Owned' /\ \A w \in Waiters : Attended(w)'
  <2>1. UNCHANGED <<row, by, at, reg, entry>> /\ closed \subseteq closed'
    BY <1>2 DEF Close
  <2> QED BY <2>1 DEF QInv, Owned, Attended, Outpaced, Displaced
<1>3. ASSUME NEW p \in Procs, NEW a \in Approvals,
             \/ \E v \in {"approved", "denied"} : Decide(p, a, v)
             \/ \E w \in Waiters :
                  \/ \E queued \in BOOLEAN : Request(p, a, w, queued)
                  \/ WaitForPending(p, a, w)
                  \/ WaitForAnswered(p, a, w)
      PROVE  Owned' /\ \A w \in Waiters : Attended(w)'
  BY <1>3, DecideAttends, AskingAttends
<1>4. (\E a \in Approvals : Deadline(a)) \/ UNCHANGED vars
      => Owned' /\ \A w \in Waiters : Attended(w)'
  <2> SUFFICES ASSUME UNCHANGED <<row, by, at, reg, entry, closed>>
               PROVE  Owned' /\ \A w \in Waiters : Attended(w)'
    BY DEF Deadline, vars
  <2> QED BY DEF QInv, Owned, Attended, Outpaced, Displaced
<1> QED BY <1>1, <1>2, <1>3, <1>4, CrashAttends DEF Next

\* Whoever goes ahead on a queue entry although the row does not say yes was outpaced,
\* by another process, by the deadline, by the closing of its store or by a later wait
\* of its process: the first answer wins in every other case.
THEOREM ApprovalQueueFollowsRow == Spec => []QueueFollowsRow
<1>1. Init => QInv
  <2>1. Init => PInv
    BY InitPInv
  <2>2. Init => Owned /\ \A w \in Waiters : Attended(w)
    BY DEF Init, Owned, Attended
  <2> QED BY <2>1, <2>2 DEF QInv
<1>2. QInv /\ [Next]_vars => QInv'
  BY StepKeeps, StepAttends DEF QInv
<1>3. QInv => QueueFollowsRow
  BY DEF QInv, Attended, Outpaced, QueueFollowsRow
<1> QED BY <1>1, <1>2, <1>3, PTL DEF Spec

=============================================================================
