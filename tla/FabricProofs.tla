---------------------------- MODULE FabricProofs ----------------------------
(***************************************************************************)
(* What holds of execute() for any number of calls, any options, attempts  *)
(* and incidents: no lifecycle event is fired that the table does not      *)
(* have, an effect behind a key is launched by one call, and a reported    *)
(* success is durable.  Then of startup recovery, while processes run one  *)
(* at a time: every record that was found running is decided, no cancelled *)
(* run and no unsafe effect is resumed.  Then of the command line and of   *)
(* recovery beside live calls: a reported success stays on disk.           *)
(***************************************************************************)
EXTENDS Commands, FiniteSetTheorems, SequenceTheorems, TLAPS

\* The locations before an attempt.
Before == {"idle", "policy", "approval", "trust", "environment", "queue", "dedup",
           "claim", "flag"}

\* The lifecycle state that a location is reached with: the event fired next is
\* one that the table has.
Fits(loc, state) ==
  /\ loc = "policy" => state \in {"created", "planned"}
  /\ loc = "approval" => state = "awaiting_approval"
  /\ loc \in {"trust", "environment", "queue"} => state \in {"awaiting_policy", "authorized"}
  /\ loc \in {"dedup", "claim", "flag", "start"} => state = "queued"
  /\ loc \in {"launch", "acting"} => state = "running"

\* The queued writes that write the record.
Saves(s) == {i \in DOMAIN s : s[i].op \in {"save", "final"}}

\* Until it is launched an action that runs in process has done nothing; an unsafe
\* one is launched once.
Unlaunched(r) ==
  /\ pc[r] = "environment" => opts[r].isolated
  /\ ~opts[r].isolated /\ pc[r] \in Before => effect[r] = "none"
  /\ pc[r] \in Before => attempt[r] = 0
  /\ pc[r] = "start" => attempt[r] < MaxAttempts
  /\ Unsafe(r) /\ pc[r] = "start" => attempt[r] = 0
  /\ Unsafe(r) /\ pc[r] \in {"launch", "acting"} => attempt[r] = 1
  /\ Unsafe(r) /\ ~opts[r].isolated /\ pc[r] \in {"start", "launch"} => effect[r] = "none"

Failures == {"failed", "cancelled", "timed_out", "denied", "budget_stopped", "unavailable"}

\* Once the outcome is known, a failure that admits nothing has none.
Honest(r) ==
  pc[r] \in {"settle", "returned"} /\ Unsafe(r) /\ ~opts[r].isolated
    /\ ~mem[r].unknown /\ mem[r].outcome \in Failures
  => effect[r] \in {"none", "refused"}

Shows(state) == state \in {"running"} \cup Terminal

\* While nothing has failed, the record and the writes that are queued for it show
\* an effect, and the record of a run that is about to launch it is running.
Visible(r) ==
  ~opts[r].isolated /\ ~faulty =>
    /\ effect[r] # "none" \/ pc[r] = "acting" =>
         /\ disk[r] # None /\ Shows(disk[r].state)
         /\ \A i \in Saves(todo[r]) : Shows(todo[r][i].rec.state)
         /\ pc[r] = "settle" => mem[r].state \in Terminal
    /\ pc[r] = "launch" =>
         /\ todo[r] = <<>> => disk[r] # None /\ disk[r].state = "running"
         /\ \A i \in Saves(todo[r]) : todo[r][i].rec.state = "running"
         /\ todo[r] # <<>> => Len(todo[r]) \in Saves(todo[r])

DiskFinal(r) == disk[r] # None /\ disk[r].state \in Terminal

\* Only the end of a call queues a terminal record, and it is the one it has; the last
\* write of a call is the record that it reports.
Ends(r) ==
  /\ pc[r] \notin {"settle", "returned"} =>
       \A i \in Saves(todo[r]) : todo[r][i].rec.state \notin Terminal
  /\ pc[r] = "settle" =>
       \A i \in Saves(todo[r]) : todo[r][i].rec.state \in Terminal =>
         i = Len(todo[r]) /\ todo[r][i].rec.state = mem[r].state /\ mem[r].state = "denied"
  /\ pc[r] = "returned" =>
       /\ \A i \in Saves(todo[r]) : i = Len(todo[r])
       /\ todo[r] # <<>> => todo[r][Len(todo[r])] = Final(mem[r])
  /\ pc[r] = "crashed" => todo[r] = <<>>

\* An unsafe run behind a key goes to its attempt with the slot in its name; no
\* settlement empties the slot, and only the end of a call is final.
Holds(r) ==
  /\ pc[r] \in {"start", "launch", "acting"} /\ opts[r].keyed /\ Unsafe(r) => claimed[r]
  /\ \A i \in DOMAIN todo[r] : todo[r][i].op = "slot" => todo[r][i].to # "absent"
  /\ \A i \in DOMAIN todo[r] : todo[r][i].op = "final" => pc[r] = "returned"

\* What a call knows of itself, whoever else writes its record.
Memory(r) ==
  /\ Fits(pc[r], mem[r].state)
  /\ Unlaunched(r) /\ Honest(r) /\ Ends(r) /\ Holds(r)

\* A run that has the slot, or has had it and launched the effect.
Winner(r) ==
  opts[r].keyed /\ Unsafe(r) /\ (claimed[r] \/ (r \in Contenders /\ effect[r] # "none"))

\* Calls with the key are for one effect; one of them wins the slot, which is never
\* empty again.
SlotInv ==
  /\ \A r, q \in Runs : opts[r].keyed /\ opts[q].keyed => opts[r].idem = opts[q].idem
  /\ \A r, q \in Runs : Winner(r) /\ Winner(q) => r = q \/ reclaimed
  /\ \A r \in Runs : Winner(r) => slot # "absent"

MInv == TypeOK /\ (\A r \in Runs : Memory(r)) /\ SlotInv

\* While only the call writes its record: a terminal one is the one that it has, and
\* a success that it reports is there.
Final1(r) ==
  /\ pc[r] \notin {"settle", "returned", "crashed"} => ~DiskFinal(r)
  /\ pc[r] = "settle" /\ DiskFinal(r) =>
       disk[r].state = mem[r].state /\ Saves(todo[r]) = {}
Reported(r) ==
  pc[r] = "returned" =>
    /\ todo[r] # <<>> /\ DiskFinal(r) => disk[r].state = mem[r].state
    /\ todo[r] = <<>> /\ mem[r].outcome = "succeeded" =>
         disk[r] # None /\ disk[r].outcome = "succeeded"
Recorded(r) == Visible(r) /\ Final1(r) /\ Reported(r)
DInv == \A r \in Runs : Recorded(r)

FInv == MInv /\ DInv

\* A step of execute() keeps what a call knows, and what only it writes.
Keeps == MInv' /\ (DInv => DInv')

-----------------------------------------------------------------------------
\* The transitions that execute() takes.
LEMMA Taken ==
  /\ Fire("created", "plan") = "planned"
  /\ \A s \in {"created", "planned"} : Fire(s, "submit_policy") = "awaiting_policy"
  /\ Fire("awaiting_policy", "budget_block") = "budget_blocked"
  /\ Fire("awaiting_policy", "mark_unavailable") = "unavailable"
  /\ Fire("awaiting_policy", "require_approval") = "awaiting_approval"
  /\ \A s \in {"awaiting_policy", "awaiting_approval", "authorized"} :
       Fire(s, "deny") = "denied"
  /\ Fire("awaiting_approval", "grant_approval") = "authorized"
  /\ Fire("awaiting_policy", "authorize") = "authorized"
  /\ Fire("authorized", "queue") = "queued"
  /\ Fire("queued", "start") = "running"
  /\ Fire("running", "observe") = "observing"
  /\ \A s \in {"running", "observing"} :
       Fire(s, "succeed") = "succeeded" /\ Fire(s, "fail") = "failed"
  /\ Fire("running", "cancel") = "cancelled" /\ Fire("running", "timeout") = "timed_out"
  /\ \A s \in {"failed", "timed_out"} : Fire(s, "retry") = "queued"
BY DEF Fire, Transitions

\* The states of the table.
LEMMA TableStates ==
  States = {"created", "planned", "awaiting_policy", "awaiting_approval", "authorized",
            "queued", "running", "observing"} \cup Terminal
BY DEF States, Transitions, Terminal

\* Where the outer catch finds "fail" in the table, it leads to failed.
LEMMA FailTaken ==
  ASSUME NEW s \in States, CanFire(s, "fail")
  PROVE  s \in {"running", "observing"} /\ Fire(s, "fail") = "failed"
<1>1. s \in {"running", "observing"}
  BY TableStates DEF CanFire, Transitions, NoTransition, Terminal
<1> QED BY <1>1, Taken

\* The outer catch leaves a record with a state of the table.
LEMMA AbortedRecord ==
  ASSUME NEW rec \in Record
  PROVE  Aborted(rec) \in Record
<1> DEFINE out == IF rec.outcome = "none" THEN "failed" ELSE rec.outcome
           unk == IF rec.outcome = "none" THEN rec.state \in SideEffectPossible ELSE rec.unknown
           st == IF CanFire(rec.state, "fail") THEN Fire(rec.state, "fail") ELSE rec.state
<1>1. rec.state \in States /\ rec.outcome \in OutcomeKinds /\ rec.unknown \in BOOLEAN
      /\ rec.action \in BOOLEAN
  BY DEF Record
<1>2. st \in States
  BY <1>1, FailTaken, TableStates DEF Terminal
<1>3. out \in OutcomeKinds
  BY <1>1 DEF OutcomeKinds
<1>5. unk \in BOOLEAN
  <2>1. CASE rec.outcome = "none"
    <3>1. unk = (rec.state \in SideEffectPossible)
      BY <2>1
    <3>2. (rec.state \in SideEffectPossible) \in BOOLEAN
      OBVIOUS
    <3> HIDE DEF unk
    <3> QED BY ONLY <3>1, <3>2
  <2>2. CASE rec.outcome # "none"
    BY <1>1, <2>2
  <2> QED BY <2>1, <2>2
<1>4. Aborted(rec) = [rec EXCEPT !.outcome = out, !.unknown = unk, !.state = st]
  BY DEF Aborted
<1> HIDE DEF out, unk, st
<1> QED BY <1>2, <1>3, <1>4, <1>5 DEF Record

\* One transition of a record.
LEMMA MoveRecord ==
  ASSUME NEW rec \in Record, NEW event, NEW s \in States, Fire(rec.state, event) = s
  PROVE  /\ Move(rec, event) \in Record
         /\ Move(rec, event).state = s
         /\ Move(rec, event).outcome = rec.outcome
         /\ Move(rec, event).unknown = rec.unknown
         /\ Move(rec, event).action = rec.action
BY DEF Move, Record

\* One transition of a record that ends with an outcome.
LEMMA EndRecord ==
  ASSUME NEW rec \in Record, NEW event, NEW s \in States, Fire(rec.state, event) = s,
         NEW outcome \in OutcomeKinds, NEW u \in BOOLEAN
  PROVE  /\ End(rec, event, outcome, u) \in Record
         /\ End(rec, event, outcome, u).state = s
         /\ End(rec, event, outcome, u).outcome = outcome
         /\ End(rec, event, outcome, u).unknown = u
         /\ [End(rec, event, outcome, u) EXCEPT !.action = TRUE] \in Record
<1>1. /\ Move(rec, event) \in Record
      /\ Move(rec, event).state = s
  BY MoveRecord
<1> QED BY <1>1 DEF End, Record

\* The durable writes that a run may queue.
LEMMA Items ==
  ASSUME opts \in [Runs -> Options], NEW r \in Runs, NEW rec \in Record
  PROVE  /\ Save(rec) \in WriteItem /\ Final(rec) \in WriteItem
         /\ \A to \in SlotStates : SlotTo(to) \in WriteItem
         /\ \A kind \in CheckpointKinds : Mark(r, rec, kind) \in WriteItem
         /\ [op |-> "cancellation"] \in WriteItem
<1>1. ASSUME NEW kind \in CheckpointKinds PROVE Mark(r, rec, kind) \in WriteItem
  <2> DEFINE safe == IsSideEffectSafe(kind, IF rec.action THEN opts[r].idem ELSE "")
  <2>1. safe \in BOOLEAN
    BY DEF IsSideEffectSafe
  <2>2. Mark(r, rec, kind) = [op |-> "checkpoint", cp |-> [kind |-> kind, safe |-> safe]]
    BY DEF Mark
  <2> HIDE DEF safe
  <2> QED BY <2>1, <2>2 DEF WriteItem, Checkpoint
<1>2. Save(rec) \in WriteItem /\ Final(rec) \in WriteItem
  BY DEF Save, Final, WriteItem
<1>3. \A to \in SlotStates : SlotTo(to) \in WriteItem
  BY DEF SlotTo, WriteItem
<1>4. [op |-> "cancellation"] \in WriteItem
  BY DEF WriteItem
<1> QED BY <1>1, <1>2, <1>3, <1>4

\* What is queued when nothing is queued is the queue.
LEMMA Queued ==
  ASSUME TypeOK, NEW r \in Runs, todo[r] = <<>>, NEW writes \in Seq(WriteItem),
         Queue(r, writes)
  PROVE  todo' = [todo EXCEPT ![r] = writes] /\ todo' \in [Runs -> Seq(WriteItem)]
<1>1. <<>> \o writes = writes
  BY ConcatEmptySeq
<1> QED BY <1>1 DEF Queue, TypeOK

\* Queues that are put together.
LEMMA Joined ==
  ASSUME NEW x \in WriteItem, NEW y \in WriteItem, NEW z \in WriteItem
  PROVE  <<x>> \o <<y>> = <<x, y>> /\ <<x>> \o <<y, z>> = <<x, y, z>>
<1>1. <<x>> \in Seq(WriteItem) /\ <<y>> \in Seq(WriteItem) /\ <<y, z>> \in Seq(WriteItem)
      /\ <<x, y>> \in Seq(WriteItem) /\ <<x, y, z>> \in Seq(WriteItem)
  OBVIOUS
<1>2. <<x>> \o <<y>> = <<x, y>>
  <2>1. /\ <<x>> \o <<y>> \in Seq(WriteItem) /\ Len(<<x>> \o <<y>>) = 2
        /\ \A i \in 1..2 : (<<x>> \o <<y>>)[i] = IF i <= 1 THEN x ELSE <<y>>[i - 1]
    BY <1>1, ConcatProperties
  <2>2. \A i \in 1..2 : (<<x>> \o <<y>>)[i] = <<x, y>>[i]
    BY <2>1
  <2> QED BY <1>1, <2>1, <2>2, SeqEqual
<1>3. <<x>> \o <<y, z>> = <<x, y, z>>
  <2>1. /\ <<x>> \o <<y, z>> \in Seq(WriteItem) /\ Len(<<x>> \o <<y, z>>) = 3
        /\ \A i \in 1..3 : (<<x>> \o <<y, z>>)[i] = IF i <= 1 THEN x ELSE <<y, z>>[i - 1]
    BY <1>1, ConcatProperties
  <2>2. \A i \in 1..3 : (<<x>> \o <<y, z>>)[i] = <<x, y, z>>[i]
    BY <2>1
  <2> QED BY <1>1, <2>1, <2>2, SeqEqual
<1> QED BY <1>2, <1>3

-----------------------------------------------------------------------------
\* A step of one run leaves what is said of the others.
LEMMA OtherRuns ==
  ASSUME NEW q \in Runs, Memory(q), opts' = opts,
         pc'[q] = pc[q], mem'[q] = mem[q], attempt'[q] = attempt[q],
         claimed'[q] = claimed[q], todo'[q] = todo[q],
         effect'[q] = effect[q], faulty => faulty'
  PROVE  Memory(q)' /\ (disk'[q] = disk[q] /\ Recorded(q) => Recorded(q)')
<1>1. Unlaunched(q)' /\ Honest(q)' /\ Holds(q)' /\ Fits(pc[q], mem[q].state)'
  BY DEF Memory, Unlaunched, Honest, Holds, Unsafe
<1>2. Ends(q)'
  BY DEF Memory, Ends, Saves
<1>3. disk'[q] = disk[q] /\ Recorded(q) => Visible(q)'
  BY DEF Recorded, Visible, Saves
<1>4. disk'[q] = disk[q] /\ Recorded(q) => Final1(q)' /\ Reported(q)'
  BY DEF Recorded, Final1, Reported, Saves, DiskFinal
<1> QED BY <1>1, <1>2, <1>3, <1>4 DEF Memory, Recorded

\* Without a new winner, the slot keeps the one it has.
LEMMA SameWinner ==
  ASSUME SlotInv, opts' = opts, \A q \in Runs : Winner(q)' => Winner(q),
         slot # "absent" => slot' # "absent", reclaimed => reclaimed'
  PROVE  SlotInv'
BY DEF SlotInv

\* What the steps before an attempt have in common: run r goes from one location to
\* another with a record and queued writes that fit it.
BeforeStep(r, rec, loc, w) ==
  /\ pc[r] \in Before /\ todo[r] = <<>>
  /\ loc \in (Before \ {"idle"}) \cup {"start", "settle"} /\ Fits(loc, rec.state)
  /\ loc = "environment" => opts[r].isolated
  /\ rec \in Record /\ w \in Seq(WriteItem)
  /\ \A i \in Saves(w) : w[i].rec.state \in Terminal =>
       loc = "settle" /\ i = Len(w) /\ w[i].rec.state = rec.state /\ rec.state = "denied"
  /\ \A i \in DOMAIN w : w[i].op \notin {"slot", "final"}
  /\ pc' = [pc EXCEPT ![r] = loc] /\ mem' = [mem EXCEPT ![r] = rec]
  /\ todo' = [todo EXCEPT ![r] = w]
  /\ \A q \in Runs : claimed'[q] = claimed[q] \/ q = r
  /\ claimed' \in [Runs -> BOOLEAN]
  /\ loc = "start" /\ opts[r].keyed /\ Unsafe(r) => claimed'[r]
  /\ effect' \in [Runs -> Effects]
  /\ \A q \in Runs : effect'[q] = effect[q] \/ (q = r /\ opts[r].isolated)
  /\ slot' \in SlotStates /\ reclaimed' \in BOOLEAN
  /\ accepted' \in Seq(Runs) /\ incidents' \in 0..MaxIncidents
  /\ faulty' \in BOOLEAN /\ (faulty => faulty')
  /\ UNCHANGED <<opts, attempt, cancelFlag, disk, checkpoint, durableCancel>>

\* Such a step keeps what is said of every run.
LEMMA BeforeKeeps ==
  ASSUME TypeOK, \A q \in Runs : Memory(q), NEW r \in Runs, NEW rec, NEW loc, NEW w,
         BeforeStep(r, rec, loc, w)
  PROVE  TypeOK' /\ (\A q \in Runs : Memory(q)') /\ (DInv => DInv')
<1> USE DEF BeforeStep
<1>1. TypeOK'
  <2>1. loc \in Locations
    BY DEF Before, Locations
  <2> QED BY <2>1 DEF TypeOK
<1>2. ASSUME NEW q \in Runs, q # r
      PROVE  Memory(q)' /\ (Recorded(q) => Recorded(q)')
  <2>1. /\ pc'[q] = pc[q] /\ mem'[q] = mem[q] /\ attempt'[q] = attempt[q]
        /\ claimed'[q] = claimed[q] /\ todo'[q] = todo[q] /\ disk'[q] = disk[q]
        /\ effect'[q] = effect[q] /\ opts' = opts
    BY <1>2 DEF TypeOK
  <2> QED BY <2>1, OtherRuns
<1>3. Memory(r)' /\ (Recorded(r) => Recorded(r)')
  <2> DEFINE iso == opts[r].isolated
  <2>1. /\ pc'[r] = loc /\ mem'[r] = rec /\ todo'[r] = w /\ opts' = opts
        /\ attempt'[r] = attempt[r] /\ disk'[r] = disk[r]
        /\ (~iso => effect'[r] = effect[r])
    BY DEF TypeOK
  <2>2. Memory(r) /\ (~iso => effect[r] = "none") /\ attempt[r] = 0
    BY DEF Memory, Unlaunched
  <2>3. Recorded(r) => ~DiskFinal(r)
    BY <2>2 DEF Recorded, Final1, Before
  <2>4. Fits(pc[r], mem[r].state)'
    BY <2>1
  <2>5. Unlaunched(r)' /\ Honest(r)'
    BY <2>1, <2>2, AttemptsAssumption DEF Unlaunched, Honest, Unsafe, Before
  <2>6. Recorded(r) => Visible(r)'
    BY <2>1, <2>2 DEF Visible, Before
  <2>7. Ends(r)'
    BY <2>1 DEF Ends, Saves, Before
  <2>8. Recorded(r) => Final1(r)' /\ Reported(r)'
    BY <2>1, <2>3 DEF Final1, Reported, DiskFinal, Saves, Before
  <2>9. Holds(r)'
    BY <2>1 DEF Holds, Unsafe, Before
  <2> QED BY <2>4, <2>5, <2>6, <2>7, <2>8, <2>9 DEF Memory, Recorded
<1> QED BY <1>1, <1>2, <1>3 DEF DInv

\* And the slot, when no claim is made in it.
LEMMA BeforeKeepsSlot ==
  ASSUME TypeOK, SlotInv, NEW r \in Runs, NEW rec, NEW loc, NEW w,
         BeforeStep(r, rec, loc, w), claimed' = claimed, reclaimed' = reclaimed,
         slot' = slot \/ slot' # "absent"
  PROVE  SlotInv'
<1>1. ASSUME NEW q \in Runs, Winner(q)' PROVE Winner(q)
  BY <1>1 DEF BeforeStep, Winner, Contenders, Unsafe
<1> QED BY <1>1, SameWinner DEF BeforeStep

-----------------------------------------------------------------------------
\* A queued write that leaves nothing to be said of the record: it is no slot, and
\* what it saves is not terminal.
Harmless(w) ==
  /\ w \in Seq(WriteItem)
  /\ \A i \in DOMAIN w : w[i].op \notin {"slot", "final"}
  /\ \A i \in Saves(w) : w[i].rec.state \notin Terminal

\* The queues of the steps before an attempt.
LEMMA Queues ==
  ASSUME opts \in [Runs -> Options], NEW r \in Runs, NEW rec \in Record,
         NEW k1 \in CheckpointKinds, NEW k2 \in CheckpointKinds
  PROVE  /\ Harmless(<<>>) /\ Harmless(<<Mark(r, rec, k1)>>)
         /\ Harmless(<<Mark(r, rec, k1), [op |-> "cancellation"]>>)
         /\ Harmless(<<Mark(r, rec, k1), Mark(r, rec, k2), [op |-> "cancellation"]>>)
         /\ rec.state \notin Terminal =>
              /\ Harmless(<<Save(rec)>>) /\ Harmless(<<Save(rec), Mark(r, rec, k1)>>)
              /\ Harmless(<<Mark(r, rec, k1), Mark(r, rec, k2), Save(rec)>>)
<1> DEFINE m1 == Mark(r, rec, k1)
           m2 == Mark(r, rec, k2)
           c == [op |-> "cancellation"]
           s == Save(rec)
<1>1. /\ m1 \in WriteItem /\ m1.op = "checkpoint"
      /\ m2 \in WriteItem /\ m2.op = "checkpoint"
      /\ s \in WriteItem /\ s.op = "save" /\ s.rec = rec
  BY Items DEF Mark, Save
<1>2. c \in WriteItem /\ c.op = "cancellation"
  BY Items
<1> HIDE DEF m1, m2, s, c
<1>3. /\ Harmless(<<>>) /\ Harmless(<<m1>>) /\ Harmless(<<m1, c>>) /\ Harmless(<<m1, m2, c>>)
  BY <1>1, <1>2 DEF Harmless, Saves
<1>4. rec.state \notin Terminal =>
        Harmless(<<s>>) /\ Harmless(<<s, m1>>) /\ Harmless(<<m1, m2, s>>)
  BY <1>1 DEF Harmless, Saves
<1> QED BY <1>3, <1>4 DEF m1, m2, s, c

\* The parts of a step before an attempt that does not end there with a terminal
\* record, and that claims nothing.
LEMMA PlainBefore ==
  ASSUME TypeOK, NEW r \in Runs, NEW rec \in Record, NEW w,
         NEW loc \in (Before \ {"idle"}) \cup {"settle"},
         pc[r] \in Before, todo[r] = <<>>, Harmless(w), Fits(loc, rec.state),
         loc = "environment" => opts[r].isolated,
         SetMem(r, rec), Goto(r, loc), todo' = [todo EXCEPT ![r] = w],
         UNCHANGED <<opts, attempt, claimed, cancelFlag, durable, history>>,
         accepted' \in Seq(Runs), effect' \in [Runs -> Effects],
         \A q \in Runs : effect'[q] = effect[q] \/ (q = r /\ opts[r].isolated)
  PROVE  BeforeStep(r, rec, loc, w)
BY DEF BeforeStep, Harmless, SetMem, Goto, durable, history, TypeOK, Before

\* The call arrives.
LEMMA AcceptBefore ==
  ASSUME TypeOK, NEW r \in Runs, Accept(r)
  PROVE  \E rec, loc, w : BeforeStep(r, rec, loc, w)
<1> DEFINE planned == Move(Created, "plan")
           m(rec, k) == Mark(r, rec, k)
<1>1. Created \in Record /\ Created.state = "created"
  BY TableStates DEF Created, Record, OutcomeKinds
<1>2. planned \in Record /\ planned.state = "planned"
  BY <1>1, Taken, TableStates, MoveRecord
<1>3. /\ Harmless(<<m(Created, "task_accepted")>>)
      /\ Harmless(<<m(planned, "task_accepted"), m(planned, "plan_recorded"), Save(planned)>>)
  BY <1>1, <1>2, Queues DEF TypeOK, CheckpointKinds, Terminal
<1>4. accepted' \in Seq(Runs) /\ effect' = effect
  BY DEF Accept, TypeOK
<1>5. todo[r] = <<>> /\ pc[r] = "idle"
  BY DEF Accept, At
<1>6. CASE opts[r].planned
  <2> DEFINE w == <<m(planned, "task_accepted"), m(planned, "plan_recorded"), Save(planned)>>
  <2>1. <<m(planned, "task_accepted")>> \o <<m(planned, "plan_recorded"), Save(planned)>> = w
    <3>1. /\ m(planned, "task_accepted") \in WriteItem
          /\ m(planned, "plan_recorded") \in WriteItem /\ Save(planned) \in WriteItem
      BY <1>2, Items DEF TypeOK, CheckpointKinds
    <3> QED BY <3>1, Joined
  <2>2. SetMem(r, planned) /\ Queue(r, w) /\ Goto(r, "policy")
    BY <1>6, <2>1 DEF Accept
  <2>3. todo' = [todo EXCEPT ![r] = w]
    BY <1>3, <1>5, <2>2, Queued DEF Harmless
  <2>4. BeforeStep(r, planned, "policy", w)
    <3> HIDE DEF w, planned
    <3> QED BY <1>2, <1>3, <1>4, <1>5, <2>2, <2>3, PlainBefore
            DEF Accept, Before, Fits, TypeOK, w
  <2> QED BY <2>4
<1>7. CASE ~opts[r].planned
  <2> DEFINE w == <<m(Created, "task_accepted")>>
  <2>1. w \o <<>> = w
    BY <1>3, ConcatEmptySeq DEF Harmless
  <2>2. SetMem(r, Created) /\ Queue(r, w) /\ Goto(r, "policy")
    BY <1>7, <2>1 DEF Accept
  <2>3. todo' = [todo EXCEPT ![r] = w]
    BY <1>3, <1>5, <2>2, Queued DEF Harmless
  <2>4. BeforeStep(r, Created, "policy", w)
    <3> HIDE DEF w
    <3> QED BY <1>1, <1>3, <1>4, <1>5, <2>2, <2>3, PlainBefore
            DEF Accept, Before, Fits, TypeOK, w
  <2> QED BY <2>4
<1> QED BY <1>6, <1>7

\* A step before an attempt that queues nothing.
LEMMA SilentBefore ==
  ASSUME TypeOK, NEW r \in Runs, NEW rec \in Record,
         NEW loc \in (Before \ {"idle"}) \cup {"settle"},
         pc[r] \in Before, todo[r] = <<>>, Fits(loc, rec.state),
         loc = "environment" => opts[r].isolated,
         SetMem(r, rec), Goto(r, loc),
         UNCHANGED <<opts, attempt, claimed, cancelFlag, durable, history, todo, accepted>>,
         effect' \in [Runs -> Effects],
         \A q \in Runs : effect'[q] = effect[q] \/ (q = r /\ opts[r].isolated)
  PROVE  BeforeStep(r, rec, loc, <<>>)
<1>1. todo' = [todo EXCEPT ![r] = <<>>]
  BY DEF TypeOK
<1>2. Harmless(<<>>)
  BY Queues DEF TypeOK, CheckpointKinds
<1> QED BY <1>1, <1>2, PlainBefore DEF TypeOK

\* Policy admits, asks, or says no; only a refusal for want of an approver is
\* saved at once.
LEMMA PolicyBefore ==
  ASSUME TypeOK, NEW r \in Runs, Memory(r), Policy(r)
  PROVE  \E rec, loc, w : BeforeStep(r, rec, loc, w)
<1> DEFINE rec == Move(mem[r], "submit_policy")
           denied == End(rec, "deny", "denied", FALSE)
           parked == Move(rec, "require_approval")
<1>1. /\ pc[r] = "policy" /\ todo[r] = <<>> /\ mem[r] \in Record
      /\ mem[r].state \in {"created", "planned"}
      /\ effect' = effect /\ accepted' = accepted
      /\ UNCHANGED <<opts, attempt, claimed, cancelFlag, durable, history>>
  BY DEF Policy, At, Memory, Fits, TypeOK, fixed
<1>2. rec \in Record /\ rec.state = "awaiting_policy"
  BY <1>1, Taken, TableStates, MoveRecord
<1> HIDE DEF rec
<1>3. denied \in Record /\ denied.state = "denied"
  BY <1>2, Taken, TableStates DEF Terminal, OutcomeKinds, End, Move, Record
<1>4. parked \in Record /\ parked.state = "awaiting_approval"
  BY <1>2, Taken, TableStates, MoveRecord
<1>5. /\ effect \in [Runs -> Effects] /\ accepted \in Seq(Runs)
      /\ \A q \in Runs : effect'[q] = effect[q]
      /\ pc[r] \in Before /\ opts \in [Runs -> Options]
  BY <1>1 DEF TypeOK, Before
<1>6. ASSUME SetMem(r, End(rec, "budget_block", "budget_stopped", FALSE)),
             Goto(r, "settle"), UNCHANGED todo
      PROVE  \E x, loc, w : BeforeStep(r, x, loc, w)
  <2> DEFINE x == End(rec, "budget_block", "budget_stopped", FALSE)
  <2>1. x \in Record
    BY <1>2, Taken, TableStates DEF Terminal, OutcomeKinds, End, Move, Record
  <2>2. BeforeStep(r, x, "settle", <<>>)
    BY <1>1, <1>5, <1>6, <2>1, SilentBefore DEF Fits
  <2> QED BY <2>2
<1>7. ASSUME SetMem(r, End(rec, "mark_unavailable", "unavailable", FALSE)),
             Goto(r, "settle"), UNCHANGED todo
      PROVE  \E x, loc, w : BeforeStep(r, x, loc, w)
  <2> DEFINE x == End(rec, "mark_unavailable", "unavailable", FALSE)
  <2>1. x \in Record
    BY <1>2, Taken, TableStates DEF Terminal, OutcomeKinds, End, Move, Record
  <2>2. BeforeStep(r, x, "settle", <<>>)
    BY <1>1, <1>5, <1>7, <2>1, SilentBefore DEF Fits
  <2> QED BY <2>2
<1>8. ASSUME SetMem(r, denied), Queue(r, <<Save(denied)>>), Goto(r, "settle")
      PROVE  \E x, loc, w : BeforeStep(r, x, loc, w)
  <2> HIDE DEF denied
  <2> DEFINE w == <<Save(denied)>>
  <2>1. w \in Seq(WriteItem) /\ w[1].op = "save" /\ w[1].rec = denied /\ Len(w) = 1
    BY <1>3, <1>5, Items DEF Save
  <2>2. todo' = [todo EXCEPT ![r] = w]
    BY <1>1, <1>8, <2>1, Queued
  <2>3. DOMAIN w = {1}
    OBVIOUS
  <2> HIDE DEF w
  <2>4. BeforeStep(r, denied, "settle", w)
    BY <1>1, <1>3, <1>5, <1>8, <2>1, <2>2, <2>3
    DEF BeforeStep, SetMem, Goto, Saves, durable, history, TypeOK, Fits
  <2> QED BY <2>4
<1>9. ASSUME SetMem(r, parked), Queue(r, <<Save(parked)>>), Goto(r, "approval")
      PROVE  \E x, loc, w : BeforeStep(r, x, loc, w)
  <2> HIDE DEF parked
  <2>1. Harmless(<<Save(parked)>>)
    BY <1>4, <1>5, Queues DEF CheckpointKinds, Terminal
  <2>2. todo' = [todo EXCEPT ![r] = <<Save(parked)>>]
    BY <1>1, <1>9, <2>1, Queued DEF Harmless
  <2>3. BeforeStep(r, parked, "approval", <<Save(parked)>>)
    BY <1>1, <1>4, <1>5, <1>9, <2>1, <2>2, PlainBefore DEF Before, Fits
  <2> QED BY <2>3
<1>10. ASSUME SetMem(r, rec), Queue(r, <<Mark(r, rec, "policy_admitted")>>), Goto(r, "trust")
      PROVE  \E x, loc, w : BeforeStep(r, x, loc, w)
  <2> DEFINE w == <<Mark(r, rec, "policy_admitted")>>
  <2>1. Harmless(w)
    BY <1>2, <1>5, Queues DEF CheckpointKinds
  <2>2. todo' = [todo EXCEPT ![r] = w]
    BY <1>1, <1>10, <2>1, Queued DEF Harmless
  <2> HIDE DEF w
  <2>3. BeforeStep(r, rec, "trust", w)
    BY <1>1, <1>2, <1>5, <1>10, <2>1, <2>2, PlainBefore DEF Before, Fits
  <2> QED BY <2>3
<1> QED BY <1>6, <1>7, <1>8, <1>9, <1>10 DEF Policy, rec

\* The outer catch before an attempt.
LEMMA AbortBefore ==
  ASSUME TypeOK, NEW r \in Runs, pc[r] \in Before, todo[r] = <<>>, Abort(r),
         UNCHANGED <<opts, attempt, claimed, cancelFlag, disk, checkpoint, durableCancel,
                     accepted, slot, reclaimed>>,
         effect' \in [Runs -> Effects],
         \A q \in Runs : effect'[q] = effect[q] \/ (q = r /\ opts[r].isolated),
         incidents' \in 0..MaxIncidents, faulty' \in BOOLEAN, faulty => faulty'
  PROVE  \E rec, loc, w : BeforeStep(r, rec, loc, w)
<1>1. Aborted(mem[r]) \in Record
  BY AbortedRecord DEF TypeOK
<1>2. todo' = [todo EXCEPT ![r] = <<>>] /\ Harmless(<<>>)
  BY Queues DEF TypeOK, Abort, CheckpointKinds
<1>3. BeforeStep(r, Aborted(mem[r]), "settle", <<>>)
  BY <1>1, <1>2 DEF BeforeStep, Harmless, Abort, SetMem, Goto, TypeOK, Before, Fits
<1> QED BY <1>3

\* The approver answers, or the question throws.
LEMMA ApprovalBefore ==
  ASSUME TypeOK, NEW r \in Runs, Memory(r), Approval(r)
  PROVE  \E rec, loc, w : BeforeStep(r, rec, loc, w)
<1> DEFINE granted == Move(mem[r], "grant_approval")
           denied == End(mem[r], "deny", "denied", FALSE)
<1>1. /\ pc[r] = "approval" /\ todo[r] = <<>> /\ mem[r] \in Record
      /\ mem[r].state = "awaiting_approval"
      /\ effect' = effect /\ accepted' = accepted
      /\ UNCHANGED <<opts, attempt, claimed, cancelFlag, durable, history>>
  BY DEF Approval, At, Memory, Fits, TypeOK, fixed
<1>2. /\ effect \in [Runs -> Effects] /\ accepted \in Seq(Runs)
      /\ \A q \in Runs : effect'[q] = effect[q]
      /\ pc[r] \in Before /\ opts \in [Runs -> Options]
  BY <1>1 DEF TypeOK, Before
<1>3. granted \in Record /\ granted.state = "authorized"
  BY <1>1, Taken, TableStates, MoveRecord
<1>4. denied \in Record
  <2>1. Fire(mem[r].state, "deny") = "denied"
    BY <1>1, Taken
  <2>2. "denied" \in States /\ "denied" \in OutcomeKinds /\ FALSE \in BOOLEAN
    BY TableStates DEF Terminal, OutcomeKinds
  <2> QED BY <1>1, <2>1, <2>2, EndRecord
<1> HIDE DEF granted, denied
<1>5. ASSUME SetMem(r, granted), Queue(r, <<Mark(r, granted, "policy_admitted")>>),
             Goto(r, "trust")
      PROVE  \E x, loc, w : BeforeStep(r, x, loc, w)
  <2> DEFINE w == <<Mark(r, granted, "policy_admitted")>>
  <2>1. Harmless(w)
    BY <1>2, <1>3, Queues DEF CheckpointKinds
  <2>2. todo' = [todo EXCEPT ![r] = w]
    BY <1>1, <1>5, <2>1, Queued DEF Harmless
  <2> HIDE DEF w
  <2>3. BeforeStep(r, granted, "trust", w)
    BY <1>1, <1>2, <1>3, <1>5, <2>1, <2>2, PlainBefore DEF Before, Fits
  <2> QED BY <2>3
<1>6. ASSUME SetMem(r, denied), Goto(r, "settle"), UNCHANGED todo
      PROVE  \E x, loc, w : BeforeStep(r, x, loc, w)
  <2>1. BeforeStep(r, denied, "settle", <<>>)
    BY <1>1, <1>2, <1>4, <1>6, SilentBefore DEF Fits
  <2> QED BY <2>1
<1>7. ASSUME Abort(r) PROVE \E x, loc, w : BeforeStep(r, x, loc, w)
  BY <1>1, <1>2, <1>7, AbortBefore DEF durable, history, TypeOK
<1> QED BY <1>5, <1>6, <1>7 DEF Approval, granted, denied

\* The trust gate lets the action be, blocks it, or runs it in an environment.
LEMMA TrustBefore ==
  ASSUME TypeOK, NEW r \in Runs, Memory(r), Trust(r)
  PROVE  \E rec, loc, w : BeforeStep(r, rec, loc, w)
<1> DEFINE denied == [End(mem[r], "deny", "denied", FALSE) EXCEPT !.action = TRUE]
           w == <<Save(mem[r])>>
<1>1. /\ pc[r] = "trust" /\ todo[r] = <<>> /\ mem[r] \in Record
      /\ mem[r].state \in {"awaiting_policy", "authorized"}
      /\ accepted' = accepted
      /\ UNCHANGED <<opts, attempt, claimed, cancelFlag, durable, history>>
  BY DEF Trust, At, Memory, Fits, TypeOK, fixed
<1>2. /\ accepted \in Seq(Runs) /\ effect \in [Runs -> Effects]
      /\ pc[r] \in Before /\ opts \in [Runs -> Options]
  BY <1>1 DEF TypeOK, Before
<1>3. Harmless(w)
  BY <1>1, <1>2, Queues DEF CheckpointKinds, Terminal
<1>4. denied \in Record
  <2>1. Fire(mem[r].state, "deny") = "denied"
    BY <1>1, Taken
  <2>2. "denied" \in States /\ "denied" \in OutcomeKinds /\ FALSE \in BOOLEAN
    BY TableStates DEF Terminal, OutcomeKinds
  <2> QED BY <1>1, <2>1, <2>2, EndRecord
<1> HIDE DEF denied, w
<1>5. ASSUME Goto(r, "queue"), UNCHANGED <<mem, todo, effect>>
      PROVE  \E x, loc, v : BeforeStep(r, x, loc, v)
  <2>1. SetMem(r, mem[r])
    BY <1>5 DEF SetMem, TypeOK
  <2>2. BeforeStep(r, mem[r], "queue", <<>>)
    BY <1>1, <1>2, <1>5, <2>1, SilentBefore DEF Fits, Before
  <2> QED BY <2>2
<1>6. ASSUME Queue(r, w), Goto(r, "queue"), UNCHANGED <<mem, effect>>
      PROVE  \E x, loc, v : BeforeStep(r, x, loc, v)
  <2>1. SetMem(r, mem[r])
    BY <1>6 DEF SetMem, TypeOK
  <2>2. todo' = [todo EXCEPT ![r] = w]
    BY <1>1, <1>3, <1>6, Queued DEF Harmless
  <2>3. BeforeStep(r, mem[r], "queue", w)
    BY <1>1, <1>2, <1>3, <1>6, <2>1, <2>2, PlainBefore DEF Fits, Before
  <2> QED BY <2>3
<1>7. ASSUME SetMem(r, denied), Queue(r, w), Goto(r, "settle"), UNCHANGED effect
      PROVE  \E x, loc, v : BeforeStep(r, x, loc, v)
  <2>1. todo' = [todo EXCEPT ![r] = w]
    BY <1>1, <1>3, <1>7, Queued DEF Harmless
  <2>2. BeforeStep(r, denied, "settle", w)
    BY <1>1, <1>2, <1>3, <1>4, <1>7, <2>1, PlainBefore DEF Fits, Before
  <2> QED BY <2>2
<1>8. ASSUME opts[r].isolated, effect' = [effect EXCEPT ![r] = "running"],
             Goto(r, "environment"), UNCHANGED <<mem, todo>>
      PROVE  \E x, loc, v : BeforeStep(r, x, loc, v)
  <2>1. SetMem(r, mem[r])
    BY <1>8 DEF SetMem, TypeOK
  <2>2. effect' \in [Runs -> Effects] /\ \A q \in Runs : effect'[q] = effect[q] \/ q = r
    BY <1>2, <1>8 DEF Effects
  <2>3. BeforeStep(r, mem[r], "environment", <<>>)
    BY <1>1, <1>2, <1>8, <2>1, <2>2, SilentBefore DEF Fits, Before
  <2> QED BY <2>3
<1> QED BY <1>5, <1>6, <1>7, <1>8 DEF Trust, denied, w

\* An environment that was used gives its result, or evaluate() throws.
LEMMA EnvironmentBefore ==
  ASSUME TypeOK, NEW r \in Runs, Memory(r), EnvironmentReturn(r) \/ EnvironmentThrow(r)
  PROVE  \E rec, loc, w : BeforeStep(r, rec, loc, w)
<1> DEFINE admitted == IF mem[r].state = "authorized" THEN mem[r] ELSE Move(mem[r], "authorize")
           observed == [Move(Move(Move(admitted, "queue"), "start"), "observe")
                          EXCEPT !.action = TRUE]
           good == End(observed, "succeed", "succeeded", FALSE)
           bad == End(observed, "fail", "failed", FALSE)
           w == <<Save(mem[r]), Mark(r, mem[r], "env_admitted")>>
<1>1. /\ pc[r] = "environment" /\ todo[r] = <<>> /\ mem[r] \in Record
      /\ mem[r].state \in {"awaiting_policy", "authorized"} /\ opts[r].isolated
      /\ accepted' = accepted
      /\ UNCHANGED <<opts, attempt, claimed, cancelFlag, durable, history>>
  BY DEF EnvironmentReturn, EnvironmentThrow, At, Memory, Unlaunched, Fits, TypeOK, fixed
<1>2. /\ accepted \in Seq(Runs) /\ effect \in [Runs -> Effects]
      /\ pc[r] \in Before /\ opts \in [Runs -> Options]
  BY <1>1 DEF TypeOK, Before
<1>3. /\ effect' \in [Runs -> Effects] /\ \A q \in Runs : effect'[q] = effect[q] \/ q = r
  BY <1>2 DEF EnvironmentReturn, EnvironmentThrow, Effects
<1>4. CASE EnvironmentThrow(r)
  <2>1. Abort(r) /\ UNCHANGED <<disk, checkpoint, durableCancel, slot, incidents, faulty, reclaimed>>
    BY <1>1, <1>4 DEF EnvironmentThrow, durable, history
  <2>2. incidents \in 0..MaxIncidents /\ faulty \in BOOLEAN
    BY DEF TypeOK
  <2> QED BY <1>1, <1>2, <1>3, <2>1, <2>2, AbortBefore
<1>5. CASE EnvironmentReturn(r)
  <2>1. admitted \in Record /\ admitted.state = "authorized"
    BY <1>1, Taken, TableStates, MoveRecord
  <2> HIDE DEF admitted
  <2> DEFINE queued == Move(admitted, "queue")
             started == Move(queued, "start")
             seen == Move(started, "observe")
  <2>2. queued \in Record /\ queued.state = "queued"
    BY <2>1, Taken, TableStates, MoveRecord
  <2> HIDE DEF queued
  <2>3. started \in Record /\ started.state = "running"
    BY <2>2, Taken, TableStates, MoveRecord
  <2> HIDE DEF started
  <2>4. seen \in Record /\ seen.state = "observing"
    BY <2>3, Taken, TableStates, MoveRecord
  <2> HIDE DEF seen
  <2>5. observed = [seen EXCEPT !.action = TRUE]
    BY DEF seen, started, queued
  <2>6. observed \in Record /\ observed.state = "observing"
    BY <2>4, <2>5 DEF Record
  <2> HIDE DEF observed
  <2>7. good \in Record /\ bad \in Record
    BY <2>6, Taken, TableStates DEF Terminal, OutcomeKinds, End, Move, Record
  <2>8. Harmless(w)
    BY <1>1, <1>2, Queues DEF CheckpointKinds, Terminal
  <2> HIDE DEF good, bad, w
  <2>9. Queue(r, w) /\ Goto(r, "settle") /\ (SetMem(r, good) \/ SetMem(r, bad))
    BY <1>5 DEF EnvironmentReturn, good, bad, w, observed, admitted
  <2>10. todo' = [todo EXCEPT ![r] = w]
    BY <1>1, <2>8, <2>9, Queued DEF Harmless
  <2>11. \A x \in {good, bad} : SetMem(r, x) => BeforeStep(r, x, "settle", w)
    BY <1>1, <1>2, <1>3, <2>7, <2>8, <2>9, <2>10, PlainBefore DEF Fits, Before
  <2> QED BY <2>9, <2>11
<1> QED BY <1>4, <1>5

\* The action is built and queued.  An unsafe run behind a key does not go to its
\* attempt from here.
LEMMA EnqueueBefore ==
  ASSUME TypeOK, NEW r \in Runs, Memory(r), Enqueue(r)
  PROVE  \E rec, loc, w : BeforeStep(r, rec, loc, w)
<1> DEFINE auth == IF mem[r].state = "authorized" THEN mem[r] ELSE Move(mem[r], "authorize")
           rec == [Move(auth, "queue") EXCEPT !.action = TRUE]
           w == <<Save(rec), Mark(r, rec, "step_started")>>
           loc == IF Slotted(r) THEN "dedup" ELSE "start"
<1>1. /\ pc[r] = "queue" /\ todo[r] = <<>> /\ mem[r] \in Record
      /\ mem[r].state \in {"awaiting_policy", "authorized"}
      /\ UNCHANGED <<opts, accepted, attempt, claimed, cancelFlag, durable, effect, history>>
  BY DEF Enqueue, At, Memory, Fits, TypeOK, fixed
<1>2. auth \in Record /\ auth.state = "authorized"
  BY <1>1, Taken, TableStates, MoveRecord
<1> HIDE DEF auth
<1>3. Move(auth, "queue") \in Record /\ Move(auth, "queue").state = "queued"
  BY <1>2, Taken, TableStates, MoveRecord
<1>4. rec \in Record /\ rec.state = "queued"
  BY <1>3 DEF Record
<1> HIDE DEF rec
<1>5. Harmless(w)
  BY <1>4, Queues DEF CheckpointKinds, Terminal, TypeOK
<1> HIDE DEF w
<1>6. SetMem(r, rec) /\ Queue(r, w) /\ Goto(r, loc)
  BY DEF Enqueue, auth, rec, w
<1>7. todo' = [todo EXCEPT ![r] = w]
  BY <1>1, <1>5, <1>6, Queued DEF Harmless
<1>8. opts[r].keyed /\ Unsafe(r) => Slotted(r)
  BY DEF Slotted, Unsafe, Repeatable
<1>9. loc \in {"dedup", "start"} /\ (opts[r].keyed /\ Unsafe(r) => loc = "dedup")
  BY <1>8
<1> HIDE DEF loc
<1>10. BeforeStep(r, rec, loc, w)
  BY <1>1, <1>4, <1>5, <1>6, <1>7, <1>9
  DEF BeforeStep, Harmless, SetMem, Goto, durable, history, TypeOK, Before, Fits
<1> QED BY <1>10

\* A queued record that is ended from the slot, as done or as unknown.
LEMMA EndedFromSlot ==
  ASSUME NEW rec \in Record, rec.state = "queued"
  PROVE  /\ EndVia(rec, "start", "succeed", "succeeded", FALSE) \in Record
         /\ EndVia(rec, "start", "succeed", "succeeded", FALSE).state = "succeeded"
         /\ EndVia(rec, "start", "fail", "failed", TRUE) \in Record
<1> DEFINE started == Move(rec, "start")
<1>1. started \in Record /\ started.state = "running"
  BY Taken, TableStates, MoveRecord
<1>2. /\ EndVia(rec, "start", "succeed", "succeeded", FALSE)
           = End(started, "succeed", "succeeded", FALSE)
      /\ EndVia(rec, "start", "fail", "failed", TRUE) = End(started, "fail", "failed", TRUE)
  BY DEF EndVia
<1> HIDE DEF started
<1>3. /\ End(started, "succeed", "succeeded", FALSE) \in Record
      /\ End(started, "succeed", "succeeded", FALSE).state = "succeeded"
      /\ End(started, "fail", "failed", TRUE) \in Record
  BY <1>1, Taken, TableStates DEF Terminal, OutcomeKinds, End, Move, Record
<1> QED BY <1>2, <1>3

\* The slot step of a run: the lookup of an earlier success, the claim, the flag.
\* Where it ends, nothing is queued.
LEMMA SlotStep ==
  ASSUME TypeOK, NEW r \in Runs, Memory(r), NEW rec \in Record,
         pc[r] \in {"dedup", "claim", "flag"}, todo[r] = <<>>,
         NEW loc \in {"claim", "flag", "start", "settle"},
         SetMem(r, rec), Goto(r, loc), Fits(loc, rec.state),
         \A q \in Runs : claimed'[q] = claimed[q] \/ q = r,
         claimed' \in [Runs -> BOOLEAN],
         loc = "start" => claimed'[r],
         slot' \in SlotStates, reclaimed' \in BOOLEAN,
         UNCHANGED <<opts, accepted, attempt, cancelFlag, todo, disk, checkpoint,
                     durableCancel, effect, incidents, faulty>>
  PROVE  BeforeStep(r, rec, loc, <<>>)
<1>1. todo' = [todo EXCEPT ![r] = <<>>] /\ Harmless(<<>>)
  BY Queues DEF TypeOK, CheckpointKinds
<1> QED BY <1>1 DEF BeforeStep, Harmless, SetMem, Goto, TypeOK, Before

\* What a run finds in the slot, and what it makes of it: the steps before an
\* attempt go on keeping what is said of the runs, and at most one run wins.
LEMMA SlotKeeps ==
  ASSUME MInv, NEW r \in Runs, Dedup(r) \/ Claim(r) \/ Flag(r)
  PROVE  Keeps
<1> DEFINE good == EndVia(mem[r], "start", "succeed", "succeeded", FALSE)
           bad == EndVia(mem[r], "start", "fail", "failed", TRUE)
<1>1. /\ pc[r] \in {"dedup", "claim", "flag"} /\ todo[r] = <<>>
      /\ mem[r] \in Record /\ mem[r].state = "queued" /\ TypeOK /\ Memory(r)
      /\ UNCHANGED <<opts, accepted, attempt, cancelFlag, todo, disk, checkpoint,
                     durableCancel, effect, incidents, faulty>>
  BY DEF MInv, Dedup, Claim, Flag, At, Memory, Fits, TypeOK, fixed, durable, history
<1>2. good \in Record /\ bad \in Record
  BY <1>1, EndedFromSlot
<1> HIDE DEF good, bad
<1>3. UNCHANGED mem => SetMem(r, mem[r])
  BY DEF SetMem, MInv, TypeOK
<1>4. UNCHANGED claimed => /\ \A q \in Runs : claimed'[q] = claimed[q] \/ q = r
                           /\ claimed' \in [Runs -> BOOLEAN]
  BY DEF MInv, TypeOK
<1>5. slot \in SlotStates /\ reclaimed \in BOOLEAN
  BY DEF MInv, TypeOK
<1>6. ASSUME NEW rec \in Record, SetMem(r, rec), UNCHANGED <<claimed, reclaimed>>,
             NEW loc \in {"claim", "flag", "settle"}, Goto(r, loc), Fits(loc, rec.state),
             slot' \in SlotStates, slot' = slot \/ slot' # "absent"
      PROVE  Keeps
  <2>1. BeforeStep(r, rec, loc, <<>>)
    BY <1>1, <1>4, <1>5, <1>6, SlotStep
  <2> QED BY <1>6, <2>1, BeforeKeeps, BeforeKeepsSlot DEF MInv, DInv, Keeps
<1>7. ASSUME UNCHANGED <<mem>>, claimed' = [claimed EXCEPT ![r] = TRUE], Goto(r, "start"),
             slot' \in SlotStates, reclaimed' \in BOOLEAN
      PROVE  TypeOK' /\ (\A q \in Runs : Memory(q)') /\ (DInv => DInv')
  <2>1. BeforeStep(r, mem[r], "start", <<>>)
    <3>1. /\ \A q \in Runs : claimed'[q] = claimed[q] \/ q = r
          /\ claimed' \in [Runs -> BOOLEAN] /\ claimed'[r]
      BY <1>7 DEF MInv, TypeOK
    <3> QED BY <1>1, <1>3, <1>7, <3>1, SlotStep DEF Fits
  <2> QED BY <2>1, BeforeKeeps DEF MInv, DInv, Keeps
<1>8. CASE Dedup(r)
  <2>1. CASE PriorSuccess
    BY <1>2, <1>5, <1>6, <1>8, <2>1 DEF Dedup, durable, history, good, Fits
  <2>2. CASE ~PriorSuccess
    BY <1>1, <1>3, <1>5, <1>6, <1>8, <2>2 DEF Dedup, durable, history, Fits
  <2> QED BY <2>1, <2>2
<1>9. CASE Flag(r)
  BY <1>2, <1>6, <1>9 DEF Flag, history, bad, Fits, SlotStates
<1>10. CASE Claim(r)
  <2>1. CASE /\ slot = "absent" /\ slot' = "pending"
             /\ claimed' = [claimed EXCEPT ![r] = TRUE]
             /\ Goto(r, "start") /\ UNCHANGED <<mem, reclaimed>>
    <3>1. TypeOK' /\ (\A q \in Runs : Memory(q)') /\ (DInv => DInv')
      BY <1>5, <1>7, <2>1 DEF SlotStates
    <3>2. \A q \in Runs : ~Winner(q)
      BY <2>1 DEF MInv, SlotInv
    <3>3. \A q \in Runs : Winner(q)' => q = r
      BY <1>1, <2>1, <3>2 DEF Winner, Contenders, Unsafe, MInv, TypeOK
    <3>4. SlotInv'
      BY <1>1, <2>1, <3>3 DEF SlotInv, MInv
    <3> QED BY <3>1, <3>4 DEF MInv, DInv, Keeps
  <2>2. CASE /\ slot = "failed" /\ claimed' = [claimed EXCEPT ![r] = TRUE]
             /\ reclaimed' = TRUE /\ Goto(r, "start") /\ UNCHANGED <<mem, slot>>
    <3>1. TypeOK' /\ (\A q \in Runs : Memory(q)') /\ (DInv => DInv')
      BY <1>5, <1>7, <2>2
    <3>2. SlotInv'
      BY <1>1, <2>2 DEF SlotInv, MInv
    <3> QED BY <3>1, <3>2 DEF MInv, DInv, Keeps
  <2>3. CASE SetMem(r, good) /\ Goto(r, "settle") /\ UNCHANGED <<claimed, slot, reclaimed>>
    BY <1>2, <1>5, <1>6, <2>3 DEF Fits
  <2>4. CASE SetMem(r, bad) /\ Goto(r, "settle") /\ UNCHANGED <<claimed, slot, reclaimed>>
    BY <1>2, <1>5, <1>6, <2>4 DEF Fits
  <2>5. CASE /\ slot = "pending" /\ opts[r].idem # "idempotent_with_key"
             /\ Goto(r, "flag") /\ UNCHANGED <<claimed, mem, slot, reclaimed>>
    BY <1>1, <1>3, <1>5, <1>6, <2>5 DEF Fits
  <2>6. CASE /\ slot = "pending" /\ opts[r].idem = "idempotent_with_key"
             /\ claimed' = [claimed EXCEPT ![r] = TRUE] /\ Goto(r, "start")
             /\ UNCHANGED <<mem, slot, reclaimed>>
    <3>1. TypeOK' /\ (\A q \in Runs : Memory(q)') /\ (DInv => DInv')
      BY <1>5, <1>7, <2>6
    <3>2. ~Unsafe(r)
      BY <2>6 DEF Unsafe, Repeatable
    <3>3. \A q \in Runs : Winner(q)' => Winner(q)
      BY <1>1, <2>6, <3>2 DEF Winner, Contenders, Unsafe, MInv, TypeOK
    <3>4. SlotInv'
      BY <1>1, <2>6, <3>3, SameWinner DEF MInv
    <3> QED BY <3>1, <3>4 DEF MInv, DInv, Keeps
  <2> QED BY <1>10, <2>1, <2>2, <2>3, <2>4, <2>5, <2>6 DEF Claim, good, bad
<1> QED BY <1>8, <1>9, <1>10

\* An incident is counted, and a fault is not forgotten.
LEMMA IncidentCounted ==
  ASSUME TypeOK, NEW fault \in BOOLEAN, Incident(fault)
  PROVE  /\ incidents' \in 0..MaxIncidents /\ reclaimed' = reclaimed
         /\ faulty' \in BOOLEAN /\ (faulty => faulty') /\ (fault => faulty')
<1>1. incidents' \in 0..MaxIncidents
  BY IncidentsAssumption DEF TypeOK, Incident
<1>2. reclaimed' = reclaimed /\ faulty' = (faulty \/ fault)
  BY DEF Incident
<1>3. faulty \in BOOLEAN
  BY DEF TypeOK
<1> QED BY <1>1, <1>2, <1>3

\* The steps before an attempt that leave the slot alone.
LEMMA BeforeStepKeeps ==
  ASSUME MInv, NEW r \in Runs,
         \/ Accept(r) \/ Policy(r) \/ Approval(r) \/ Trust(r)
         \/ EnvironmentReturn(r) \/ EnvironmentThrow(r) \/ Enqueue(r) \/ SlotThrow(r)
  PROVE  Keeps
<1>1. TypeOK /\ Memory(r)
  BY DEF MInv
<1>2. CASE SlotThrow(r)
  <2>1. /\ pc[r] \in Before /\ todo[r] = <<>> /\ Abort(r) /\ Incident(TRUE)
        /\ UNCHANGED <<opts, attempt, claimed, cancelFlag, disk, checkpoint, durableCancel,
                       accepted, slot, effect>>
    BY <1>2 DEF SlotThrow, At, Before, fixed, durable
  <2>2. /\ incidents' \in 0..MaxIncidents /\ UNCHANGED reclaimed
        /\ faulty' \in BOOLEAN /\ (faulty => faulty')
    BY <1>1, <2>1, IncidentCounted
  <2>3. \E rec, loc, w : BeforeStep(r, rec, loc, w)
    BY <1>1, <2>1, <2>2, AbortBefore DEF TypeOK
  <2> QED BY <2>1, <2>2, <2>3, BeforeKeeps, BeforeKeepsSlot DEF MInv, DInv, Keeps
<1>3. CASE \/ Accept(r) \/ Policy(r) \/ Approval(r) \/ Trust(r)
           \/ EnvironmentReturn(r) \/ EnvironmentThrow(r) \/ Enqueue(r)
  <2>1. UNCHANGED <<claimed, slot, reclaimed>>
    BY <1>3 DEF Accept, Policy, Approval, Trust, EnvironmentReturn, EnvironmentThrow,
                Enqueue, durable, history
  <2>2. \E rec, loc, w : BeforeStep(r, rec, loc, w)
    BY <1>1, <1>3, AcceptBefore, PolicyBefore, ApprovalBefore, TrustBefore,
       EnvironmentBefore, EnqueueBefore
  <2> QED BY <2>1, <2>2, BeforeKeeps, BeforeKeepsSlot DEF MInv, DInv, Keeps
<1> QED BY <1>2, <1>3

-----------------------------------------------------------------------------
\* The attempt is counted and its running record queued.
LEMMA StartKeeps ==
  ASSUME MInv, NEW r \in Runs, Start(r)
  PROVE  Keeps
<1> DEFINE rec == Move(mem[r], "start")
           w == <<Save(rec)>>
<1>1. /\ TypeOK /\ Memory(r) /\ pc[r] = "start" /\ todo[r] = <<>>
      /\ mem[r] \in Record /\ mem[r].state = "queued"
  BY DEF MInv, Start, At, Memory, Fits, TypeOK
<1>2. rec \in Record /\ rec.state = "running"
  BY <1>1, Taken, TableStates, MoveRecord
<1>3. SetMem(r, rec) /\ Queue(r, w)
  BY DEF Start
<1> HIDE DEF rec
<1>4. w \in Seq(WriteItem) /\ DOMAIN w = {1} /\ Len(w) = 1 /\ w[1].op = "save" /\ w[1].rec = rec
      /\ w # <<>>
  BY <1>1, <1>2, Items DEF Save, TypeOK
<1> HIDE DEF w
<1>5. /\ todo' = [todo EXCEPT ![r] = w] /\ pc' = [pc EXCEPT ![r] = "launch"]
      /\ mem' = [mem EXCEPT ![r] = rec] /\ attempt' = [attempt EXCEPT ![r] = attempt[r] + 1]
      /\ UNCHANGED <<opts, accepted, claimed, cancelFlag, disk, checkpoint, durableCancel,
                     slot, effect, incidents, faulty, reclaimed>>
  BY <1>1, <1>3, <1>4, Queued DEF Start, Goto, SetMem, fixed, durable, history
<1>6. attempt[r] \in Nat /\ attempt[r] + 1 \in 0..MaxAttempts
  BY <1>1, AttemptsAssumption DEF Memory, Unlaunched, TypeOK
<1>7. TypeOK'
  BY <1>1, <1>2, <1>4, <1>5, <1>6 DEF TypeOK, Locations
<1>8. ASSUME NEW q \in Runs, q # r
      PROVE  Memory(q)' /\ (Recorded(q) => Recorded(q)')
  BY <1>1, <1>5, <1>8, OtherRuns DEF MInv, TypeOK
<1>9. Memory(r)' /\ (Recorded(r) => Recorded(r)')
  <2>1. /\ pc'[r] = "launch" /\ mem'[r] = rec /\ todo'[r] = w /\ attempt'[r] = attempt[r] + 1
        /\ opts' = opts /\ disk' = disk /\ effect' = effect /\ claimed' = claimed
        /\ faulty' = faulty
    BY <1>1, <1>5 DEF TypeOK
  <2>2. Fits(pc[r], mem[r].state)'
    BY <1>2, <2>1 DEF Fits
  <2>3. Unlaunched(r)' /\ Honest(r)' /\ Holds(r)'
    BY <1>1, <1>4, <2>1 DEF Memory, Unlaunched, Honest, Holds, Unsafe, Before
  <2>4. Recorded(r) => Visible(r)'
    <3> SUFFICES ASSUME Recorded(r) PROVE Visible(r)'
      OBVIOUS
    <3>1. Saves(w) = {1} /\ Shows(w[1].rec.state)
      BY <1>2, <1>4 DEF Saves, Shows
    <3>2. ~opts[r].isolated /\ ~faulty /\ effect[r] # "none" =>
            disk[r] # None /\ Shows(disk[r].state)
      BY <1>1 DEF Recorded, Visible
    <3> HIDE DEF Shows
    <3> QED BY <1>2, <1>4, <2>1, <3>1, <3>2 DEF Visible
  <2>5. Ends(r)' /\ (Recorded(r) => Final1(r)' /\ Reported(r)')
    BY <1>1, <1>2, <1>4, <2>1 DEF Memory, Ends, Recorded, Final1, Reported, Saves, DiskFinal, Terminal
  <2> QED BY <2>2, <2>3, <2>4, <2>5 DEF Memory, Recorded
<1>10. SlotInv'
  BY <1>1, <1>5, SameWinner DEF MInv, Winner, Contenders, Unsafe
<1> QED BY <1>7, <1>8, <1>9, <1>10 DEF MInv, DInv, Keeps

\* The effect begins, with the running record on disk and, behind a key, the slot
\* claimed.
LEMMA LaunchKeeps ==
  ASSUME MInv, NEW r \in Runs, Launch(r)
  PROVE  Keeps
<1>1. /\ TypeOK /\ Memory(r) /\ pc[r] = "launch" /\ todo[r] = <<>>
      /\ effect' = [effect EXCEPT ![r] = "running"] /\ pc' = [pc EXCEPT ![r] = "acting"]
      /\ UNCHANGED <<opts, accepted, mem, attempt, claimed, cancelFlag, todo, disk, checkpoint,
                     durableCancel, slot, incidents, faulty, reclaimed>>
  BY DEF MInv, Launch, At, Goto, fixed, durable, history
<1>2. TypeOK'
  BY <1>1 DEF TypeOK, Locations, Effects
<1>3. ASSUME NEW q \in Runs, q # r
      PROVE  Memory(q)' /\ (Recorded(q) => Recorded(q)')
  BY <1>1, <1>3, OtherRuns DEF MInv, TypeOK
<1>4. Memory(r)' /\ (Recorded(r) => Recorded(r)')
  <2>1. /\ pc'[r] = "acting" /\ effect'[r] = "running"
        /\ UNCHANGED <<opts, mem, attempt, claimed, todo, disk, faulty>>
    BY <1>1 DEF TypeOK
  <2>2. Fits(pc[r], mem[r].state)'
    BY <1>1, <2>1 DEF Memory, Fits
  <2>3. Unlaunched(r)' /\ Honest(r)' /\ Holds(r)'
    BY <1>1, <2>1 DEF Memory, Unlaunched, Honest, Holds, Unsafe, Before
  <2>4. Recorded(r) => Visible(r)'
    BY <1>1, <2>1 DEF Recorded, Visible, Saves, Shows
  <2>5. Ends(r)' /\ (Recorded(r) => Final1(r)' /\ Reported(r)')
    BY <1>1, <2>1 DEF Memory, Ends, Recorded, Final1, Reported, Saves, DiskFinal
  <2> QED BY <2>2, <2>3, <2>4, <2>5 DEF Memory, Recorded
<1>5. ASSUME NEW q \in Runs, Winner(q)' PROVE Winner(q)
  <2>1. CASE q = r
    BY <1>1, <1>5, <2>1 DEF Memory, Holds, Winner, Contenders, Unsafe
  <2>2. CASE q # r
    BY <1>1, <1>5, <2>2 DEF Winner, Contenders, Unsafe, TypeOK
  <2> QED BY <2>1, <2>2
<1>6. SlotInv'
  BY <1>1, <1>5, SameWinner DEF MInv
<1> QED BY <1>2, <1>3, <1>4, <1>6 DEF MInv, DInv, Keeps

\* What the ends of an attempt have in common: the record is final, or the run of
\* a repeatable effect goes back for another attempt; only checkpoints are queued,
\* and a failure that admits nothing is one that the action reported at once.
AttemptEnds(r, rec, loc, w) ==
  /\ pc[r] = "acting" /\ todo[r] = <<>>
  /\ rec \in Record /\ w \in Seq(WriteItem)
  /\ \A i \in DOMAIN w : w[i].op = "checkpoint"
  /\ \/ loc = "settle" /\ rec.state \in Terminal
     \/ /\ loc = "start" /\ rec.state = "queued"
        /\ ~Unsafe(r) /\ attempt[r] < MaxAttempts
  /\ pc' = [pc EXCEPT ![r] = loc] /\ mem' = [mem EXCEPT ![r] = rec]
  /\ todo' = [todo EXCEPT ![r] = w]
  /\ effect' \in [Runs -> Effects]
  /\ \A q \in Runs \ {r} : effect'[q] = effect[q]
  /\ Unsafe(r) /\ ~rec.unknown /\ rec.outcome \in Failures => effect'[r] = "refused"
  /\ UNCHANGED <<opts, accepted, attempt, claimed, cancelFlag, disk, checkpoint,
                 durableCancel, slot, incidents, faulty, reclaimed>>

\* The end of an attempt keeps the invariant.
LEMMA AttemptEndKeeps ==
  ASSUME MInv, NEW r \in Runs, NEW rec, NEW loc, NEW w, AttemptEnds(r, rec, loc, w)
  PROVE  Keeps
<1>1. TypeOK /\ Memory(r) /\ Saves(w) = {}
  BY DEF MInv, AttemptEnds, Saves
<1>2. TypeOK'
  <2>1. loc \in Locations
    BY DEF AttemptEnds, Locations
  <2>2. effect' \in [Runs -> Effects]
    BY <1>1 DEF AttemptEnds, TypeOK
  <2> QED BY <1>1, <2>1, <2>2 DEF AttemptEnds, TypeOK
<1>3. ASSUME NEW q \in Runs, q # r
      PROVE  Memory(q)' /\ (Recorded(q) => Recorded(q)')
  BY <1>1, <1>3, OtherRuns DEF MInv, TypeOK, AttemptEnds
<1>4. Memory(r)' /\ (Recorded(r) => Recorded(r)')
  <2>1. /\ pc'[r] = loc /\ mem'[r] = rec /\ todo'[r] = w
        /\ UNCHANGED <<opts, attempt, claimed, disk, faulty>>
    BY <1>1 DEF AttemptEnds, TypeOK
  <2>2. Fits(pc[r], mem[r].state)'
    BY <2>1 DEF AttemptEnds, Fits
  <2>3. Unlaunched(r)' /\ Honest(r)' /\ Holds(r)'
    BY <1>1, <2>1 DEF AttemptEnds, Memory, Unlaunched, Honest, Holds, Unsafe, Before
  <2>4. Recorded(r) => Visible(r)'
    <3> SUFFICES ASSUME Recorded(r) PROVE Visible(r)'
      OBVIOUS
    <3>1. ~opts[r].isolated /\ ~faulty => disk[r] # None /\ Shows(disk[r].state)
      BY <1>1 DEF Recorded, Visible, AttemptEnds
    <3>2. loc \in {"settle", "start"} /\ (loc = "settle" => rec.state \in Terminal)
      BY DEF AttemptEnds
    <3> HIDE DEF Shows
    <3> QED BY <1>1, <2>1, <3>1, <3>2 DEF Visible
  <2>5. Ends(r)' /\ (Recorded(r) => Final1(r)' /\ Reported(r)')
    BY <1>1, <2>1 DEF AttemptEnds, Recorded, Ends, Final1, Reported, DiskFinal
  <2> QED BY <2>2, <2>3, <2>4, <2>5 DEF Memory, Recorded
<1>5. ASSUME NEW q \in Runs, Winner(q)' PROVE Winner(q)
  <2>1. CASE q = r
    BY <1>1, <1>5, <2>1 DEF AttemptEnds, Memory, Holds, Winner, Contenders, Unsafe
  <2>2. CASE q # r
    BY <1>1, <1>5, <2>2 DEF AttemptEnds, Winner, Contenders, Unsafe, TypeOK
  <2> QED BY <2>1, <2>2
<1>6. SlotInv'
  BY <1>5, SameWinner DEF MInv, AttemptEnds
<1> QED BY <1>2, <1>3, <1>4, <1>6 DEF MInv, DInv, Keeps

\* An expired or failed attempt may be repeated when its effect is repeatable.
LEMMA RetryOnlyRepeatable ==
  ASSUME NEW error \in ErrorClasses, NEW idem, NEW allowed \in BOOLEAN,
         DecideRetry(error, idem, TRUE, allowed) = "retry"
  PROVE  idem \in Repeatable /\ allowed
BY DEF DecideRetry, ErrorClasses

\* Where an attempt was, its record was running, and its state says that a side
\* effect is possible.
LEMMA Acting ==
  ASSUME TypeOK, NEW r \in Runs, Memory(r), At(r, "acting")
  PROVE  /\ pc[r] = "acting" /\ todo[r] = <<>> /\ mem[r] \in Record
         /\ mem[r].state = "running" /\ (mem[r].state \in SideEffectPossible) = TRUE
         /\ (Unsafe(r) => attempt[r] = 1) /\ opts \in [Runs -> Options]
BY DEF At, Memory, Fits, TypeOK, SideEffectPossible, Unlaunched

\* The queue of an attempt that queues nothing.
LEMMA NothingQueued ==
  ASSUME TypeOK, NEW r \in Runs, todo[r] = <<>>, UNCHANGED todo
  PROVE  /\ todo' = [todo EXCEPT ![r] = <<>>] /\ <<>> \in Seq(WriteItem)
         /\ \A i \in DOMAIN <<>> : <<>>[i].op = "checkpoint"
BY DEF TypeOK

\* The queue of an attempt that queues a checkpoint.
LEMMA OneMark ==
  ASSUME TypeOK, NEW r \in Runs, NEW rec \in Record, NEW kind \in CheckpointKinds,
         todo[r] = <<>>, Queue(r, <<Mark(r, rec, kind)>>)
  PROVE  LET w == <<Mark(r, rec, kind)>>
         IN /\ todo' = [todo EXCEPT ![r] = w] /\ w \in Seq(WriteItem)
            /\ \A i \in DOMAIN w : w[i].op = "checkpoint"
<1>1. Mark(r, rec, kind) \in WriteItem
  BY Items DEF TypeOK
<1>2. Mark(r, rec, kind).op = "checkpoint"
  BY DEF Mark
<1> DEFINE m == Mark(r, rec, kind)
<1> HIDE DEF m
<1>3. <<m>> \in Seq(WriteItem) /\ \A i \in DOMAIN <<m>> : <<m>>[i].op = "checkpoint"
  BY <1>1, <1>2 DEF m
<1>4. todo' = [todo EXCEPT ![r] = <<m>>]
  BY <1>3, Queued DEF m
<1> QED BY <1>3, <1>4 DEF m

\* The action returns: a clean report of failure of an unsafe action is one of its
\* only attempt.
LEMMA ReturnEnds ==
  ASSUME TypeOK, NEW r \in Runs, Memory(r), Return(r)
  PROVE  \E rec, loc, w : AttemptEnds(r, rec, loc, w)
<1> DEFINE seen == Move(mem[r], "observe")
           w == <<Mark(r, seen, "step_completed")>>
<1>1. At(r, "acting")
  BY DEF Return
<1>2. /\ pc[r] = "acting" /\ todo[r] = <<>> /\ mem[r] \in Record
      /\ mem[r].state = "running" /\ (Unsafe(r) => attempt[r] = 1)
  BY <1>1, Acting
<1>3. seen \in Record /\ seen.state = "observing"
  BY <1>2, Taken, TableStates, MoveRecord
<1> HIDE DEF seen
<1> DEFINE dry == End(seen, "succeed", "dry_run_simulated", FALSE)
           good == End(seen, "succeed", "succeeded", FALSE)
           bad == End(seen, "fail", "failed", FALSE)
<1>4. /\ dry \in Record /\ dry.state \in Terminal /\ dry.outcome \notin Failures
      /\ good \in Record /\ good.state \in Terminal /\ good.outcome \notin Failures
      /\ bad \in Record /\ bad.state \in Terminal
  BY <1>3, Taken, TableStates DEF Terminal, OutcomeKinds, End, Move, Record, Failures
<1> HIDE DEF dry, good, bad
<1>5. Queue(r, w)
  BY DEF Return, seen
<1>6. /\ todo' = [todo EXCEPT ![r] = w] /\ w \in Seq(WriteItem)
      /\ \A i \in DOMAIN w : w[i].op = "checkpoint"
  BY <1>2, <1>3, <1>5, OneMark DEF CheckpointKinds
<1> HIDE DEF w
<1>7. /\ Goto(r, "settle")
      /\ UNCHANGED <<opts, accepted, attempt, claimed, cancelFlag, disk, checkpoint,
                     durableCancel, slot, incidents, faulty, reclaimed>>
  BY DEF Return, fixed, durable, history
<1>8. PICK ok \in BOOLEAN :
        /\ SetMem(r, IF opts[r].dryRun THEN dry ELSE IF ok THEN good ELSE bad)
        /\ effect' = [effect EXCEPT ![r] = IF ok \/ opts[r].dryRun
                                           THEN "done" ELSE AfterRefusal(r)]
  BY DEF Return, seen, dry, good, bad
<1>9. /\ effect' \in [Runs -> Effects] /\ \A q \in Runs \ {r} : effect'[q] = effect[q]
      /\ effect'[r] = IF ok \/ opts[r].dryRun THEN "done" ELSE AfterRefusal(r)
  BY <1>8 DEF TypeOK, Effects, AfterRefusal
<1>10. ASSUME NEW rec \in {dry, good, bad}, SetMem(r, rec),
              rec.outcome \in Failures => ~opts[r].dryRun /\ ~ok
       PROVE  AttemptEnds(r, rec, "settle", w)
  BY <1>2, <1>4, <1>6, <1>7, <1>9, <1>10 DEF AttemptEnds, AfterRefusal, SetMem, Goto
<1>11. CASE opts[r].dryRun
  BY <1>4, <1>8, <1>10, <1>11
<1>12. CASE ~opts[r].dryRun /\ ok
  BY <1>4, <1>8, <1>10, <1>12
<1>13. CASE ~opts[r].dryRun /\ ~ok
  BY <1>8, <1>10, <1>13
<1> QED BY <1>11, <1>12, <1>13

\* A cancelled attempt admits that its effect is unknown.
LEMMA CancelledEnds ==
  ASSUME TypeOK, NEW r \in Runs, Memory(r), At(r, "acting"), Cancelled(r),
         effect' \in [Runs -> Effects], \A q \in Runs \ {r} : effect'[q] = effect[q],
         UNCHANGED <<opts, accepted, attempt, claimed, cancelFlag, disk, checkpoint,
                     durableCancel, slot, incidents, faulty, reclaimed>>
  PROVE  \E rec, loc, w : AttemptEnds(r, rec, loc, w)
<1> DEFINE rec == End(mem[r], "cancel", "cancelled", mem[r].state \in SideEffectPossible)
           sure == End(mem[r], "cancel", "cancelled", TRUE)
           w == <<Mark(r, sure, "cleanup_completed")>>
<1>1. /\ pc[r] = "acting" /\ todo[r] = <<>> /\ mem[r] \in Record
      /\ mem[r].state = "running" /\ (mem[r].state \in SideEffectPossible) = TRUE
  BY Acting
<1>2. rec = sure
  BY <1>1
<1>3. sure \in Record /\ sure.state \in Terminal /\ sure.unknown
  BY <1>1, Taken, TableStates DEF Terminal, OutcomeKinds, End, Move, Record
<1>4. SetMem(r, rec) /\ Queue(r, <<Mark(r, rec, "cleanup_completed")>>) /\ Goto(r, "settle")
  BY DEF Cancelled
<1> HIDE DEF rec, sure
<1>5. /\ todo' = [todo EXCEPT ![r] = w] /\ w \in Seq(WriteItem)
      /\ \A i \in DOMAIN w : w[i].op = "checkpoint"
  BY <1>1, <1>2, <1>3, <1>4, OneMark DEF CheckpointKinds
<1> HIDE DEF w
<1>6. AttemptEnds(r, sure, "settle", w)
  BY <1>1, <1>2, <1>3, <1>4, <1>5 DEF AttemptEnds, SetMem, Goto
<1> QED BY <1>6

\* A final record, or the next attempt of one that may be repeated.
LEMMA RetryEnds ==
  ASSUME TypeOK, NEW r \in Runs, Memory(r), At(r, "acting"),
         NEW last \in Record, last.state \in Terminal, last.unknown,
         NEW verdict, RetryOr(r, last, verdict), UNCHANGED todo,
         verdict = "retry" => /\ last.state \in {"failed", "timed_out"}
                              /\ ~Unsafe(r) /\ attempt[r] < MaxAttempts,
         effect' \in [Runs -> Effects], \A q \in Runs \ {r} : effect'[q] = effect[q],
         UNCHANGED <<opts, accepted, attempt, claimed, cancelFlag, disk, checkpoint,
                     durableCancel, slot, incidents, faulty, reclaimed>>
  PROVE  \E rec, loc, w : AttemptEnds(r, rec, loc, w)
<1> DEFINE again == [Move(last, "retry") EXCEPT !.outcome = "none", !.unknown = FALSE]
<1>1. pc[r] = "acting" /\ todo[r] = <<>>
  BY Acting
<1>2. /\ todo' = [todo EXCEPT ![r] = <<>>] /\ <<>> \in Seq(WriteItem)
      /\ \A i \in DOMAIN <<>> : <<>>[i].op = "checkpoint"
  BY <1>1, NothingQueued
<1>3. CASE verdict = "retry"
  <2>1. Move(last, "retry") \in Record /\ Move(last, "retry").state = "queued"
    BY <1>3, Taken, TableStates, MoveRecord
  <2>2. again \in Record /\ again.state = "queued" /\ again.outcome = "none"
    BY <2>1 DEF Record, OutcomeKinds
  <2>3. SetMem(r, again) /\ Goto(r, "start")
    BY <1>3 DEF RetryOr
  <2> HIDE DEF again
  <2>4. AttemptEnds(r, again, "start", <<>>)
    BY <1>1, <1>2, <1>3, <2>2, <2>3 DEF AttemptEnds, SetMem, Goto, Failures
  <2> QED BY <2>4
<1>4. CASE verdict # "retry"
  <2>1. AttemptEnds(r, last, "settle", <<>>)
    BY <1>1, <1>2, <1>4 DEF RetryOr, AttemptEnds, SetMem, Goto
  <2> QED BY <2>1
<1> QED BY <1>3, <1>4

\* The timer: an expired attempt admits that its effect is unknown, and an unsafe
\* one is not repeated.
LEMMA ExpireEnds ==
  ASSUME TypeOK, NEW r \in Runs, Memory(r), Expire(r)
  PROVE  \E rec, loc, w : AttemptEnds(r, rec, loc, w)
<1> DEFINE late == End(mem[r], "timeout", "timed_out", TRUE)
<1>1. At(r, "acting")
  BY DEF Expire
<1>2. /\ mem[r] \in Record /\ mem[r].state = "running"
      /\ (mem[r].state \in SideEffectPossible) = TRUE
  BY <1>1, Acting
<1>3. late \in Record /\ late.state = "timed_out" /\ late.state \in Terminal /\ late.unknown
  BY <1>2, Taken, TableStates DEF Terminal, OutcomeKinds, End, Move, Record
<1>4. PICK allowed \in BOOLEAN :
        /\ allowed => attempt[r] < MaxAttempts
        /\ RetryOr(r, late, DecideRetry("retryable", opts[r].idem, TRUE, allowed))
  BY <1>2 DEF Expire
<1> DEFINE verdict == DecideRetry("retryable", opts[r].idem, TRUE, allowed)
<1>5. verdict = "retry" => ~Unsafe(r) /\ attempt[r] < MaxAttempts
  BY <1>4, RetryOnlyRepeatable DEF ErrorClasses, Unsafe
<1>6. RetryOr(r, late, verdict)
  BY <1>4
<1>7. /\ effect' \in [Runs -> Effects] /\ \A q \in Runs \ {r} : effect'[q] = effect[q]
      /\ UNCHANGED <<opts, accepted, attempt, claimed, cancelFlag, todo, disk, checkpoint,
                     durableCancel, slot, incidents, faulty, reclaimed>>
  BY DEF Expire, TypeOK, Effects, fixed, durable, history
<1> HIDE DEF late, verdict
<1> QED BY <1>1, <1>3, <1>5, <1>6, <1>7, RetryEnds

\* The action throws.
LEMMA ThrowEnds ==
  ASSUME TypeOK, NEW r \in Runs, Memory(r), Throw(r)
  PROVE  \E rec, loc, w : AttemptEnds(r, rec, loc, w)
<1> DEFINE failed == End(mem[r], "fail", "failed", TRUE)
           upgraded == [failed EXCEPT !.state = "reconciliation_required",
                                      !.outcome = "reconciliation_required"]
<1>1. At(r, "acting")
  BY DEF Throw
<1>2. /\ mem[r] \in Record /\ mem[r].state = "running"
      /\ (mem[r].state \in SideEffectPossible) = TRUE
  BY <1>1, Acting
<1>3. failed \in Record /\ failed.state = "failed" /\ failed.state \in Terminal /\ failed.unknown
  BY <1>2, Taken, TableStates DEF Terminal, OutcomeKinds, End, Move, Record
<1>4. /\ upgraded \in Record /\ upgraded.state = "reconciliation_required"
      /\ upgraded.state \in Terminal /\ upgraded.unknown
  BY <1>3, TableStates DEF Terminal, OutcomeKinds, Record
<1>5. /\ effect' \in [Runs -> Effects] /\ \A q \in Runs \ {r} : effect'[q] = effect[q]
      /\ UNCHANGED <<opts, accepted, attempt, claimed, cancelFlag, disk, checkpoint,
                     durableCancel, slot, incidents, faulty, reclaimed>>
  BY DEF Throw, TypeOK, Effects, fixed, durable, history
<1>6. CASE cancelFlag[r] /\ Cancelled(r)
  BY <1>1, <1>5, <1>6, CancelledEnds
<1>7. CASE ~cancelFlag[r]
  <2>1. UNCHANGED todo
    BY <1>7 DEF Throw
  <2>2. PICK error \in ErrorClasses, allowed \in BOOLEAN :
          /\ allowed => attempt[r] < MaxAttempts
          /\ LET verdict == DecideRetry(error, opts[r].idem, TRUE, allowed)
             IN RetryOr(r, IF verdict = "reconcile" \/ opts[r].idem = "non_idempotent"
                             THEN upgraded ELSE failed, verdict)
    BY <1>2, <1>7 DEF Throw
  <2> DEFINE verdict == DecideRetry(error, opts[r].idem, TRUE, allowed)
             last == IF verdict = "reconcile" \/ opts[r].idem = "non_idempotent"
                       THEN upgraded ELSE failed
  <2>3. verdict = "retry" => ~Unsafe(r) /\ attempt[r] < MaxAttempts
    BY <2>2, RetryOnlyRepeatable DEF Unsafe
  <2>4. verdict = "retry" => last = failed
    BY <2>3 DEF Unsafe, Repeatable
  <2>5. last \in {upgraded, failed}
    OBVIOUS
  <2>6. RetryOr(r, last, verdict)
    BY <2>2
  <2> HIDE DEF verdict, last, failed, upgraded
  <2>7. last \in Record /\ last.state \in Terminal /\ last.unknown
    BY <1>3, <1>4, <2>5
  <2> QED BY <1>1, <1>3, <1>5, <2>1, <2>3, <2>4, <2>6, <2>7, RetryEnds
<1> QED BY <1>6, <1>7 DEF Throw

\* Every end of an attempt keeps the invariant.
LEMMA ActingKeeps ==
  ASSUME MInv, NEW r \in Runs, Return(r) \/ CancelWatch(r) \/ Expire(r) \/ Throw(r)
  PROVE  Keeps
<1>1. TypeOK /\ Memory(r)
  BY DEF MInv
<1>2. CASE CancelWatch(r)
  <2>1. At(r, "acting") /\ Cancelled(r)
    BY <1>2 DEF CancelWatch
  <2>2. /\ effect' \in [Runs -> Effects] /\ \A q \in Runs \ {r} : effect'[q] = effect[q]
        /\ UNCHANGED <<opts, accepted, attempt, claimed, cancelFlag, disk, checkpoint,
                       durableCancel, slot, incidents, faulty, reclaimed>>
    BY <1>1, <1>2 DEF CancelWatch, TypeOK, fixed, durable, history
  <2> QED BY <1>1, <2>1, <2>2, CancelledEnds, AttemptEndKeeps
<1>3. CASE Return(r) \/ Expire(r) \/ Throw(r)
  BY <1>1, <1>3, ReturnEnds, ExpireEnds, ThrowEnds, AttemptEndKeeps
<1> QED BY <1>2, <1>3

\* An abandoned action that ends late had already begun, and a call that has
\* reported a failure admitted it.
LEMMA LateReturnKeeps ==
  ASSUME MInv, NEW r \in Runs, LateReturn(r)
  PROVE  Keeps
<1>1. /\ TypeOK /\ Memory(r) /\ effect[r] = "running"
      /\ pc[r] \in {"start", "launch", "settle", "returned"}
      /\ effect' = [effect EXCEPT ![r] = "done"]
      /\ UNCHANGED <<opts, pc, mem, attempt, claimed, cancelFlag, todo, disk, checkpoint,
                     durableCancel, slot, accepted, incidents, faulty, reclaimed>>
  BY DEF MInv, LateReturn, control, durable, history
<1>2. TypeOK'
  BY <1>1 DEF TypeOK, Effects
<1>3. ASSUME NEW q \in Runs, q # r
      PROVE  Memory(q)' /\ (Recorded(q) => Recorded(q)')
  BY <1>1, <1>3, OtherRuns DEF MInv, TypeOK
<1>4. effect'[r] = "done"
  BY <1>1 DEF TypeOK
<1>5. Memory(r)' /\ (Recorded(r) => Recorded(r)')
  <2>1. Fits(pc[r], mem[r].state)' /\ Holds(r)' /\ Ends(r)' /\ (Recorded(r) => Final1(r)' /\ Reported(r)')
    BY <1>1 DEF Memory, Holds, Ends, Recorded, Final1, Reported, Saves, DiskFinal, Unsafe
  <2>2. Unlaunched(r)' /\ Honest(r)'
    BY <1>1 DEF Memory, Unlaunched, Honest, Unsafe, Before
  <2>3. Recorded(r) => Visible(r)'
    BY <1>1, <1>4 DEF Recorded, Visible, Saves
  <2> QED BY <2>1, <2>2, <2>3 DEF Memory, Recorded
<1>6. ASSUME NEW q \in Runs, Winner(q)' PROVE Winner(q)
  BY <1>1, <1>6 DEF Winner, Contenders, Unsafe, TypeOK
<1>7. SlotInv'
  BY <1>1, <1>6, SameWinner DEF MInv
<1> QED BY <1>2, <1>3, <1>5, <1>7 DEF MInv, DInv, Keeps

-----------------------------------------------------------------------------
\* What a queued write carries.
LEMMA ItemParts ==
  ASSUME NEW item \in WriteItem
  PROVE  /\ item.op \in {"save", "final"} => item.rec \in Record
         /\ item.op = "checkpoint" => item.cp \in Checkpoint
         /\ item.op = "slot" => item.to \in SlotStates
BY DEF WriteItem

\* What is left of a queue when its first write is done.
LEMMA Rest ==
  ASSUME NEW s \in Seq(WriteItem), s # <<>>
  PROVE  /\ Head(s) = s[1] /\ Head(s) \in WriteItem /\ 1 \in DOMAIN s
         /\ Tail(s) \in Seq(WriteItem)
         /\ Len(s) \in Nat /\ Len(Tail(s)) = Len(s) - 1
         /\ Tail(s) = <<>> <=> Len(s) = 1
         /\ \A i \in DOMAIN Tail(s) : Tail(s)[i] = s[i + 1] /\ i + 1 \in DOMAIN s
         /\ \A i \in Saves(Tail(s)) : Tail(s)[i] = s[i + 1] /\ i + 1 \in Saves(s)
<1> DEFINE t == Tail(s)
<1>1. /\ t \in Seq(WriteItem) /\ Len(t) = Len(s) - 1 /\ Head(s) \in WriteItem
      /\ \A i \in 1..Len(t) : t[i] = s[i + 1]
  BY HeadTailProperties
<1>2. Len(s) \in Nat /\ Len(s) # 0 /\ DOMAIN s = 1..Len(s) /\ Head(s) = s[1]
  BY EmptySeq
<1> HIDE DEF t
<1>3. t = <<>> <=> Len(s) = 1
  <2>1. t = <<>> <=> Len(t) = 0
    BY <1>1
  <2> QED BY <1>1, <1>2, <2>1
<1>4. DOMAIN t = 1..Len(t)
  BY <1>1
<1>5. \A i \in DOMAIN t : t[i] = s[i + 1] /\ i + 1 \in DOMAIN s
  BY <1>1, <1>2, <1>4
<1>6. \A i \in Saves(t) : t[i] = s[i + 1] /\ i + 1 \in Saves(s)
  BY <1>5 DEF Saves
<1>7. 1 \in DOMAIN s
  BY <1>2
<1> QED BY <1>1, <1>2, <1>3, <1>5, <1>6, <1>7 DEF t

\* The call hands its slot and its record to the database.
LEMMA SettleKeeps ==
  ASSUME MInv, NEW r \in Runs, Settle(r)
  PROVE  Keeps
<1> DEFINE f == Final(mem[r])
           sl == SlotTo(SettledSlot(mem[r]))
           w == IF claimed[r] THEN <<sl, f>> ELSE <<f>>
<1>1. /\ TypeOK /\ Memory(r) /\ pc[r] = "settle" /\ todo[r] = <<>> /\ mem[r] \in Record
  BY DEF MInv, Settle, At, TypeOK
<1>2. SettledSlot(mem[r]) \in SlotStates \ {"absent"}
  BY DEF SettledSlot, SlotStates
<1>3. /\ f \in WriteItem /\ f.op = "final" /\ f.rec = mem[r] /\ f = Final(mem[r])
      /\ sl \in WriteItem /\ sl.op = "slot" /\ sl.to # "absent"
  BY <1>1, <1>2, Items DEF Final, SlotTo, TypeOK
<1>4. Queue(r, (IF claimed[r] THEN <<sl>> ELSE <<>>) \o <<f>>)
  BY DEF Settle
<1> HIDE DEF f, sl
<1>5. (IF claimed[r] THEN <<sl>> ELSE <<>>) \o <<f>> = w
  <2>1. <<sl>> \o <<f>> = <<sl, f>>
    BY <1>3, Joined
  <2>2. <<f>> \in Seq(WriteItem)
    BY <1>3
  <2>3. <<>> \o <<f>> = <<f>>
    BY <2>2, ConcatEmptySeq
  <2> QED BY <2>1, <2>3
<1>6. /\ w \in Seq(WriteItem) /\ w # <<>> /\ Len(w) \in DOMAIN w /\ w[Len(w)] = f
      /\ \A i \in DOMAIN w : w[i].op = "slot" => w[i].to # "absent"
      /\ \A i \in Saves(w) : i = Len(w)
  BY <1>3 DEF Saves
<1> HIDE DEF w
<1>7. /\ todo' = [todo EXCEPT ![r] = w] /\ pc' = [pc EXCEPT ![r] = "returned"]
      /\ cancelFlag' = [cancelFlag EXCEPT ![r] = FALSE]
      /\ UNCHANGED <<opts, accepted, mem, attempt, claimed, disk, checkpoint, durableCancel,
                     slot, effect, incidents, faulty, reclaimed>>
  BY <1>1, <1>4, <1>5, <1>6, Queued DEF Settle, Goto, fixed, durable, history
<1>8. TypeOK'
  BY <1>1, <1>6, <1>7 DEF TypeOK, Locations
<1>9. ASSUME NEW q \in Runs, q # r
      PROVE  Memory(q)' /\ (Recorded(q) => Recorded(q)')
  BY <1>1, <1>7, <1>9, OtherRuns DEF MInv, TypeOK
<1>10. Memory(r)' /\ (Recorded(r) => Recorded(r)')
  <2>1. /\ pc'[r] = "returned" /\ todo'[r] = w
        /\ UNCHANGED <<opts, mem, attempt, claimed, disk, effect, faulty>>
    BY <1>1, <1>7 DEF TypeOK
  <2>2. Fits(pc[r], mem[r].state)' /\ Unlaunched(r)' /\ Honest(r)' /\ Holds(r)'
    BY <1>1, <1>6, <2>1 DEF Memory, Fits, Unlaunched, Honest, Holds, Unsafe, Before
  <2>3. Recorded(r) => Visible(r)'
    BY <1>1, <1>3, <1>6, <2>1 DEF Recorded, Visible, Shows
  <2>4. Ends(r)' /\ (Recorded(r) => Final1(r)' /\ Reported(r)')
    BY <1>1, <1>3, <1>6, <2>1 DEF Memory, Ends, Recorded, Final1, Reported, DiskFinal
  <2> QED BY <2>2, <2>3, <2>4 DEF Memory, Recorded
<1>11. SlotInv'
  BY <1>1, <1>7, SameWinner DEF MInv, Winner, Contenders, Unsafe
<1> QED BY <1>8, <1>9, <1>10, <1>11 DEF MInv, DInv, Keeps

\* A write commits: what is said of the queue is then said of the database.
LEMMA WriteDoneKeeps ==
  ASSUME MInv, NEW r \in Runs, Write(r), WriteDone(r)
  PROVE  Keeps
<1> DEFINE t == todo[r]
           u == Tail(t)
           item == Head(t)
<1>1. /\ TypeOK /\ Memory(r) /\ t # <<>> /\ t \in Seq(WriteItem)
      /\ todo' = [todo EXCEPT ![r] = u]
      /\ UNCHANGED <<opts, accepted, pc, mem, attempt, claimed, cancelFlag, effect,
                     incidents, faulty, reclaimed>>
  BY DEF MInv, Write, WriteDone, TypeOK, fixed, history
<1>2. /\ disk' = IF item.op \in {"save", "final"}
                   THEN [disk EXCEPT ![r] = item.rec] ELSE disk
      /\ checkpoint' = IF item.op = "checkpoint"
                         THEN [checkpoint EXCEPT ![r] = item.cp] ELSE checkpoint
      /\ slot' = IF item.op = "slot" THEN item.to ELSE slot
      /\ durableCancel' = IF item.op = "cancellation"
                            THEN [durableCancel EXCEPT ![r] = TRUE] ELSE durableCancel
  BY DEF WriteDone
<1>3. /\ item = t[1] /\ item \in WriteItem /\ 1 \in DOMAIN t /\ u \in Seq(WriteItem)
      /\ Len(t) \in Nat /\ Len(u) = Len(t) - 1
      /\ u = <<>> <=> Len(t) = 1
      /\ \A i \in DOMAIN u : u[i] = t[i + 1] /\ i + 1 \in DOMAIN t
      /\ \A i \in Saves(u) : u[i] = t[i + 1] /\ i + 1 \in Saves(t)
  BY <1>1, Rest
<1>4. /\ item.op \in {"save", "final"} => item.rec \in Record /\ item.rec # None /\ 1 \in Saves(t)
      /\ item.op = "checkpoint" => item.cp \in Checkpoint
      /\ item.op = "slot" => item.to \in SlotStates /\ item.to # "absent"
  BY <1>1, <1>3, ItemParts, NoneAssumption DEF Saves, Memory, Holds
<1> HIDE DEF t, u, item
<1>5. TypeOK'
  BY <1>1, <1>2, <1>3, <1>4 DEF TypeOK
<1>6. ASSUME NEW q \in Runs, q # r
      PROVE  Memory(q)' /\ (Recorded(q) => Recorded(q)')
  <2>1. todo'[q] = todo[q] /\ disk'[q] = disk[q]
    BY <1>1, <1>2, <1>6 DEF TypeOK
  <2> QED BY <1>1, <2>1, OtherRuns DEF MInv, DInv, Keeps
<1>7. Memory(r)' /\ (Recorded(r) => Recorded(r)')
  <2>1. /\ todo'[r] = u
        /\ disk'[r] = IF item.op \in {"save", "final"} THEN item.rec ELSE disk[r]
        /\ UNCHANGED <<opts, pc, mem, attempt, claimed, effect, faulty>>
    BY <1>1, <1>2 DEF TypeOK
  <2>2. \/ disk'[r] = t[1].rec /\ 1 \in Saves(t) /\ disk'[r] # None
        \/ disk'[r] = disk[r]
    BY <1>3, <1>4, <2>1
  <2>3. Fits(pc[r], mem[r].state)' /\ Unlaunched(r)' /\ Honest(r)'
    BY <1>1, <2>1 DEF Memory, Fits, Unlaunched, Honest, Unsafe, Before
  <2>4. Holds(r)'
    BY <1>1, <1>3, <2>1 DEF Memory, Holds, Unsafe, t
  <2>5. Recorded(r) => Visible(r)'
    <3> SUFFICES ASSUME Recorded(r), ~opts[r].isolated, ~faulty PROVE
          /\ effect[r] # "none" \/ pc[r] = "acting" =>
               /\ disk'[r] # None /\ Shows(disk'[r].state)
               /\ \A i \in Saves(u) : Shows(u[i].rec.state)
               /\ pc[r] = "settle" => mem[r].state \in Terminal
          /\ pc[r] = "launch" =>
               /\ u = <<>> => disk'[r] # None /\ disk'[r].state = "running"
               /\ \A i \in Saves(u) : u[i].rec.state = "running"
               /\ u # <<>> => Len(u) \in Saves(u)
      BY <2>1 DEF Visible
    <3>1. Visible(r)
      BY DEF Recorded
    <3>2. ASSUME effect[r] # "none" \/ pc[r] = "acting"
          PROVE  /\ disk'[r] # None /\ Shows(disk'[r].state)
                 /\ \A i \in Saves(u) : Shows(u[i].rec.state)
                 /\ pc[r] = "settle" => mem[r].state \in Terminal
      <4> HIDE DEF Shows
      <4> QED BY <1>3, <2>2, <3>1, <3>2 DEF Visible, t
    <3>3. ASSUME pc[r] = "launch"
          PROVE  /\ u = <<>> => disk'[r] # None /\ disk'[r].state = "running"
                 /\ \A i \in Saves(u) : u[i].rec.state = "running"
                 /\ u # <<>> => Len(u) \in Saves(u)
      <4>1. (\A i \in Saves(t) : t[i].rec.state = "running") /\ Len(t) \in Saves(t)
        BY <1>1, <3>1, <3>3 DEF Visible, t
      <4>2. u = <<>> => disk'[r] # None /\ disk'[r].state = "running"
        <5>1. u = <<>> => item.op \in {"save", "final"}
          BY <1>3, <4>1 DEF Saves
        <5> QED BY <1>3, <1>4, <2>1, <4>1, <5>1
      <4>3. u # <<>> => Len(u) \in Saves(u)
        <5>1. u # <<>> => Len(u) \in DOMAIN u /\ Len(u) + 1 = Len(t)
          BY <1>3
        <5> QED BY <1>3, <4>1, <5>1 DEF Saves
      <4> QED BY <1>3, <4>1, <4>2, <4>3
    <3> QED BY <3>2, <3>3
  <2>6. Ends(r)
    BY <1>1 DEF Memory
  <2>7. \A i \in Saves(u) : i \in DOMAIN u /\ i \in Int
    BY <1>3 DEF Saves
  <2>8. ASSUME pc[r] = "settle"
        PROVE  \A i \in Saves(u) : u[i].rec.state \in Terminal =>
                 i = Len(u) /\ u[i].rec.state = mem[r].state /\ mem[r].state = "denied"
    <3>1. \A i \in Saves(t) : t[i].rec.state \in Terminal =>
            i = Len(t) /\ t[i].rec.state = mem[r].state /\ mem[r].state = "denied"
      BY <2>6, <2>8 DEF Ends, t
    <3> QED BY <1>3, <2>7, <3>1
  <2>9. ASSUME pc[r] = "returned"
        PROVE  /\ \A i \in Saves(t) : i = Len(t)
               /\ t[Len(t)] = Final(mem[r])
               /\ \A i \in Saves(u) : i = Len(u)
               /\ u # <<>> => u[Len(u)] = Final(mem[r]) /\ Len(t) # 1
    <3>1. (\A i \in Saves(t) : i = Len(t)) /\ t[Len(t)] = Final(mem[r])
      BY <1>1, <2>6, <2>9 DEF Ends, t
    <3>2. \A i \in Saves(u) : i = Len(u)
      BY <1>3, <2>7, <3>1
    <3>3. u # <<>> => Len(u) \in DOMAIN u
      BY <1>3
    <3> QED BY <1>3, <3>1, <3>2, <3>3
  <2>10. Ends(r)'
    <3>1. pc[r] \notin {"settle", "returned"} =>
            \A i \in Saves(u) : u[i].rec.state \notin Terminal
      BY <1>3, <2>6 DEF Ends, t
    <3>2. pc[r] # "crashed"
      BY <1>1, <2>6 DEF Ends, t
    <3> QED BY <2>1, <2>8, <2>9, <3>1, <3>2 DEF Ends
  <2>11. Recorded(r) => Final1(r)'
    <3> SUFFICES ASSUME Recorded(r) PROVE Final1(r)'
      OBVIOUS
    <3>1. pc[r] \notin {"settle", "returned", "crashed"} =>
            ~(disk'[r] # None /\ disk'[r].state \in Terminal)
      BY <2>2, <2>6 DEF Recorded, Final1, DiskFinal, Ends, t
    <3>2. ASSUME pc[r] = "settle", disk'[r] # None, disk'[r].state \in Terminal
          PROVE  disk'[r].state = mem[r].state /\ Saves(u) = {}
      <4>1. CASE disk'[r] = disk[r]
        <5>1. disk[r].state = mem[r].state /\ Saves(t) = {}
          BY <3>2, <4>1 DEF Recorded, Final1, DiskFinal, t
        <5> QED BY <1>3, <4>1, <5>1
      <4>2. CASE disk'[r] = t[1].rec /\ 1 \in Saves(t)
        <5>1. Len(t) = 1 /\ disk'[r].state = mem[r].state
          BY <2>6, <3>2, <4>2 DEF Ends, t
        <5>2. Saves(u) = {}
          BY <1>3, <5>1 DEF Saves
        <5> QED BY <5>1, <5>2
      <4> QED BY <2>2, <4>1, <4>2
    <3> QED BY <2>1, <3>1, <3>2 DEF Final1, DiskFinal
  <2>12. Recorded(r) => Reported(r)'
    <3> SUFFICES ASSUME Recorded(r), pc[r] = "returned" PROVE Reported(r)'
      BY <2>1 DEF Reported
    <3>1. DiskFinal(r) => disk[r].state = mem[r].state
      BY <1>1 DEF Recorded, Reported, t
    <3>2. u # <<>> => disk'[r] = disk[r]
      BY <2>2, <2>9
    <3>3. u = <<>> => disk'[r] = mem[r] /\ disk'[r] # None
      <4>1. u = <<>> => item = Final(mem[r])
        BY <1>3, <2>9
      <4> QED BY <1>4, <2>1, <4>1 DEF Final
    <3> QED BY <2>1, <3>1, <3>2, <3>3 DEF Reported, DiskFinal
  <2> QED BY <2>3, <2>4, <2>5, <2>10, <2>11, <2>12 DEF Memory, Recorded
<1>8. SlotInv'
  <2>1. \A q \in Runs : Winner(q)' => Winner(q)
    BY <1>1 DEF Winner, Contenders, Unsafe
  <2> QED BY <1>1, <1>2, <1>4, <2>1, SameWinner DEF MInv, DInv, Keeps
<1> QED BY <1>5, <1>6, <1>7, <1>8 DEF MInv, DInv, Keeps

\* A write fails: the fault is noted, and a success whose record is lost is withdrawn.
LEMMA WriteFailedKeeps ==
  ASSUME MInv, NEW r \in Runs, Write(r), WriteFailed(r)
  PROVE  Keeps
<1> DEFINE t == todo[r]
           u == Tail(t)
           item == Head(t)
           lost == [mem[r] EXCEPT !.state = "reconciliation_required",
                                  !.outcome = "reconciliation_required"]
<1>1. /\ TypeOK /\ Memory(r) /\ t # <<>> /\ t \in Seq(WriteItem) /\ mem[r] \in Record
      /\ todo' = [todo EXCEPT ![r] = u] /\ Incident(TRUE)
      /\ UNCHANGED <<opts, accepted, pc, attempt, claimed, cancelFlag, effect,
                     disk, checkpoint, slot, durableCancel>>
  BY DEF MInv, Write, WriteFailed, TypeOK, fixed, durable
<1>2. \/ mem' = [mem EXCEPT ![r] = lost] /\ item.op = "final" /\ item.rec.outcome = "succeeded"
      \/ mem' = mem /\ ~(item.op = "final" /\ item.rec.outcome = "succeeded")
  BY DEF WriteFailed, SetMem
<1>3. /\ item = t[1] /\ 1 \in DOMAIN t /\ u \in Seq(WriteItem)
      /\ Len(t) \in Nat /\ Len(u) = Len(t) - 1
      /\ u = <<>> <=> Len(t) = 1
      /\ \A i \in DOMAIN u : u[i] = t[i + 1] /\ i + 1 \in DOMAIN t
      /\ \A i \in Saves(u) : u[i] = t[i + 1] /\ i + 1 \in Saves(t)
  BY <1>1, Rest
<1>4. /\ incidents' \in 0..MaxIncidents /\ reclaimed' = reclaimed /\ faulty' = TRUE
  <2>1. faulty' \in BOOLEAN /\ faulty'
    BY <1>1, IncidentCounted
  <2> QED BY <1>1, <2>1, IncidentCounted
<1>5. item.op = "final" => pc[r] = "returned" /\ 1 \in Saves(t) /\ Len(t) = 1
  BY <1>1, <1>3 DEF Memory, Holds, Ends, Saves, t
<1>6. lost \in Record /\ lost.outcome = "reconciliation_required"
      /\ lost.state = "reconciliation_required" /\ lost.unknown = mem[r].unknown
  BY <1>1, TableStates DEF Record, OutcomeKinds, Terminal
<1>7. \/ mem'[r] = lost /\ pc[r] = "returned" /\ u = <<>>
      \/ mem'[r] = mem[r] /\ ~(item.op = "final" /\ item.rec.outcome = "succeeded")
  BY <1>1, <1>2, <1>3, <1>5 DEF TypeOK
<1> HIDE DEF t, u, item, lost
<1>8. TypeOK'
  BY <1>1, <1>2, <1>3, <1>4, <1>6 DEF TypeOK
<1>9. ASSUME NEW q \in Runs, q # r
      PROVE  Memory(q)' /\ (Recorded(q) => Recorded(q)')
  <2>1. todo'[q] = todo[q] /\ mem'[q] = mem[q]
    BY <1>1, <1>2, <1>9 DEF TypeOK
  <2> QED BY <1>1, <1>4, <2>1, OtherRuns DEF MInv, DInv, Keeps
<1>10. Memory(r)' /\ (Recorded(r) => Recorded(r)')
  <2>1. todo'[r] = u
    BY <1>1 DEF TypeOK
  <2>2. Fits(pc[r], mem[r].state)' /\ Unlaunched(r)' /\ Visible(r)'
    BY <1>1, <1>4, <1>7 DEF Memory, Fits, Unlaunched, Visible, Unsafe, Before
  <2>3. Honest(r)'
    BY <1>1, <1>6, <1>7 DEF Memory, Honest, Unsafe, Failures
  <2>4. Holds(r)'
    BY <1>1, <1>3, <2>1 DEF Memory, Holds, Unsafe, t
  <2>5. Ends(r)
    BY <1>1 DEF Memory
  <2>6. \A i \in Saves(u) : i \in DOMAIN u /\ i \in Int
    BY <1>3 DEF Saves
  <2>7. ASSUME pc[r] = "settle"
        PROVE  /\ mem'[r] = mem[r]
               /\ \A i \in Saves(u) : u[i].rec.state \in Terminal =>
                    i = Len(u) /\ u[i].rec.state = mem[r].state /\ mem[r].state = "denied"
    <3>1. \A i \in Saves(t) : t[i].rec.state \in Terminal =>
            i = Len(t) /\ t[i].rec.state = mem[r].state /\ mem[r].state = "denied"
      BY <2>5, <2>7 DEF Ends, t
    <3> QED BY <1>3, <1>7, <2>6, <2>7, <3>1
  <2>8. ASSUME pc[r] = "returned"
        PROVE  /\ \A i \in Saves(u) : i = Len(u)
               /\ u # <<>> => u[Len(u)] = Final(mem[r]) /\ mem'[r] = mem[r]
               /\ u = <<>> => mem'[r].outcome # "succeeded"
    <3>1. (\A i \in Saves(t) : i = Len(t)) /\ t[Len(t)] = Final(mem[r])
      BY <1>1, <2>5, <2>8 DEF Ends, t
    <3>2. \A i \in Saves(u) : i = Len(u)
      BY <1>3, <2>6, <3>1
    <3>3. u # <<>> => u[Len(u)] = Final(mem[r]) /\ mem'[r] = mem[r]
      <4>1. u # <<>> => Len(u) \in DOMAIN u
        BY <1>3
      <4> QED BY <1>3, <1>7, <3>1, <4>1
    <3>4. u = <<>> => mem'[r].outcome # "succeeded"
      <4>1. u = <<>> => item = Final(mem[r])
        BY <1>3, <3>1
      <4> QED BY <1>6, <1>7, <4>1 DEF Final
    <3> QED BY <3>2, <3>3, <3>4
  <2>9. Ends(r)'
    <3>1. /\ pc[r] \notin {"settle", "returned"} =>
               \A i \in Saves(u) : u[i].rec.state \notin Terminal
          /\ pc[r] # "crashed"
      BY <1>1, <1>3, <2>5 DEF Ends, t
    <3> QED BY <1>1, <2>1, <2>7, <2>8, <3>1 DEF Ends
  <2>10. Recorded(r) => Final1(r)' /\ Reported(r)'
    <3> SUFFICES ASSUME Recorded(r) PROVE Final1(r)' /\ Reported(r)'
      OBVIOUS
    <3>1. pc[r] = "settle" => mem'[r] = mem[r] /\ (Saves(t) = {} => Saves(u) = {})
      BY <1>3, <2>7
    <3>2. Final1(r)'
      BY <1>1, <2>1, <3>1 DEF Recorded, Final1, DiskFinal, t
    <3>3. Reported(r)'
      BY <1>1, <2>1, <2>8 DEF Recorded, Reported, DiskFinal, t
    <3> QED BY <3>2, <3>3
  <2> QED BY <2>2, <2>3, <2>4, <2>9, <2>10 DEF Memory, Recorded
<1>11. SlotInv'
  <2>1. \A q \in Runs : Winner(q)' => Winner(q)
    BY <1>1 DEF Winner, Contenders, Unsafe
  <2> QED BY <1>1, <1>4, <2>1, SameWinner DEF MInv, DInv, Keeps
<1> QED BY <1>8, <1>9, <1>10, <1>11 DEF MInv, DInv, Keeps

-----------------------------------------------------------------------------
\* A cancellation, or the stop of the runtime, of a run that waits: nothing is said
\* of the record, and what is queued saves none.
LEMMA AskedToStop ==
  ASSUME MInv, NEW r \in Runs, Waiting(r), Incident(FALSE), NEW w, Harmless(w),
         Saves(w) = {}, Queue(r, w), cancelFlag' = [cancelFlag EXCEPT ![r] = TRUE],
         UNCHANGED <<fixed, pc, mem, attempt, claimed, durable, effect>>
  PROVE  Keeps
<1>1. /\ TypeOK /\ Memory(r) /\ todo[r] = <<>>
      /\ pc[r] \in {"policy", "approval", "environment", "acting", "start"}
      /\ UNCHANGED <<opts, accepted, pc, mem, attempt, claimed, effect, disk, checkpoint,
                     durableCancel, slot>>
  BY DEF MInv, Waiting, At, fixed, durable
<1>2. /\ todo' = [todo EXCEPT ![r] = w] /\ w \in Seq(WriteItem)
      /\ \A i \in DOMAIN w : w[i].op \notin {"slot", "final"}
      /\ \A i \in Saves(w) : w[i].rec.state \notin Terminal
  BY <1>1, Queued DEF Harmless
<1>3. incidents' \in 0..MaxIncidents /\ reclaimed' = reclaimed /\ faulty' = faulty
  <2>1. faulty' = (faulty \/ FALSE) /\ faulty \in BOOLEAN
    BY <1>1 DEF Incident, TypeOK
  <2>2. faulty' = faulty
    BY <2>1
  <2> QED BY <1>1, <2>2, IncidentCounted
<1>4. TypeOK'
  BY <1>1, <1>2, <1>3 DEF TypeOK
<1>5. ASSUME NEW q \in Runs, q # r
      PROVE  Memory(q)' /\ (Recorded(q) => Recorded(q)')
  BY <1>1, <1>2, <1>3, <1>5, OtherRuns DEF MInv, TypeOK
<1>6. Memory(r)' /\ (Recorded(r) => Recorded(r)')
  <2>1. todo'[r] = w
    BY <1>1, <1>2 DEF TypeOK
  <2>2. Fits(pc[r], mem[r].state)' /\ Unlaunched(r)' /\ Honest(r)' /\ Holds(r)'
    BY <1>1, <1>2, <2>1 DEF Memory, Fits, Unlaunched, Honest, Holds, Unsafe, Before
  <2>3. Recorded(r) => Visible(r)'
    BY <1>1, <1>3, <2>1 DEF Recorded, Visible, Shows
  <2>4. Ends(r)' /\ (Recorded(r) => Final1(r)' /\ Reported(r)')
    BY <1>1, <2>1 DEF Memory, Ends, Recorded, Final1, Reported, DiskFinal
  <2> QED BY <2>2, <2>3, <2>4 DEF Memory, Recorded
<1>7. SlotInv'
  <2>1. \A q \in Runs : Winner(q)' => Winner(q)
    BY <1>1 DEF Winner, Contenders, Unsafe
  <2> QED BY <1>1, <1>3, <2>1, SameWinner DEF MInv, DInv, Keeps
<1> QED BY <1>4, <1>5, <1>6, <1>7 DEF MInv, DInv, Keeps

\* The two ways in which a run is asked to stop.
LEMMA StopKeeps ==
  ASSUME MInv, NEW r \in Runs, Cancel(r) \/ Shutdown(r)
  PROVE  Keeps
<1> DEFINE m(k) == Mark(r, mem[r], k)
           c == [op |-> "cancellation"]
           w1 == <<m("cancellation_requested"), c>>
           w2 == <<m("recovery_decided"), m("cancellation_requested"), c>>
<1>1. /\ opts \in [Runs -> Options] /\ mem[r] \in Record
      /\ "cancellation_requested" \in CheckpointKinds /\ "recovery_decided" \in CheckpointKinds
  BY DEF MInv, TypeOK, CheckpointKinds
<1>2. Harmless(w1) /\ Harmless(w2)
  BY <1>1, Queues
<1>3. Saves(w1) = {} /\ Saves(w2) = {}
  <2>1. \A k : m(k).op = "checkpoint"
    BY DEF Mark
  <2>2. c.op = "cancellation"
    OBVIOUS
  <2> HIDE DEF m, c
  <2> QED BY <2>1, <2>2 DEF Saves
<1>4. CASE Cancel(r)
  <2>1. Queue(r, w1) /\ Waiting(r) /\ Incident(FALSE)
    BY <1>4 DEF Cancel
  <2>2. /\ cancelFlag' = [cancelFlag EXCEPT ![r] = TRUE]
        /\ UNCHANGED <<fixed, pc, mem, attempt, claimed, durable, effect>>
    BY <1>4 DEF Cancel
  <2> HIDE DEF w1
  <2> QED BY <1>2, <1>3, <2>1, <2>2, AskedToStop
<1>5. CASE Shutdown(r)
  <2>1. Queue(r, w2) /\ Waiting(r) /\ Incident(FALSE)
    BY <1>5 DEF Shutdown
  <2>2. /\ cancelFlag' = [cancelFlag EXCEPT ![r] = TRUE]
        /\ UNCHANGED <<fixed, pc, mem, attempt, claimed, durable, effect>>
    BY <1>5 DEF Shutdown
  <2> HIDE DEF w2
  <2> QED BY <1>2, <1>3, <2>1, <2>2, AskedToStop
<1> QED BY <1>4, <1>5

\* A crash takes the memory and cuts the action off; the slot and the record stay as
\* they are.
LEMMA CrashKeeps ==
  ASSUME MInv, NEW r \in Runs, Crash(r)
  PROVE  Keeps
<1>1. /\ TypeOK /\ Memory(r) /\ pc[r] \notin {"idle", "crashed"} /\ Incident(FALSE)
      /\ pc' = [pc EXCEPT ![r] = "crashed"] /\ mem' = [mem EXCEPT ![r] = Created]
      /\ attempt' = [attempt EXCEPT ![r] = 0] /\ claimed' = [claimed EXCEPT ![r] = FALSE]
      /\ cancelFlag' = [cancelFlag EXCEPT ![r] = FALSE]
      /\ todo' = [todo EXCEPT ![r] = <<>>]
      /\ effect' = [effect EXCEPT ![r] = IF effect[r] = "running" THEN "unknown" ELSE effect[r]]
      /\ UNCHANGED <<opts, accepted, disk, checkpoint, durableCancel, slot>>
  BY DEF MInv, Crash, Live, Goto, SetMem, fixed, durable
<1>2. incidents' \in 0..MaxIncidents /\ reclaimed' = reclaimed /\ faulty' = faulty
  <2>1. faulty' = (faulty \/ FALSE) /\ faulty \in BOOLEAN
    BY <1>1 DEF Incident, TypeOK
  <2>2. faulty' = faulty
    BY <2>1
  <2> QED BY <1>1, <2>2, IncidentCounted
<1>3. Created \in Record
  BY TableStates DEF Created, Record, OutcomeKinds
<1>4. TypeOK'
  <2>1. 0 \in 0..MaxAttempts /\ <<>> \in Seq(WriteItem)
    BY AttemptsAssumption
  <2>2. effect' \in [Runs -> Effects]
    BY <1>1 DEF TypeOK, Effects
  <2> QED BY <1>1, <1>2, <1>3, <2>1, <2>2 DEF TypeOK, Locations
<1>5. ASSUME NEW q \in Runs, q # r
      PROVE  Memory(q)' /\ (Recorded(q) => Recorded(q)')
  BY <1>1, <1>2, <1>5, OtherRuns DEF MInv, TypeOK
<1>6. Memory(r)' /\ (Recorded(r) => Recorded(r)')
  <2>1. /\ pc'[r] = "crashed" /\ todo'[r] = <<>>
        /\ effect'[r] # "none" => effect[r] # "none"
        /\ opts' = opts /\ disk' = disk
    BY <1>1 DEF TypeOK
  <2>2. Fits(pc[r], mem[r].state)' /\ Unlaunched(r)' /\ Honest(r)' /\ Holds(r)'
    BY <2>1 DEF Fits, Unlaunched, Honest, Holds, Unsafe, Before
  <2>3. Recorded(r) => Visible(r)'
    BY <1>1, <1>2, <2>1 DEF Recorded, Visible, Shows, Saves
  <2>4. Ends(r)' /\ (Recorded(r) => Final1(r)' /\ Reported(r)')
    BY <2>1 DEF Ends, Final1, Reported, DiskFinal, Saves
  <2> QED BY <2>2, <2>3, <2>4 DEF Memory, Recorded
<1>7. SlotInv'
  <2>1. ASSUME NEW q \in Runs, Winner(q)' PROVE Winner(q)
    <3>1. CASE q = r
      BY <1>1, <2>1, <3>1 DEF Winner, Contenders, Unsafe, TypeOK
    <3>2. CASE q # r
      BY <1>1, <2>1, <3>2 DEF Winner, Contenders, Unsafe, TypeOK
    <3> QED BY <3>1, <3>2
  <2> QED BY <1>1, <1>2, <2>1, SameWinner DEF MInv, DInv, Keeps
<1> QED BY <1>4, <1>5, <1>6, <1>7 DEF MInv, DInv, Keeps

-----------------------------------------------------------------------------
\* Before any call arrives.
LEMMA InitFInv ==
  Init => FInv
<1> SUFFICES ASSUME Init PROVE FInv
  OBVIOUS
<1>1. Created \in Record /\ <<>> \in Seq(WriteItem) /\ <<>> \in Seq(Runs)
      /\ 0 \in 0..MaxAttempts /\ 0 \in 0..MaxIncidents
  BY TableStates, AttemptsAssumption, IncidentsAssumption DEF Created, Record, OutcomeKinds
<1>2. TypeOK
  <2>1. opts \in [Runs -> Options] /\ slot = "absent" /\ accepted = <<>> /\ incidents = 0
    BY DEF Init
  <2>2. /\ pc \in [Runs -> Locations] /\ mem \in [Runs -> Record]
        /\ attempt \in [Runs -> 0..MaxAttempts] /\ todo \in [Runs -> Seq(WriteItem)]
    BY <1>1 DEF Init, Locations
  <2>3. /\ claimed \in [Runs -> BOOLEAN] /\ cancelFlag \in [Runs -> BOOLEAN]
        /\ durableCancel \in [Runs -> BOOLEAN] /\ faulty \in BOOLEAN /\ reclaimed \in BOOLEAN
    BY DEF Init
  <2>4. /\ disk \in [Runs -> Record \cup {None}]
        /\ checkpoint \in [Runs -> Checkpoint \cup {None}] /\ effect \in [Runs -> Effects]
    BY DEF Init, Effects
  <2> QED BY <1>1, <2>1, <2>2, <2>3, <2>4 DEF TypeOK, SlotStates
<1>3. ASSUME NEW r \in Runs PROVE Memory(r) /\ Recorded(r)
  <2>1. /\ pc[r] = "idle" /\ todo[r] = <<>> /\ disk[r] = None /\ effect[r] = "none"
        /\ attempt[r] = 0
    BY DEF Init
  <2> QED BY <2>1 DEF Memory, Recorded, Fits, Unlaunched, Honest, Ends, Visible, Final1, Reported, Holds,
                      DiskFinal, Saves, Before
<1>4. SlotInv
  <2>1. \A r \in Runs : ~Winner(r)
    BY DEF Init, Winner
  <2>2. \A r, q \in Runs : opts[r].keyed /\ opts[q].keyed => opts[r].idem = opts[q].idem
    BY DEF Init
  <2> QED BY <2>1, <2>2 DEF SlotInv
<1> QED BY <1>2, <1>3, <1>4 DEF FInv, MInv, DInv

\* Every step keeps the invariant.
LEMMA StepKeeps ==
  MInv /\ [Next]_vars => Keeps
<1> SUFFICES ASSUME MInv, [Next]_vars PROVE Keeps
  OBVIOUS
<1>1. CASE UNCHANGED vars
  <2>1. UNCHANGED <<opts, pc, mem, attempt, claimed, cancelFlag, todo, disk, checkpoint,
                    durableCancel, slot, accepted, effect, incidents, faulty, reclaimed>>
    BY <1>1 DEF vars, control, durable, history
  <2>2. TypeOK'
    BY <2>1 DEF MInv, TypeOK
  <2>3. \A q \in Runs : Memory(q)' /\ (Recorded(q) => Recorded(q)')
    BY <2>1, OtherRuns DEF MInv
  <2>4. SlotInv'
    BY <2>1, SameWinner DEF MInv, Winner, Contenders, Unsafe
  <2> QED BY <2>2, <2>3, <2>4 DEF MInv, DInv, Keeps
<1>2. CASE Next
  <2>1. PICK r \in Runs :
          Accept(r) \/ Step(r) \/ LateReturn(r) \/ Cancel(r) \/ Shutdown(r) \/ Crash(r)
    BY <1>2 DEF Next
  <2>2. CASE Step(r)
    <3>1. CASE Write(r)
      BY <3>1, WriteDoneKeeps, WriteFailedKeeps DEF Write
    <3>2. CASE \/ Policy(r) \/ Approval(r) \/ Trust(r) \/ EnvironmentReturn(r)
               \/ EnvironmentThrow(r) \/ Enqueue(r) \/ SlotThrow(r)
      BY <3>2, BeforeStepKeeps
    <3>3. CASE Dedup(r) \/ Claim(r) \/ Flag(r)
      BY <3>3, SlotKeeps
    <3>4. CASE Start(r) \/ Launch(r) \/ Settle(r)
      BY <3>4, StartKeeps, LaunchKeeps, SettleKeeps
    <3>5. CASE Return(r) \/ CancelWatch(r) \/ Expire(r) \/ Throw(r)
      BY <3>5, ActingKeeps
    <3> QED BY <2>2, <3>1, <3>2, <3>3, <3>4, <3>5 DEF Step
  <2> QED BY <2>1, <2>2, BeforeStepKeeps, LateReturnKeeps, StopKeeps, CrashKeeps
<1> QED BY <1>1, <1>2

\* The invariant holds of every call, whatever crashes, fails or is cancelled.
THEOREM FabricInvariant == Spec => []FInv
<1>1. FInv /\ [Next]_vars => FInv'
  BY StepKeeps DEF FInv, Keeps
<1> QED BY <1>1, InitFInv, PTL DEF Spec

\* The records, queues, slots and counters of execute() have the values that the
\* code gives them; in particular no event is fired that the lifecycle table lacks.
THEOREM FabricTypeOK == Spec => []TypeOK
<1>1. FInv => TypeOK
  BY DEF FInv, MInv
<1> QED BY <1>1, FabricInvariant, PTL

\* Claim-first: of all the calls with one key at most one launches the effect, as
\* long as no claim reuses a slot that a failed attempt left behind.
THEOREM FabricLaunchedOnce == Spec => []LaunchedOnce
<1>1. FInv => LaunchedOnce
  <2> SUFFICES ASSUME FInv, NEW r \in Contenders, NEW q \in Contenders,
                      effect[r] # "none", effect[q] # "none"
               PROVE  r = q \/ reclaimed
    BY DEF LaunchedOnce
  <2>1. r \in Runs /\ q \in Runs /\ Winner(r) /\ Winner(q)
    BY DEF Contenders, Winner
  <2> QED BY <2>1 DEF FInv, MInv, SlotInv
<1> QED BY <1>1, FabricInvariant, PTL

\* A crash in the middle of an effect leaves a record that recovery does not take
\* for one without a side effect.
THEOREM FabricEffectVisible == Spec => []EffectVisible
<1>1. FInv => EffectVisible
  BY DEF FInv, MInv, Memory, DInv, Recorded, Visible, Shows, EffectVisible
<1> QED BY <1>1, FabricInvariant, PTL

\* A success that execute() returned is in the database, whatever writes failed.
THEOREM FabricReportedIsDurable == Spec => []ReportedIsDurable
<1>1. FInv => ReportedIsDurable
  BY DEF FInv, MInv, Memory, DInv, Recorded, Reported, ReportedIsDurable, Returned, At
<1> QED BY <1>1, FabricInvariant, PTL

\* A returned failure of an unsafe action that does not admit a side effect had none.
THEOREM FabricHonestFailure == Spec => []HonestFailure
<1>1. FInv => HonestFailure
  BY DEF FInv, MInv, Memory, Honest, Failures, HonestFailure, Returned, At
<1> QED BY <1>1, FabricInvariant, PTL

\* A step that writes the record of a run writes the first of its queue.
LEMMA OnlyWrites ==
  ASSUME MInv, NEW r \in Runs, [Next]_vars, disk'[r] # disk[r]
  PROVE  /\ todo[r] # <<>> /\ Head(todo[r]).op \in {"save", "final"}
         /\ disk'[r] = Head(todo[r]).rec
         /\ \E q \in Runs : Write(q) /\ WriteDone(q)
<1>1. ASSUME NEW q \in Runs,
             Accept(q) \/ Step(q) \/ LateReturn(q) \/ Cancel(q) \/ Shutdown(q) \/ Crash(q)
      PROVE  UNCHANGED disk \/ (Write(q) /\ WriteDone(q))
  <2>1. CASE Accept(q) \/ LateReturn(q) \/ Cancel(q) \/ Shutdown(q) \/ Crash(q)
    BY <2>1 DEF Accept, LateReturn, Cancel, Shutdown, Crash, durable
  <2>2. CASE \/ Policy(q) \/ Approval(q) \/ Trust(q) \/ EnvironmentReturn(q)
             \/ EnvironmentThrow(q) \/ Enqueue(q) \/ SlotThrow(q)
    BY <2>2 DEF Policy, Approval, Trust, EnvironmentReturn, EnvironmentThrow, Enqueue,
                SlotThrow, durable
  <2>3. CASE \/ Dedup(q) \/ Claim(q) \/ Flag(q) \/ Start(q) \/ Launch(q) \/ Return(q)
             \/ CancelWatch(q) \/ Expire(q) \/ Throw(q) \/ Settle(q)
    BY <2>3 DEF Dedup, Claim, Flag, Start, Launch, Return, CancelWatch, Expire, Throw,
                Settle, durable
  <2>4. CASE Write(q)
    BY <2>4 DEF Write, WriteFailed, durable
  <2> QED BY <1>1, <2>1, <2>2, <2>3, <2>4 DEF Step
<1>2. UNCHANGED vars => UNCHANGED disk
  BY DEF vars, durable
<1>3. PICK q \in Runs : Write(q) /\ WriteDone(q)
  BY <1>1, <1>2 DEF Next
<1>4. disk \in [Runs -> Record \cup {None}]
  BY DEF MInv, TypeOK
<1> QED BY <1>3, <1>4 DEF Write, WriteDone

\* A durable terminal state is final: late results, retries, settlements and stops
\* leave it.
THEOREM FabricTerminalFinal == Spec => DurableTerminalFinal
<1> DEFINE Kept == \A r \in Runs : disk[r] # None /\ disk[r].state \in Terminal =>
                     disk'[r].state = disk[r].state
<1>1. FInv /\ [Next]_vars => Kept
  <2> SUFFICES ASSUME FInv, [Next]_vars, NEW r \in Runs, DiskFinal(r), disk'[r] # disk[r]
               PROVE  disk'[r].state = disk[r].state
    BY DEF DiskFinal
  <2>1. /\ todo[r] # <<>> /\ Head(todo[r]).op \in {"save", "final"}
        /\ disk'[r] = Head(todo[r]).rec
    BY OnlyWrites DEF FInv
  <2>2. Memory(r) /\ Recorded(r) /\ todo[r] \in Seq(WriteItem)
    BY DEF FInv, MInv, DInv, TypeOK
  <2>3. Head(todo[r]) = todo[r][1] /\ 1 \in Saves(todo[r])
    BY <2>1, <2>2, Rest DEF Saves
  <2>4. pc[r] = "returned"
    BY <2>1, <2>2, <2>3 DEF Memory, Ends, Recorded, Final1
  <2>5. disk[r].state = mem[r].state /\ todo[r][1] = Final(mem[r])
    BY <2>1, <2>2, <2>3, <2>4 DEF Memory, Ends, Recorded, Reported
  <2> QED BY <2>1, <2>3, <2>5 DEF Final
<1>2. FInv /\ [Next]_vars => [Kept]_vars
  BY <1>1
<1> QED BY <1>2, FabricInvariant, PTL DEF Spec, DurableTerminalFinal

-----------------------------------------------------------------------------
(***************************************************************************)
(* What the slot and the earlier records say of an effect: a success that  *)
(* one call takes over from another is backed by an effect that happened,  *)
(* and an unknown effect closes its slot.                                  *)
(***************************************************************************)
\* The outcomes that settle a slot as completed.
Reports == {"succeeded", "dry_run_simulated"}

\* The action of a call that goes to no further attempt has been done.
Done(q) == effect[q] = "done" /\ pc[q] \in {"settle", "returned", "crashed"}

\* It is done for r: by r itself, or by a call with the same key.
KeyDone == \E q \in Runs : Done(q) /\ opts[q].keyed
Behind(r) == Done(r) \/ (opts[r].keyed /\ KeyDone)

\* Whatever reports the success of r has a done action behind it: its live record,
\* its row, a save that is queued and a settlement that is queued.
Backed(r) ==
  /\ pc[r] \notin {"settle", "returned"} => mem[r].outcome \notin Reports
  /\ mem[r].outcome = "succeeded" => mem[r].state = "succeeded" /\ Behind(r)
  /\ mem[r].outcome = "dry_run_simulated" => Done(r)
  /\ mem[r].outcome \in Reports => ~mem[r].unknown
  /\ disk[r] # None /\ disk[r].outcome = "succeeded" => Behind(r)
  /\ \A i \in Saves(todo[r]) : todo[r][i].rec.outcome = "succeeded" => Behind(r)
  /\ \A i \in DOMAIN todo[r] :
       todo[r][i].op = "slot" /\ todo[r][i].to = "completed" => KeyDone

\* A call that has written, or is to, has been accepted; one at its slot has a key.
Known(r) ==
  /\ todo[r] # <<>> \/ disk[r] # None => pc[r] # "idle"
  /\ pc[r] # "idle" => \E i \in 1..Len(accepted) : accepted[i] = r
  /\ claimed[r] \/ pc[r] \in {"dedup", "claim", "flag"} => opts[r].keyed

\* The slot is settled by the first write of the end of a call that claimed it; an
\* effect that is unknown then is in the slot, unless it is still to be written.
Closing(r) ==
  /\ \A i \in DOMAIN todo[r] : todo[r][i].op = "slot" =>
       /\ i = 1 /\ claimed[r] /\ pc[r] = "returned"
       /\ mem[r].unknown /\ ~faulty => todo[r][i].to = "requires_reconciliation"
  /\ pc[r] = "returned" /\ claimed[r] /\ Unsafe(r) /\ mem[r].unknown
       /\ ~faulty /\ ~reclaimed
     => slot = "requires_reconciliation" \/ (todo[r] # <<>> /\ todo[r][1].op = "slot")

CallInv(r) == Backed(r) /\ Known(r) /\ Closing(r)

EInv == (\A r \in Runs : CallInv(r)) /\ (slot = "completed" => KeyDone)

-----------------------------------------------------------------------------
\* Queued writes that report no success and settle no slot.
Quiet(w) ==
  /\ w \in Seq(WriteItem)
  /\ \A i \in DOMAIN w : w[i].op \notin {"slot", "final"}
  /\ \A i \in Saves(w) : w[i].rec.outcome # "succeeded"

\* What the steps of a call up to its outcome have in common: its record, its
\* queue and its place change, nothing is written, and a slot is only claimed or
\* flagged.  A success has a done action behind it after the step.
Walks(r, loc, rec, w) ==
  /\ pc[r] \notin {"settle", "returned", "crashed"} /\ todo[r] = <<>>
  /\ loc \notin {"idle", "returned"} /\ Quiet(w)
  /\ pc' = [pc EXCEPT ![r] = loc] /\ mem' = [mem EXCEPT ![r] = rec]
  /\ todo' = [todo EXCEPT ![r] = w]
  /\ loc # "settle" => rec.outcome \notin Reports
  /\ rec.outcome = "succeeded" => rec.state = "succeeded" /\ Behind(r)'
  /\ rec.outcome = "dry_run_simulated" => Done(r)'
  /\ rec.outcome \in Reports => ~rec.unknown
  /\ claimed'[r] \/ loc \in {"dedup", "claim", "flag"} => opts[r].keyed
  /\ \A q \in Runs \ {r} : claimed'[q] = claimed[q] /\ effect'[q] = effect[q]
  /\ slot' = slot \/ (slot = "absent" /\ slot' = "pending")
                  \/ slot' = "requires_reconciliation"
  /\ accepted' = IF pc[r] = "idle" THEN Append(accepted, r) ELSE accepted
  /\ (faulty => faulty') /\ (reclaimed => reclaimed')
  /\ UNCHANGED <<opts, disk>>

\* What is behind a success stays behind it.
LEMMA StaysDone ==
  ASSUME opts' = opts, \A q \in Runs : Done(q) => Done(q)'
  PROVE  (KeyDone => KeyDone') /\ \A q \in Runs : Behind(q) => Behind(q)'
BY DEF KeyDone, Behind

\* A step of one call leaves what is said of another.
LEMMA OtherCalls ==
  ASSUME NEW q \in Runs, CallInv(q), opts' = opts,
         \A p \in Runs : Done(p) => Done(p)',
         pc'[q] = pc[q], mem'[q] = mem[q], claimed'[q] = claimed[q],
         todo'[q] = todo[q], disk'[q] = disk[q],
         \A i \in 1..Len(accepted) :
           i \in 1..Len(accepted') /\ accepted'[i] = accepted[i],
         faulty => faulty', reclaimed => reclaimed',
         /\ pc[q] = "returned" /\ claimed[q] /\ Unsafe(q) /\ mem[q].unknown
         /\ ~faulty' /\ ~reclaimed' /\ slot = "requires_reconciliation"
         => slot' = "requires_reconciliation"
  PROVE  CallInv(q)'
<1>1. Backed(q)'
  BY StaysDone DEF CallInv, Backed, Saves
<1>2. Known(q)'
  <2>1. (\E i \in 1..Len(accepted) : accepted[i] = q)
        => \E i \in 1..Len(accepted') : accepted'[i] = q
    OBVIOUS
  <2> QED BY <2>1 DEF CallInv, Known
<1>3. Closing(q)'
  BY DEF CallInv, Closing, Unsafe
<1> QED BY <1>1, <1>2, <1>3 DEF CallInv

\* Who has been accepted stays so.
LEMMA Longer ==
  ASSUME TypeOK, NEW r \in Runs,
         accepted' = Append(accepted, r) \/ accepted' = accepted
  PROVE  /\ \A i \in 1..Len(accepted) :
              i \in 1..Len(accepted') /\ accepted'[i] = accepted[i]
         /\ accepted' = Append(accepted, r) =>
              \E i \in 1..Len(accepted') : accepted'[i] = r
<1>1. accepted \in Seq(Runs)
  BY DEF TypeOK
<1>2. CASE accepted' = accepted
  <2>1. Len(accepted) \in Nat
    BY <1>1
  <2>2. ASSUME accepted' = Append(accepted, r) PROVE FALSE
    <3>1. Len(Append(accepted, r)) = Len(accepted) + 1
      BY <1>1
    <3> QED BY <1>2, <2>1, <2>2, <3>1
  <2> QED BY <1>2, <2>2
<1>3. CASE accepted' = Append(accepted, r)
  <2>1. /\ Len(accepted) \in Nat /\ Len(accepted') = Len(accepted) + 1
        /\ accepted'[Len(accepted) + 1] = r
        /\ \A i \in 1..Len(accepted) : accepted'[i] = accepted[i]
    BY <1>1, <1>3
  <2> QED BY <2>1
<1> QED BY <1>2, <1>3

\* A step up to the outcome keeps what is said of every call.
LEMMA WalkKeeps ==
  ASSUME TypeOK, EInv, NEW r \in Runs, NEW loc, NEW rec, NEW w, Walks(r, loc, rec, w)
  PROVE  EInv'
<1> USE DEF Walks
<1>1. \A q \in Runs : Done(q) => Done(q)'
  BY DEF Done, TypeOK
<1>2. (KeyDone => KeyDone') /\ \A q \in Runs : Behind(q) => Behind(q)'
  BY <1>1, StaysDone
<1>3. /\ \A i \in 1..Len(accepted) :
           i \in 1..Len(accepted') /\ accepted'[i] = accepted[i]
      /\ accepted' = Append(accepted, r) => \E i \in 1..Len(accepted') : accepted'[i] = r
  BY Longer
<1>4. ASSUME NEW q \in Runs, q # r PROVE CallInv(q)'
  <2>1. /\ CallInv(q) /\ pc'[q] = pc[q] /\ mem'[q] = mem[q] /\ claimed'[q] = claimed[q]
        /\ todo'[q] = todo[q] /\ disk'[q] = disk[q]
        /\ (slot = "requires_reconciliation" => slot' = "requires_reconciliation")
    BY <1>4 DEF EInv, TypeOK
  <2> QED BY <1>1, <1>3, <2>1, OtherCalls
<1>5. CallInv(r)'
  <2>1. /\ pc'[r] = loc /\ mem'[r] = rec /\ todo'[r] = w /\ disk'[r] = disk[r]
        /\ opts' = opts /\ CallInv(r)
    BY DEF EInv, TypeOK
  <2>2. Backed(r)'
    BY <1>2, <2>1 DEF CallInv, Backed, Quiet
  <2>3. Known(r)'
    <3>1. \E i \in 1..Len(accepted') : accepted'[i] = r
      BY <1>3, <2>1 DEF CallInv, Known
    <3> QED BY <2>1, <3>1 DEF Known
  <2>4. Closing(r)'
    BY <2>1 DEF Closing, Quiet
  <2> QED BY <2>2, <2>3, <2>4 DEF CallInv
<1>6. slot' = "completed" => KeyDone'
  BY <1>2 DEF EInv
<1> QED BY <1>4, <1>5, <1>6 DEF EInv

-----------------------------------------------------------------------------
\* The four fields of a record, whatever state a transition gives it.
Fielded(rec) == rec = [f \in {"state", "outcome", "unknown", "action"} |-> rec[f]]

\* What the changes of a record make of its outcome.
LEMMA Outcomes ==
  ASSUME NEW rec, Fielded(rec)
  PROVE  /\ \A e : Fielded(Move(rec, e)) /\ Move(rec, e).outcome = rec.outcome
         /\ Aborted(rec).outcome = IF rec.outcome = "none" THEN "failed" ELSE rec.outcome
BY DEF Fielded, Move, Aborted

\* An end by way of two transitions has the outcome it is given.
LEMMA ViaOutcome ==
  ASSUME NEW rec, Fielded(rec)
  PROVE  LET good == EndVia(rec, "start", "succeed", "succeeded", FALSE)
             bad == EndVia(rec, "start", "fail", "failed", TRUE)
         IN good.outcome = "succeeded" /\ ~good.unknown /\ bad.outcome = "failed"
<1> DEFINE started == Move(rec, "start")
<1>1. Fielded(started)
  BY Outcomes
<1>2. /\ EndVia(rec, "start", "succeed", "succeeded", FALSE)
           = End(started, "succeed", "succeeded", FALSE)
      /\ EndVia(rec, "start", "fail", "failed", TRUE) = End(started, "fail", "failed", TRUE)
  BY DEF EndVia
<1> HIDE DEF started
<1> QED BY <1>1, <1>2 DEF End, Move, Fielded

\* A record of the table has the four fields.
LEMMA RecordFields ==
  ASSUME NEW rec \in Record
  PROVE  Fielded(rec)
BY DEF Record, Fielded

\* Queues that report no success, of records that are none.
LEMMA QuietQueues ==
  ASSUME TypeOK, NEW r \in Runs, NEW rec \in Record, NEW other \in Record,
         NEW k1 \in CheckpointKinds, NEW k2 \in CheckpointKinds
  PROVE  /\ Quiet(<<>>) /\ Quiet(<<Mark(r, rec, k1)>>)
         /\ Quiet(<<Mark(r, rec, k1), [op |-> "cancellation"]>>)
         /\ Quiet(<<Mark(r, rec, k1), Mark(r, rec, k2), [op |-> "cancellation"]>>)
         /\ other.outcome # "succeeded" =>
              /\ Quiet(<<Save(other)>>) /\ Quiet(<<Save(other), Mark(r, rec, k1)>>)
              /\ Quiet(<<Mark(r, rec, k1), Mark(r, rec, k2), Save(other)>>)
<1> DEFINE m1 == Mark(r, rec, k1)
           m2 == Mark(r, rec, k2)
           c == [op |-> "cancellation"]
           s == Save(other)
<1>1. /\ m1 \in WriteItem /\ m1.op = "checkpoint" /\ m2 \in WriteItem /\ m2.op = "checkpoint"
      /\ s \in WriteItem /\ s.op = "save" /\ s.rec = other
  BY Items DEF TypeOK, Mark, Save
<1>2. c \in WriteItem /\ c.op = "cancellation"
  BY Items DEF TypeOK
<1> HIDE DEF m1, m2, s, c
<1>3. Quiet(<<>>) /\ Quiet(<<m1>>) /\ Quiet(<<m1, c>>) /\ Quiet(<<m1, m2, c>>)
  BY <1>1, <1>2 DEF Quiet, Saves
<1>4. other.outcome # "succeeded" => Quiet(<<s>>) /\ Quiet(<<s, m1>>) /\ Quiet(<<m1, m2, s>>)
  BY <1>1 DEF Quiet, Saves
<1> QED BY <1>3, <1>4 DEF m1, m2, s, c

\* A step up to the outcome that ends, if it does, with no success.
LEMMA NoSuccess ==
  ASSUME TypeOK, NEW r \in Runs, CallInv(r), NEW loc, NEW rec, NEW w,
         pc[r] \notin {"settle", "returned", "crashed"}, todo[r] = <<>>,
         loc \notin {"idle", "returned"}, Quiet(w), rec.outcome \notin Reports,
         SetMem(r, rec), Goto(r, loc), Queue(r, w) \/ (w = <<>> /\ UNCHANGED todo),
         loc \in {"dedup", "claim", "flag"} => opts[r].keyed,
         \A q \in Runs \ {r} : effect'[q] = effect[q],
         accepted' = IF pc[r] = "idle" THEN Append(accepted, r) ELSE accepted,
         faulty => faulty', reclaimed => reclaimed',
         UNCHANGED <<opts, claimed, disk, slot>>
  PROVE  Walks(r, loc, rec, w)
<1>1. todo' = [todo EXCEPT ![r] = w]
  <2>1. CASE Queue(r, w)
    BY <2>1, Queued DEF Quiet
  <2>2. CASE w = <<>> /\ UNCHANGED todo
    BY <2>2 DEF TypeOK
  <2> QED BY <2>1, <2>2
<1>2. claimed[r] => opts[r].keyed
  BY DEF CallInv, Known
<1> QED BY <1>1, <1>2 DEF Walks, SetMem, Goto, Reports

\* The call arrives, and the policy and the approver answer.
LEMMA AdmissionWalks ==
  ASSUME TypeOK, TypeOK', NEW r \in Runs, CallInv(r), Accept(r) \/ Policy(r) \/ Approval(r)
  PROVE  \E loc, rec, w : Walks(r, loc, rec, w)
<1>1. /\ todo[r] = <<>> /\ pc[r] \in {"idle", "policy", "approval"}
      /\ mem[r] \in Record /\ mem'[r] \in Record /\ Fielded(mem[r])
      /\ mem[r].outcome \notin Reports
      /\ accepted' = IF pc[r] = "idle" THEN Append(accepted, r) ELSE accepted
      /\ effect' = effect
      /\ UNCHANGED <<opts, claimed, disk, slot, faulty, reclaimed>>
  BY RecordFields DEF TypeOK, Accept, Policy, Approval, At, fixed, durable, history,
                      CallInv, Backed
<1>2. \A rec : SetMem(r, rec) => mem'[r] = rec
  BY DEF SetMem, TypeOK
<1>3. "task_accepted" \in CheckpointKinds /\ "plan_recorded" \in CheckpointKinds
      /\ "policy_admitted" \in CheckpointKinds
  BY DEF CheckpointKinds
<1>4. ASSUME NEW rec, NEW loc \in {"policy", "approval", "trust", "settle"}, NEW w,
             SetMem(r, rec), Goto(r, loc), Queue(r, w) \/ (w = <<>> /\ UNCHANGED todo),
             rec.outcome \notin Reports, Quiet(w)
      PROVE  \E l, x, v : Walks(r, l, x, v)
  BY <1>1, <1>4, NoSuccess
<1>5. CASE Accept(r)
  <2> DEFINE rec == IF opts[r].planned THEN Move(Created, "plan") ELSE Created
             m1 == Mark(r, rec, "task_accepted")
             m2 == Mark(r, rec, "plan_recorded")
             w == IF opts[r].planned THEN <<m1, m2, Save(rec)>> ELSE <<m1>>
  <2>1. SetMem(r, rec) /\ Goto(r, "policy")
        /\ Queue(r, <<m1>> \o IF opts[r].planned THEN <<m2, Save(rec)>> ELSE <<>>)
    BY <1>5 DEF Accept
  <2>2. rec \in Record
    BY <1>1, <1>2, <2>1
  <2>3. rec.outcome = "none"
    <3>1. Fielded(Created) /\ Created.outcome = "none"
      BY DEF Created, Fielded
    <3> QED BY <3>1, Outcomes
  <2> HIDE DEF rec
  <2>4. m1 \in WriteItem /\ m2 \in WriteItem /\ Save(rec) \in WriteItem
    BY <1>3, <2>2, Items DEF TypeOK
  <2>5. Quiet(<<m1>>) /\ Quiet(<<m1, m2, Save(rec)>>)
    BY <1>3, <2>2, <2>3, QuietQueues
  <2> HIDE DEF m1, m2
  <2>6. <<m1>> \o <<m2, Save(rec)>> = <<m1, m2, Save(rec)>> /\ <<m1>> \o <<>> = <<m1>>
    BY <2>4, <2>5, Joined, ConcatEmptySeq DEF Quiet
  <2>7. Quiet(w) /\ Queue(r, w)
    BY <2>1, <2>5, <2>6
  <2> HIDE DEF w
  <2> QED BY <1>4, <2>1, <2>3, <2>7 DEF Reports
<1>6. CASE Policy(r)
  <2> DEFINE rec == Move(mem[r], "submit_policy")
             denied == End(rec, "deny", "denied", FALSE)
             parked == Move(rec, "require_approval")
             spent == End(rec, "budget_block", "budget_stopped", FALSE)
             down == End(rec, "mark_unavailable", "unavailable", FALSE)
  <2>1. Fielded(rec) /\ rec.outcome = mem[r].outcome
    BY <1>1, Outcomes
  <2> HIDE DEF rec
  <2>2. /\ denied.outcome = "denied" /\ parked.outcome = mem[r].outcome
        /\ spent.outcome = "budget_stopped" /\ down.outcome = "unavailable"
    BY <2>1 DEF End, Move, Fielded
  <2> HIDE DEF denied, parked, spent, down
  <2>3. \/ SetMem(r, spent) /\ Goto(r, "settle") /\ UNCHANGED todo
        \/ SetMem(r, down) /\ Goto(r, "settle") /\ UNCHANGED todo
        \/ SetMem(r, denied) /\ Queue(r, <<Save(denied)>>) /\ Goto(r, "settle")
        \/ SetMem(r, parked) /\ Queue(r, <<Save(parked)>>) /\ Goto(r, "approval")
        \/ SetMem(r, rec) /\ Queue(r, <<Mark(r, rec, "policy_admitted")>>) /\ Goto(r, "trust")
    BY <1>6 DEF Policy, rec, denied, parked, spent, down
  <2>4. /\ Quiet(<<>>)
        /\ SetMem(r, denied) => Quiet(<<Save(denied)>>)
        /\ SetMem(r, parked) => Quiet(<<Save(parked)>>)
        /\ SetMem(r, rec) => Quiet(<<Mark(r, rec, "policy_admitted")>>)
    BY <1>1, <1>2, <1>3, <2>2, QuietQueues DEF Reports
  <2> QED BY <1>1, <1>4, <2>1, <2>2, <2>3, <2>4 DEF Reports
<1>7. CASE Approval(r)
  <2> DEFINE granted == Move(mem[r], "grant_approval")
             denied == End(mem[r], "deny", "denied", FALSE)
  <2>1. granted.outcome = mem[r].outcome /\ denied.outcome = "denied"
    BY <1>1 DEF End, Move, Fielded
  <2>2. Aborted(mem[r]).outcome \notin Reports
    BY <1>1, Outcomes DEF Reports
  <2> HIDE DEF granted, denied
  <2>3. \/ SetMem(r, granted) /\ Queue(r, <<Mark(r, granted, "policy_admitted")>>)
           /\ Goto(r, "trust")
        \/ SetMem(r, denied) /\ Goto(r, "settle") /\ UNCHANGED todo
        \/ SetMem(r, Aborted(mem[r])) /\ Goto(r, "settle") /\ UNCHANGED todo
    BY <1>7 DEF Approval, granted, denied, Abort
  <2>4. /\ Quiet(<<>>)
        /\ SetMem(r, granted) => Quiet(<<Mark(r, granted, "policy_admitted")>>)
    BY <1>1, <1>2, <1>3, QuietQueues
  <2> QED BY <1>1, <1>4, <2>1, <2>2, <2>3, <2>4 DEF Reports
<1> QED BY <1>5, <1>6, <1>7

\* The trust gate, the queue, and what throws before an attempt.
LEMMA GateWalks ==
  ASSUME TypeOK, TypeOK', NEW r \in Runs, CallInv(r),
         Trust(r) \/ EnvironmentThrow(r) \/ Enqueue(r) \/ SlotThrow(r)
  PROVE  \E loc, rec, w : Walks(r, loc, rec, w)
<1>1. /\ todo[r] = <<>> /\ pc[r] \in {"trust", "environment", "queue", "dedup", "claim", "flag"}
      /\ mem[r] \in Record /\ mem'[r] \in Record /\ Fielded(mem[r])
      /\ mem[r].outcome \notin Reports
      /\ accepted' = accepted
      /\ \A q \in Runs \ {r} : effect'[q] = effect[q]
      /\ faulty => faulty'
      /\ UNCHANGED <<opts, claimed, disk, slot, reclaimed>>
  BY RecordFields DEF TypeOK, Trust, EnvironmentThrow, Enqueue, SlotThrow, At, fixed,
                      durable, history, CallInv, Backed, Incident
<1>2. /\ \A rec : SetMem(r, rec) => mem'[r] = rec
      /\ UNCHANGED mem => SetMem(r, mem[r])
  BY DEF SetMem, TypeOK
<1>3. "step_started" \in CheckpointKinds /\ "env_admitted" \in CheckpointKinds
  BY DEF CheckpointKinds
<1>4. ASSUME NEW rec, NEW loc \in {"environment", "queue", "dedup", "start", "settle"}, NEW w,
             SetMem(r, rec), Goto(r, loc), Queue(r, w) \/ (w = <<>> /\ UNCHANGED todo),
             rec.outcome \notin Reports, Quiet(w), loc = "dedup" => opts[r].keyed
      PROVE  \E l, x, v : Walks(r, l, x, v)
  BY <1>1, <1>4, NoSuccess
<1>5. Quiet(<<>>) /\ Quiet(<<Save(mem[r])>>)
  BY <1>1, <1>3, QuietQueues DEF Reports
<1>6. CASE Trust(r)
  <2> DEFINE ended == End(mem[r], "deny", "denied", FALSE)
             denied == [ended EXCEPT !.action = TRUE]
  <2>1. Fielded(ended) /\ ended.outcome = "denied"
    BY <1>1 DEF End, Move, Fielded
  <2> HIDE DEF ended
  <2>2. denied.outcome = "denied"
    BY <2>1 DEF Fielded
  <2> HIDE DEF denied
  <2>3. \/ UNCHANGED <<mem, todo>> /\ (Goto(r, "queue") \/ Goto(r, "environment"))
        \/ UNCHANGED mem /\ Queue(r, <<Save(mem[r])>>) /\ Goto(r, "queue")
        \/ SetMem(r, denied) /\ Queue(r, <<Save(mem[r])>>) /\ Goto(r, "settle")
    BY <1>6 DEF Trust, denied, ended
  <2> QED BY <1>1, <1>2, <1>4, <1>5, <2>2, <2>3 DEF Reports
<1>7. CASE EnvironmentThrow(r) \/ SlotThrow(r)
  <2>1. SetMem(r, Aborted(mem[r])) /\ Goto(r, "settle") /\ UNCHANGED todo
    BY <1>7 DEF EnvironmentThrow, SlotThrow, Abort
  <2>2. Aborted(mem[r]).outcome \notin Reports
    BY <1>1, Outcomes DEF Reports
  <2> QED BY <1>4, <1>5, <2>1, <2>2
<1>8. CASE Enqueue(r)
  <2> DEFINE auth == IF mem[r].state = "authorized" THEN mem[r] ELSE Move(mem[r], "authorize")
             queued == Move(auth, "queue")
             rec == [queued EXCEPT !.action = TRUE]
             w == <<Save(rec), Mark(r, rec, "step_started")>>
             loc == IF Slotted(r) THEN "dedup" ELSE "start"
  <2>1. Fielded(auth) /\ auth.outcome = mem[r].outcome
    BY <1>1, Outcomes
  <2> HIDE DEF auth
  <2>2. Fielded(queued) /\ queued.outcome = mem[r].outcome
    BY <2>1, Outcomes
  <2> HIDE DEF queued
  <2>3. rec.outcome = mem[r].outcome
    BY <2>2 DEF Fielded
  <2> HIDE DEF rec
  <2>4. SetMem(r, rec) /\ Queue(r, w) /\ Goto(r, loc)
    BY <1>8 DEF Enqueue, auth, queued, rec
  <2>5. Quiet(w)
    BY <1>1, <1>2, <1>3, <2>3, <2>4, QuietQueues DEF Reports
  <2>6. loc \in {"dedup", "start"} /\ (loc = "dedup" => opts[r].keyed)
    BY DEF Slotted
  <2> HIDE DEF w, loc
  <2> QED BY <1>1, <1>4, <2>3, <2>4, <2>5, <2>6
<1> QED BY <1>6, <1>7, <1>8

\* A success of an environment is one of an action that is done.
LEMMA EnvironmentWalks ==
  ASSUME TypeOK, NEW r \in Runs, Memory(r), CallInv(r), EnvironmentReturn(r)
  PROVE  \E loc, rec, w : Walks(r, loc, rec, w)
<1> DEFINE admitted == IF mem[r].state = "authorized" THEN mem[r] ELSE Move(mem[r], "authorize")
           queued == Move(admitted, "queue")
           started == Move(queued, "start")
           seen == Move(started, "observe")
           observed == [seen EXCEPT !.action = TRUE]
           good == End(observed, "succeed", "succeeded", FALSE)
           bad == End(observed, "fail", "failed", FALSE)
           w == <<Save(mem[r]), Mark(r, mem[r], "env_admitted")>>
<1>1. /\ todo[r] = <<>> /\ pc[r] = "environment" /\ mem[r] \in Record
      /\ mem[r].state \in {"awaiting_policy", "authorized"}
      /\ mem[r].outcome \notin Reports /\ accepted' = accepted
      /\ UNCHANGED <<opts, claimed, disk, slot, faulty, reclaimed>>
  BY DEF TypeOK, EnvironmentReturn, At, fixed, durable, history, CallInv, Backed, Memory, Fits
<1>2. admitted \in Record /\ admitted.state = "authorized"
  BY <1>1, Taken, TableStates, MoveRecord
<1> HIDE DEF admitted
<1>3. queued \in Record /\ queued.state = "queued"
  BY <1>2, Taken, TableStates, MoveRecord
<1> HIDE DEF queued
<1>4. started \in Record /\ started.state = "running"
  BY <1>3, Taken, TableStates, MoveRecord
<1> HIDE DEF started
<1>5. seen \in Record /\ seen.state = "observing"
  BY <1>4, Taken, TableStates, MoveRecord
<1> HIDE DEF seen
<1>6. observed \in Record /\ observed.state = "observing"
  BY <1>5 DEF Record
<1> HIDE DEF observed
<1>7. /\ good.outcome = "succeeded" /\ good.state = "succeeded" /\ ~good.unknown
      /\ bad.outcome = "failed"
  BY <1>6, Taken DEF End, Move, Record
<1> HIDE DEF good, bad
<1>8. "env_admitted" \in CheckpointKinds
  BY DEF CheckpointKinds
<1>9. Quiet(w)
  BY <1>1, <1>8, QuietQueues DEF Reports
<1>10. /\ Queue(r, w) /\ Goto(r, "settle")
       /\ \/ SetMem(r, good) /\ effect' = [effect EXCEPT ![r] = "done"]
          \/ SetMem(r, bad) /\ effect' = [effect EXCEPT ![r] = "refused"]
  BY DEF EnvironmentReturn, good, bad, observed, seen, started, queued, admitted
<1> HIDE DEF w
<1>11. \A q \in Runs \ {r} : effect'[q] = effect[q]
  BY <1>10 DEF TypeOK
<1>12. CASE SetMem(r, bad)
  BY <1>1, <1>7, <1>9, <1>10, <1>11, <1>12, NoSuccess DEF Reports
<1>13. CASE SetMem(r, good) /\ effect' = [effect EXCEPT ![r] = "done"]
  <2>1. Done(r)' /\ Behind(r)'
    BY <1>10, <1>13 DEF Done, Behind, Goto, TypeOK
  <2>2. todo' = [todo EXCEPT ![r] = w]
    BY <1>1, <1>9, <1>10, Queued DEF Quiet
  <2>3. claimed[r] => opts[r].keyed
    BY DEF CallInv, Known
  <2>4. Walks(r, "settle", good, w)
    BY <1>1, <1>7, <1>9, <1>10, <1>11, <1>13, <2>1, <2>2, <2>3 DEF Walks, Goto, SetMem
  <2> QED BY <2>4
<1> QED BY <1>10, <1>12, <1>13

-----------------------------------------------------------------------------
\* A set of numbers up to n that is not empty has a greatest one: the intervals to
\* n are ordered as their ends are, the other way round, and finite sets are
\* well-founded.
LEMMA Greatest ==
  ASSUME NEW n \in Nat, NEW S \in SUBSET (1..n), S # {}
  PROVE  \E x \in S : \A y \in S : y <= x
<1> DEFINE T == {x..n : x \in S}
<1>1. T \subseteq FiniteSubsetsOf(Nat)
  <2>1. \A x \in S : x..n \in SUBSET Nat /\ IsFiniteSet(x..n)
    BY FS_Interval
  <2> QED BY <2>1 DEF FiniteSubsetsOf
<1>2. \E A \in T : \A B \in T : <<B, A>> \notin StrictSubsetOrdering(Nat)
  <2>1. T # {}
    OBVIOUS
  <2>2. IsWellFoundedOn(StrictSubsetOrdering(Nat), FiniteSubsetsOf(Nat))
    BY FS_StrictSubsetOrderingWellFounded, Zenon
  <2> HIDE DEF T
  <2> QED BY <1>1, <2>1, <2>2, WFMin, Zenon
<1>3. PICK x \in S : \A y \in S : <<y..n, x..n>> \notin StrictSubsetOrdering(Nat)
  BY <1>2
<1>4. ASSUME NEW y \in S, ~(y <= x) PROVE FALSE
  <2>1. y..n \in SUBSET Nat /\ x..n \in SUBSET Nat /\ y..n \subseteq x..n
    BY <1>4
  <2>2. x \in x..n /\ x \notin y..n
    BY <1>4
  <2>3. <<y..n, x..n>> \in StrictSubsetOrdering(Nat)
    BY <2>1, <2>2 DEF StrictSubsetOrdering
  <2> QED BY <1>3, <2>3
<1> QED BY <1>3, <1>4

\* The newest of some calls that were accepted is one of them.
LEMMA NewestIsOne ==
  ASSUME TypeOK, NEW S \in SUBSET Runs, S # {},
         \A q \in S : \E i \in 1..Len(accepted) : accepted[i] = q
  PROVE  Newest(S) \in S
<1> DEFINE n == Len(accepted)
           I == {i \in 1..n : accepted[i] \in S}
<1>1. n \in Nat
  BY DEF TypeOK
<1> HIDE DEF n
<1>2. I \in SUBSET (1..n) /\ I # {}
  BY DEF n
<1>3. PICK m \in I : \A i \in I : i <= m
  <2> HIDE DEF I
  <2> QED BY <1>1, <1>2, Greatest
<1>4. m \in 1..n /\ accepted[m] \in S /\ \A j \in (m + 1)..n : accepted[j] \notin S
  <2>1. ASSUME NEW j \in (m + 1)..n, accepted[j] \in S PROVE FALSE
    <3>1. m \in 1..n
      OBVIOUS
    <3>2. j \in 1..n /\ ~(j <= m)
      BY <1>1, <3>1
    <3> QED BY <1>3, <2>1, <3>2
  <2> QED BY <2>1
<1>5. \E q \in S : \E i \in 1..Len(accepted) :
        accepted[i] = q /\ \A j \in (i + 1)..Len(accepted) : accepted[j] \notin S
  BY <1>4 DEF n
<1> QED BY <1>5 DEF Newest

\* A success that the lookup finds has a done action with the key behind it.
LEMMA PriorIsBacked ==
  ASSUME TypeOK, EInv, PriorSuccess
  PROVE  KeyDone
<1> DEFINE S == {q \in Runs : Matching(q)}
<1>1. S # {} /\ disk[Newest(S)].outcome = "succeeded"
  BY DEF PriorSuccess
<1>2. \A q \in S : \E i \in 1..Len(accepted) : accepted[i] = q
  BY DEF EInv, CallInv, Known, Matching
<1>3. Newest(S) \in S
  BY <1>1, <1>2, NewestIsOne
<1> DEFINE p == Newest(S)
<1>4. p \in Runs /\ disk[p] # None /\ opts[p].keyed /\ disk[p].outcome = "succeeded"
  BY <1>1, <1>3 DEF Matching
<1> HIDE DEF p
<1>5. Behind(p)
  BY <1>4 DEF EInv, CallInv, Backed
<1> QED BY <1>4, <1>5 DEF Behind, KeyDone

\* The slot: the lookup, the claim and the flag.
LEMMA SlotWalks ==
  ASSUME TypeOK, EInv, NEW r \in Runs, Memory(r), Dedup(r) \/ Claim(r) \/ Flag(r)
  PROVE  \E loc, rec, w : Walks(r, loc, rec, w)
<1> DEFINE good == EndVia(mem[r], "start", "succeed", "succeeded", FALSE)
           bad == EndVia(mem[r], "start", "fail", "failed", TRUE)
<1>1. /\ todo[r] = <<>> /\ pc[r] \in {"dedup", "claim", "flag"} /\ Fielded(mem[r])
      /\ mem[r] \in Record /\ mem[r].outcome \notin Reports /\ opts[r].keyed
      /\ mem[r].state = "queued"
      /\ UNCHANGED <<opts, accepted, todo, disk, effect, faulty>>
  BY RecordFields DEF TypeOK, Dedup, Claim, Flag, At, fixed, durable, history, EInv,
                      CallInv, Backed, Known, Memory, Fits
<1>2. /\ good.outcome = "succeeded" /\ good.state = "succeeded" /\ ~good.unknown
      /\ bad.outcome = "failed"
  BY <1>1, ViaOutcome, EndedFromSlot
<1> HIDE DEF good, bad
<1>3. todo' = [todo EXCEPT ![r] = <<>>] /\ Quiet(<<>>)
  BY <1>1, QuietQueues DEF TypeOK, CheckpointKinds
<1>4. UNCHANGED mem => SetMem(r, mem[r])
  BY DEF SetMem, TypeOK
<1>5. ASSUME NEW rec, NEW loc \in {"claim", "flag", "start", "settle"},
             SetMem(r, rec), Goto(r, loc), reclaimed => reclaimed',
             \A q \in Runs \ {r} : claimed'[q] = claimed[q],
             \/ slot' = slot \/ (slot = "absent" /\ slot' = "pending")
             \/ slot' = "requires_reconciliation",
             rec.outcome \notin Reports \/ (rec = good /\ loc = "settle" /\ KeyDone)
      PROVE  \E l, x, v : Walks(r, l, x, v)
  <2>1. KeyDone => Behind(r)'
    <3>1. \A q \in Runs : Done(q) => Done(q)'
      BY <1>1, <1>5 DEF Done, Goto, TypeOK
    <3> QED BY <1>1, <3>1, StaysDone DEF Behind
  <2>2. Walks(r, loc, rec, <<>>)
    BY <1>1, <1>2, <1>3, <1>5, <2>1 DEF Walks, SetMem, Goto, Reports
  <2> QED BY <2>2
<1>6. UNCHANGED claimed \/ claimed' = [claimed EXCEPT ![r] = TRUE]
      => \A q \in Runs \ {r} : claimed'[q] = claimed[q]
  BY DEF TypeOK
<1>7. CASE Dedup(r)
  BY <1>1, <1>2, <1>4, <1>5, <1>6, <1>7, PriorIsBacked DEF Dedup, durable, history, good
<1>8. CASE Flag(r)
  BY <1>2, <1>5, <1>6, <1>8 DEF Flag, history, bad, Reports
<1>9. CASE Claim(r)
  <2>1. /\ UNCHANGED claimed \/ claimed' = [claimed EXCEPT ![r] = TRUE]
        /\ slot' = slot \/ (slot = "absent" /\ slot' = "pending")
    BY <1>9 DEF Claim
  <2>2. \/ UNCHANGED mem /\ (Goto(r, "start") \/ Goto(r, "flag"))
        \/ slot = "completed" /\ SetMem(r, good) /\ Goto(r, "settle")
        \/ SetMem(r, bad) /\ Goto(r, "settle")
    BY <1>9 DEF Claim, good, bad
  <2>3. reclaimed => reclaimed'
    <3>1. reclaimed' = reclaimed \/ reclaimed' = TRUE
      BY <1>9 DEF Claim
    <3> QED BY ONLY <3>1
  <2>4. slot = "completed" => KeyDone
    BY DEF EInv
  <2> QED BY <1>1, <1>2, <1>4, <1>5, <1>6, <2>1, <2>2, <2>3, <2>4 DEF Reports
<1> QED BY <1>7, <1>8, <1>9

-----------------------------------------------------------------------------
\* An attempt is started and launched, and a request to stop is queued.
LEMMA AttemptWalks ==
  ASSUME TypeOK, TypeOK', NEW r \in Runs, CallInv(r),
         Start(r) \/ Launch(r) \/ Cancel(r) \/ Shutdown(r)
  PROVE  \E loc, rec, w : Walks(r, loc, rec, w)
<1>1. /\ todo[r] = <<>> /\ pc[r] \notin {"idle", "settle", "returned", "crashed"}
      /\ mem[r] \in Record /\ mem'[r] \in Record /\ Fielded(mem[r])
      /\ mem[r].outcome \notin Reports
      /\ \A q \in Runs \ {r} : effect'[q] = effect[q]
      /\ faulty => faulty'
      /\ UNCHANGED <<opts, accepted, claimed, disk, slot, reclaimed>>
  BY RecordFields DEF TypeOK, Start, Launch, Cancel, Shutdown, Waiting, At, fixed,
                      durable, history, CallInv, Backed, Incident
<1>2. UNCHANGED mem => SetMem(r, mem[r])
  BY DEF SetMem, TypeOK
<1>3. UNCHANGED pc => Goto(r, pc[r])
  BY DEF Goto, TypeOK
<1>4. ASSUME NEW rec, NEW loc, NEW w, loc \in {pc[r], "launch", "acting"},
             SetMem(r, rec), Goto(r, loc), Queue(r, w) \/ (w = <<>> /\ UNCHANGED todo),
             rec.outcome = mem[r].outcome, Quiet(w)
      PROVE  \E l, x, v : Walks(r, l, x, v)
  <2>1. loc \in {"dedup", "claim", "flag"} => opts[r].keyed
    BY <1>4 DEF CallInv, Known
  <2> QED BY <1>1, <1>4, <2>1, NoSuccess
<1>5. CASE Start(r)
  <2> DEFINE rec == Move(mem[r], "start")
  <2>1. SetMem(r, rec) /\ Queue(r, <<Save(rec)>>) /\ Goto(r, "launch")
    BY <1>5 DEF Start
  <2>2. rec.outcome = mem[r].outcome
    BY <1>1, Outcomes
  <2>3. rec \in Record
    BY <1>1, <2>1 DEF SetMem, TypeOK
  <2> HIDE DEF rec
  <2>4. Quiet(<<Save(rec)>>)
    BY <1>1, <2>2, <2>3, QuietQueues DEF Reports, CheckpointKinds
  <2> QED BY <1>4, <2>1, <2>2, <2>4
<1>6. CASE Launch(r)
  <2>1. Quiet(<<>>)
    BY <1>1, QuietQueues DEF CheckpointKinds
  <2> QED BY <1>2, <1>4, <1>6, <2>1 DEF Launch
<1>7. CASE Cancel(r) \/ Shutdown(r)
  <2> DEFINE m1 == Mark(r, mem[r], "recovery_decided")
             m2 == Mark(r, mem[r], "cancellation_requested")
             c == [op |-> "cancellation"]
  <2>1. Quiet(<<m2, c>>) /\ Quiet(<<m1, m2, c>>)
    <3>1. "recovery_decided" \in CheckpointKinds /\ "cancellation_requested" \in CheckpointKinds
      BY DEF CheckpointKinds
    <3> QED BY <1>1, <3>1, QuietQueues
  <2>2. UNCHANGED <<pc, mem>> /\ (Queue(r, <<m2, c>>) \/ Queue(r, <<m1, m2, c>>))
    BY <1>7 DEF Cancel, Shutdown
  <2> HIDE DEF m1, m2, c
  <2> QED BY <1>2, <1>3, <1>4, <2>1, <2>2
<1> QED BY <1>5, <1>6, <1>7

\* An attempt ends: a success is one of an action that is done.
LEMMA EndWalks ==
  ASSUME TypeOK, TypeOK', NEW r \in Runs, Memory(r), CallInv(r),
         Return(r) \/ CancelWatch(r) \/ Expire(r) \/ Throw(r)
  PROVE  \E loc, rec, w : Walks(r, loc, rec, w)
<1>1. /\ todo[r] = <<>> /\ pc[r] = "acting"
      /\ mem[r] \in Record /\ mem'[r] \in Record /\ Fielded(mem[r])
      /\ mem[r].outcome \notin Reports
      /\ \A q \in Runs \ {r} : effect'[q] = effect[q]
      /\ UNCHANGED <<opts, accepted, claimed, disk, slot, faulty, reclaimed>>
  BY RecordFields DEF TypeOK, Return, CancelWatch, Expire, Throw, At, fixed,
                      durable, history, CallInv, Backed
<1>2. ASSUME NEW rec, NEW loc \in {"start", "settle"}, NEW w,
             SetMem(r, rec), Goto(r, loc), Queue(r, w) \/ (w = <<>> /\ UNCHANGED todo),
             rec.outcome \notin Reports, Quiet(w)
      PROVE  \E l, x, v : Walks(r, l, x, v)
  BY <1>1, <1>2, NoSuccess
<1>3. Quiet(<<>>)
  BY <1>1, QuietQueues DEF CheckpointKinds
<1>4. CASE Return(r)
  <2> DEFINE seen == Move(mem[r], "observe")
             dry == End(seen, "succeed", "dry_run_simulated", FALSE)
             good == End(seen, "succeed", "succeeded", FALSE)
             bad == End(seen, "fail", "failed", FALSE)
             w == <<Mark(r, seen, "step_completed")>>
  <2>0. mem[r].state = "running"
    BY <1>4, Acting DEF Return
  <2>1. seen \in Record /\ seen.state = "observing"
    BY <1>1, <2>0, Taken, TableStates, MoveRecord
  <2> HIDE DEF seen
  <2>2. /\ dry.outcome = "dry_run_simulated" /\ ~dry.unknown
        /\ good.outcome = "succeeded" /\ good.state = "succeeded" /\ ~good.unknown
        /\ bad.outcome = "failed"
    BY <2>1, Taken DEF End, Move, Record
  <2> HIDE DEF dry, good, bad
  <2>3. Queue(r, w) /\ Goto(r, "settle")
    BY <1>4 DEF Return, seen
  <2>4. PICK ok \in BOOLEAN :
          /\ SetMem(r, IF opts[r].dryRun THEN dry ELSE IF ok THEN good ELSE bad)
          /\ effect' = [effect EXCEPT ![r] = IF ok \/ opts[r].dryRun
                                             THEN "done" ELSE AfterRefusal(r)]
    BY <1>4 DEF Return, seen, dry, good, bad
  <2>5. Quiet(w)
    BY <1>1, <2>1, QuietQueues DEF CheckpointKinds
  <2> HIDE DEF w
  <2>6. CASE ~opts[r].dryRun /\ ~ok
    BY <1>2, <2>2, <2>3, <2>4, <2>5, <2>6 DEF Reports
  <2>7. CASE opts[r].dryRun \/ ok
    <3>1. /\ effect' = [effect EXCEPT ![r] = "done"]
          /\ SetMem(r, dry) \/ SetMem(r, good)
      BY <2>4, <2>7
    <3>2. Done(r)' /\ Behind(r)'
      BY <2>3, <3>1 DEF Done, Behind, Goto, TypeOK
    <3>3. todo' = [todo EXCEPT ![r] = w]
      BY <1>1, <2>3, <2>5, Queued DEF Quiet
    <3>4. claimed[r] => opts[r].keyed
      BY DEF CallInv, Known
    <3>5. \A rec \in {dry, good} : SetMem(r, rec) => Walks(r, "settle", rec, w)
      BY <1>1, <2>2, <2>3, <2>5, <3>2, <3>3, <3>4 DEF Walks, SetMem, Goto
    <3> QED BY <3>1, <3>5
  <2> QED BY <2>6, <2>7
<1>5. At(r, "acting") => (mem[r].state \in SideEffectPossible) = TRUE
  BY Acting
<1>6. ASSUME Cancelled(r), At(r, "acting")
      PROVE  \E loc, rec, w : Walks(r, loc, rec, w)
  <2> DEFINE rec == End(mem[r], "cancel", "cancelled", mem[r].state \in SideEffectPossible)
             sure == End(mem[r], "cancel", "cancelled", TRUE)
             w == <<Mark(r, sure, "cleanup_completed")>>
  <2>1. rec = sure
    BY <1>5, <1>6
  <2>2. SetMem(r, rec) /\ Queue(r, <<Mark(r, rec, "cleanup_completed")>>) /\ Goto(r, "settle")
    BY <1>6 DEF Cancelled
  <2>3. sure.outcome = "cancelled"
    BY <1>1 DEF End, Move, Fielded
  <2> HIDE DEF rec, sure
  <2>4. sure \in Record
    BY <1>1, <2>1, <2>2 DEF SetMem, TypeOK
  <2>5. Quiet(w)
    BY <1>1, <2>4, QuietQueues DEF CheckpointKinds
  <2> HIDE DEF w
  <2>6. Queue(r, w)
    BY <2>1, <2>2 DEF w
  <2> QED BY <1>2, <2>1, <2>2, <2>3, <2>5, <2>6 DEF Reports
<1>7. ASSUME NEW last, Fielded(last), last.outcome \notin Reports, NEW verdict,
             RetryOr(r, last, verdict), UNCHANGED todo
      PROVE  \E loc, rec, w : Walks(r, loc, rec, w)
  <2> DEFINE moved == Move(last, "retry")
             again == [moved EXCEPT !.outcome = "none", !.unknown = FALSE]
  <2>1. Fielded(moved)
    BY <1>7, Outcomes
  <2>2. \/ SetMem(r, again) /\ Goto(r, "start")
        \/ SetMem(r, last) /\ Goto(r, "settle")
    BY <1>7 DEF RetryOr
  <2> HIDE DEF moved
  <2>3. again.outcome = "none"
    BY <2>1 DEF Fielded
  <2> HIDE DEF again
  <2> QED BY <1>2, <1>3, <1>7, <2>2, <2>3 DEF Reports
<1>8. CASE CancelWatch(r)
  BY <1>6, <1>8 DEF CancelWatch
<1>9. CASE Expire(r)
  <2> DEFINE late == End(mem[r], "timeout", "timed_out", TRUE)
  <2>1. \E verdict : RetryOr(r, late, verdict)
    BY <1>5, <1>9 DEF Expire
  <2>2. Fielded(late) /\ late.outcome = "timed_out"
    BY <1>1 DEF End, Move, Fielded
  <2> HIDE DEF late
  <2> QED BY <1>7, <1>9, <2>1, <2>2 DEF Expire, Reports
<1>10. CASE Throw(r)
  <2> DEFINE failed == End(mem[r], "fail", "failed", TRUE)
             upgraded == [failed EXCEPT !.state = "reconciliation_required",
                                        !.outcome = "reconciliation_required"]
  <2>1. \/ Cancelled(r)
        \/ UNCHANGED todo /\ \E verdict : RetryOr(r, upgraded, verdict) \/ RetryOr(r, failed, verdict)
    <3>1. CASE cancelFlag[r] /\ Cancelled(r)
      BY <3>1
    <3>2. CASE ~cancelFlag[r]
      <4>1. UNCHANGED todo
        BY <1>10, <3>2 DEF Throw
      <4>2. PICK error \in ErrorClasses, allowed \in BOOLEAN :
              LET verdict == DecideRetry(error, opts[r].idem, TRUE, allowed)
              IN RetryOr(r, IF verdict = "reconcile" \/ opts[r].idem = "non_idempotent"
                              THEN upgraded ELSE failed, verdict)
        BY <1>5, <1>10, <3>2 DEF Throw
      <4> HIDE DEF failed, upgraded
      <4> QED BY <4>1, <4>2
    <3> QED BY <1>10, <3>1, <3>2 DEF Throw
  <2>2. Fielded(failed) /\ failed.outcome = "failed"
    BY <1>1 DEF End, Move, Fielded
  <2> HIDE DEF failed
  <2>3. Fielded(upgraded) /\ upgraded.outcome = "reconciliation_required"
    BY <2>2 DEF Fielded
  <2> HIDE DEF upgraded
  <2> QED BY <1>6, <1>7, <1>10, <2>1, <2>2, <2>3 DEF Throw, Reports
<1> QED BY <1>4, <1>8, <1>9, <1>10

-----------------------------------------------------------------------------
\* An action nobody waits for ends: more is done than before.
LEMMA LateReturnCalls ==
  ASSUME TypeOK, EInv, NEW r \in Runs, LateReturn(r)
  PROVE  EInv'
<1>1. /\ effect' = [effect EXCEPT ![r] = "done"]
      /\ UNCHANGED <<opts, pc, mem, claimed, todo, disk, slot, accepted, faulty, reclaimed>>
  BY DEF LateReturn, control, durable, history
<1>2. \A q \in Runs : Done(q) => Done(q)'
  BY <1>1 DEF Done, TypeOK
<1>3. \A q \in Runs : CallInv(q)'
  BY <1>1, <1>2, OtherCalls DEF EInv
<1>4. KeyDone => KeyDone'
  BY <1>1, <1>2, StaysDone
<1> QED BY <1>1, <1>3, <1>4 DEF EInv

\* A process dies with its memory; what is done and what is written remain.
LEMMA CrashCalls ==
  ASSUME TypeOK, EInv, NEW r \in Runs, Crash(r)
  PROVE  EInv'
<1>1. /\ pc[r] \notin {"idle", "crashed"}
      /\ pc' = [pc EXCEPT ![r] = "crashed"] /\ mem' = [mem EXCEPT ![r] = Created]
      /\ claimed' = [claimed EXCEPT ![r] = FALSE] /\ todo' = [todo EXCEPT ![r] = <<>>]
      /\ effect' = [effect EXCEPT ![r] = IF effect[r] = "running" THEN "unknown" ELSE effect[r]]
      /\ UNCHANGED <<opts, disk, slot, accepted, reclaimed>>
  BY DEF Crash, Live, Goto, SetMem, Incident, fixed, durable
<1>2. faulty => faulty'
  BY DEF Crash, Incident
<1>3. \A q \in Runs : Done(q) => Done(q)'
  BY <1>1 DEF Done, TypeOK
<1>4. (KeyDone => KeyDone') /\ \A q \in Runs : Behind(q) => Behind(q)'
  BY <1>1, <1>3, StaysDone
<1>5. ASSUME NEW q \in Runs, q # r PROVE CallInv(q)'
  <2>1. /\ CallInv(q) /\ pc'[q] = pc[q] /\ mem'[q] = mem[q] /\ claimed'[q] = claimed[q]
        /\ todo'[q] = todo[q] /\ disk'[q] = disk[q]
    BY <1>1, <1>5 DEF EInv, TypeOK
  <2> QED BY <1>1, <1>2, <1>3, <2>1, OtherCalls
<1>6. CallInv(r)'
  <2>1. /\ pc'[r] = "crashed" /\ mem'[r] = Created /\ ~claimed'[r] /\ todo'[r] = <<>>
        /\ disk'[r] = disk[r] /\ CallInv(r)
    BY <1>1 DEF EInv, TypeOK
  <2>2. Created.outcome = "none"
    BY DEF Created
  <2>3. Backed(r)'
    BY <1>4, <2>1, <2>2 DEF CallInv, Backed, Saves, Reports
  <2>4. Known(r)' /\ Closing(r)'
    BY <1>1, <2>1 DEF CallInv, Known, Closing
  <2> QED BY <2>3, <2>4 DEF CallInv
<1> QED BY <1>1, <1>4, <1>5, <1>6 DEF EInv

\* The end of a call: the settlement that it queues says what the record says.
LEMMA SettleCalls ==
  ASSUME TypeOK, EInv, NEW r \in Runs, Settle(r)
  PROVE  EInv'
<1> DEFINE f == Final(mem[r])
           sl == SlotTo(SettledSlot(mem[r]))
           w == IF claimed[r] THEN <<sl, f>> ELSE <<f>>
<1>1. CallInv(r) /\ pc[r] = "settle" /\ todo[r] = <<>> /\ mem[r] \in Record
  BY DEF EInv, Settle, At, TypeOK
<1>2. SettledSlot(mem[r]) \in SlotStates
  BY DEF SettledSlot, SlotStates
<1>3. /\ f \in WriteItem /\ f.op = "final" /\ f.rec = mem[r]
      /\ sl \in WriteItem /\ sl.op = "slot" /\ sl.to = SettledSlot(mem[r])
  BY <1>1, <1>2, Items DEF Final, SlotTo, TypeOK
<1>4. Queue(r, (IF claimed[r] THEN <<sl>> ELSE <<>>) \o <<f>>)
  BY DEF Settle
<1> HIDE DEF f, sl
<1>5. (IF claimed[r] THEN <<sl>> ELSE <<>>) \o <<f>> = w
  <2>1. <<sl>> \o <<f>> = <<sl, f>>
    BY <1>3, Joined
  <2>2. <<f>> \in Seq(WriteItem)
    BY <1>3
  <2>3. <<>> \o <<f>> = <<f>>
    BY <2>2, ConcatEmptySeq
  <2> QED BY <2>1, <2>3
<1>6. /\ w \in Seq(WriteItem) /\ w # <<>>
      /\ claimed[r] => w[1] = sl
      /\ \A i \in DOMAIN w : w[i].op = "slot" => i = 1 /\ claimed[r] /\ w[i] = sl
      /\ \A i \in Saves(w) : w[i].rec = mem[r]
  BY <1>3 DEF Saves
<1> HIDE DEF w
<1>7. /\ todo' = [todo EXCEPT ![r] = w] /\ pc' = [pc EXCEPT ![r] = "returned"]
      /\ UNCHANGED <<opts, accepted, mem, claimed, disk, slot, effect, faulty, reclaimed>>
  BY <1>1, <1>4, <1>5, <1>6, Queued DEF Settle, Goto, fixed, durable, history
<1>8. \A q \in Runs : Done(q) => Done(q)'
  BY <1>1, <1>7 DEF Done, TypeOK
<1>9. (KeyDone => KeyDone') /\ \A q \in Runs : Behind(q) => Behind(q)'
  BY <1>7, <1>8, StaysDone
<1>10. ASSUME NEW q \in Runs, q # r PROVE CallInv(q)'
  <2>1. /\ CallInv(q) /\ pc'[q] = pc[q] /\ mem'[q] = mem[q] /\ claimed'[q] = claimed[q]
        /\ todo'[q] = todo[q] /\ disk'[q] = disk[q]
    BY <1>7, <1>10 DEF EInv, TypeOK
  <2> QED BY <1>7, <1>8, <2>1, OtherCalls
<1>11. CallInv(r)'
  <2>1. /\ pc'[r] = "returned" /\ todo'[r] = w
        /\ UNCHANGED <<opts, mem, claimed, disk, faulty, reclaimed>>
    BY <1>7 DEF TypeOK
  <2>2. SettledSlot(mem[r]) = "completed" => mem[r].outcome \in Reports
    BY DEF SettledSlot, Reports
  <2>3. mem[r].unknown => SettledSlot(mem[r]) = "requires_reconciliation"
    BY <1>1 DEF CallInv, Backed, SettledSlot, Reports
  <2>4. mem[r].outcome \in Reports /\ claimed[r] => KeyDone
    BY <1>1 DEF CallInv, Backed, Known, Behind, KeyDone, Reports
  <2>5. Done(r) => Done(r)'
    BY <1>8
  <2>6. Backed(r)'
    BY <1>1, <1>3, <1>6, <1>9, <2>1, <2>2, <2>4, <2>5 DEF CallInv, Backed
  <2>7. Known(r)'
    BY <1>1, <1>7, <2>1 DEF CallInv, Known
  <2>8. Closing(r)'
    BY <1>3, <1>6, <2>1, <2>3 DEF Closing
  <2> QED BY <2>6, <2>7, <2>8 DEF CallInv
<1> QED BY <1>7, <1>9, <1>10, <1>11 DEF EInv

\* A write commits.  Only the call that has the slot settles it, so an unknown
\* effect that is in the slot stays there.
LEMMA WriteDoneCalls ==
  ASSUME TypeOK, SlotInv, EInv, NEW r \in Runs, Write(r), WriteDone(r)
  PROVE  EInv'
<1> DEFINE t == todo[r]
           u == Tail(t)
           item == Head(t)
<1>1. /\ t # <<>> /\ t \in Seq(WriteItem) /\ todo' = [todo EXCEPT ![r] = u]
      /\ UNCHANGED <<opts, accepted, pc, mem, claimed, effect, faulty, reclaimed>>
      /\ disk' = IF item.op \in {"save", "final"}
                   THEN [disk EXCEPT ![r] = item.rec] ELSE disk
      /\ slot' = IF item.op = "slot" THEN item.to ELSE slot
  BY DEF Write, WriteDone, TypeOK, fixed, history
<1>2. /\ item = t[1] /\ 1 \in DOMAIN t
      /\ \A i \in DOMAIN u : u[i] = t[i + 1] /\ i + 1 \in DOMAIN t /\ i + 1 # 1
      /\ \A i \in Saves(u) : u[i] = t[i + 1] /\ i + 1 \in Saves(t)
  <2>1. \A i \in DOMAIN u : i + 1 # 1
    <3>1. u \in Seq(WriteItem)
      BY <1>1, Rest
    <3> HIDE DEF u
    <3> QED BY <3>1
  <2> QED BY <1>1, <2>1, Rest
<1>3. item.op \in {"save", "final"} => 1 \in Saves(t)
  BY <1>2 DEF Saves
<1>4. CallInv(r)
  BY DEF EInv
<1> HIDE DEF t, u, item
<1>5. \A q \in Runs : Done(q) => Done(q)'
  BY <1>1 DEF Done
<1>6. (KeyDone => KeyDone') /\ \A q \in Runs : Behind(q) => Behind(q)'
  BY <1>1, <1>5, StaysDone
<1>7. item.op = "slot" =>
        /\ claimed[r] /\ pc[r] = "returned" /\ opts[r].keyed
        /\ mem[r].unknown /\ ~faulty => item.to = "requires_reconciliation"
        /\ item.to = "completed" => KeyDone
        /\ \A i \in DOMAIN u : u[i].op # "slot"
  BY <1>2, <1>4 DEF CallInv, Closing, Known, Backed, t
<1>8. item.op # "slot" => slot' = slot /\ \A i \in DOMAIN u : u[i].op # "slot"
  BY <1>1, <1>2, <1>4 DEF CallInv, Closing, t
<1>9. ASSUME NEW q \in Runs, q # r PROVE CallInv(q)'
  <2>1. /\ CallInv(q) /\ todo'[q] = todo[q] /\ disk'[q] = disk[q]
    BY <1>1, <1>9 DEF EInv, TypeOK
  <2>2. ASSUME claimed[q], Unsafe(q), ~reclaimed, item.op = "slot"
        PROVE  FALSE
    <3>1. opts[q].keyed
      BY <2>1, <2>2 DEF CallInv, Known
    <3>2. opts[r].keyed /\ claimed[r]
      BY <1>7, <2>2
    <3>3. opts[r].idem = opts[q].idem
      BY <3>1, <3>2 DEF SlotInv
    <3>4. Winner(q) /\ Winner(r)
      BY <2>2, <3>1, <3>2, <3>3 DEF Winner, Unsafe
    <3> QED BY <1>9, <2>2, <3>4 DEF SlotInv
  <2> QED BY <1>1, <1>5, <1>8, <2>1, <2>2, OtherCalls
<1>10. CallInv(r)'
  <2>1. /\ todo'[r] = u
        /\ disk'[r] = IF item.op \in {"save", "final"} THEN item.rec ELSE disk[r]
        /\ UNCHANGED <<opts, pc, mem, claimed, faulty, reclaimed>>
    BY <1>1 DEF TypeOK
  <2>2. Done(r) => Done(r)'
    BY <1>5
  <2>3. item.op \in {"save", "final"} /\ item.rec.outcome = "succeeded" => Behind(r)
    BY <1>2, <1>3, <1>4 DEF CallInv, Backed, t
  <2>4. \A i \in Saves(u) : u[i].rec.outcome = "succeeded" => Behind(r)
    BY <1>2, <1>4 DEF CallInv, Backed, t
  <2>5. Backed(r)'
    BY <1>4, <1>6, <1>7, <1>8, <2>1, <2>2, <2>3, <2>4 DEF CallInv, Backed
  <2>6. Known(r)'
    BY <1>1, <1>4, <2>1 DEF CallInv, Known, t
  <2>7. Closing(r)'
    <3>1. \A i \in DOMAIN u : u[i].op # "slot"
      BY <1>7, <1>8
    <3>2. item.op = "slot" => slot' = item.to
      BY <1>1
    <3>3. ASSUME pc[r] = "returned", claimed[r], Unsafe(r), mem[r].unknown,
                 ~faulty, ~reclaimed, item.op # "slot"
          PROVE  slot' = "requires_reconciliation"
      BY <1>2, <1>4, <1>8, <3>3 DEF CallInv, Closing, t
    <3> QED BY <1>1, <1>7, <2>1, <3>1, <3>2, <3>3 DEF Closing, Unsafe
  <2> QED BY <2>5, <2>6, <2>7 DEF CallInv
<1>11. slot' = "completed" => KeyDone'
  BY <1>1, <1>6, <1>7 DEF EInv
<1> QED BY <1>9, <1>10, <1>11 DEF EInv

\* A write fails: nothing more is claimed of the slot, and a success whose record
\* is lost is withdrawn.
LEMMA WriteFailedCalls ==
  ASSUME TypeOK, EInv, NEW r \in Runs, Write(r), WriteFailed(r)
  PROVE  EInv'
<1> DEFINE t == todo[r]
           u == Tail(t)
           item == Head(t)
           lost == [mem[r] EXCEPT !.state = "reconciliation_required",
                                  !.outcome = "reconciliation_required"]
<1>1. /\ t # <<>> /\ t \in Seq(WriteItem) /\ todo' = [todo EXCEPT ![r] = u]
      /\ UNCHANGED <<opts, accepted, pc, claimed, effect, disk, slot, reclaimed>>
      /\ mem' = [mem EXCEPT ![r] = lost] \/ mem' = mem
  BY DEF Write, WriteFailed, SetMem, Incident, TypeOK, fixed, durable
<1>2. faulty'
  BY DEF WriteFailed, Incident
<1>3. lost.outcome = "reconciliation_required"
  BY RecordFields DEF Fielded, TypeOK
<1>4. /\ \A i \in DOMAIN u : u[i] = t[i + 1] /\ i + 1 \in DOMAIN t /\ i + 1 # 1
      /\ \A i \in Saves(u) : u[i] = t[i + 1] /\ i + 1 \in Saves(t)
  <2>1. \A i \in DOMAIN u : i + 1 # 1
    <3>1. u \in Seq(WriteItem)
      BY <1>1, Rest
    <3> HIDE DEF u
    <3> QED BY <3>1
  <2> QED BY <1>1, <2>1, Rest
<1>5. CallInv(r)
  BY DEF EInv
<1> HIDE DEF t, u, lost
<1>6. \A q \in Runs : Done(q) => Done(q)'
  BY <1>1 DEF Done
<1>7. (KeyDone => KeyDone') /\ \A q \in Runs : Behind(q) => Behind(q)'
  BY <1>1, <1>6, StaysDone
<1>8. ASSUME NEW q \in Runs, q # r PROVE CallInv(q)'
  <2>1. CallInv(q) /\ todo'[q] = todo[q] /\ mem'[q] = mem[q]
    BY <1>1, <1>8 DEF EInv, TypeOK
  <2> QED BY <1>1, <1>2, <1>6, <2>1, OtherCalls
<1>9. CallInv(r)'
  <2>1. todo'[r] = u /\ (mem'[r] = lost \/ mem'[r] = mem[r])
    BY <1>1 DEF TypeOK
  <2>2. \A i \in DOMAIN u : u[i].op # "slot"
    BY <1>4, <1>5 DEF CallInv, Closing, t
  <2>3. \A i \in Saves(u) : u[i].rec.outcome = "succeeded" => Behind(r)
    BY <1>4, <1>5 DEF CallInv, Backed, t
  <2>4. Done(r) => Done(r)'
    BY <1>6
  <2>5. Backed(r)'
    BY <1>1, <1>3, <1>5, <1>7, <2>1, <2>2, <2>3, <2>4 DEF CallInv, Backed, Reports
  <2>6. Known(r)'
    BY <1>1, <1>5, <2>1 DEF CallInv, Known, t
  <2>7. Closing(r)'
    BY <1>2, <2>1, <2>2 DEF Closing
  <2> QED BY <2>5, <2>6, <2>7 DEF CallInv
<1> QED BY <1>1, <1>7, <1>8, <1>9 DEF EInv

-----------------------------------------------------------------------------
LEMMA InitEInv ==
  Init => EInv
<1> SUFFICES ASSUME Init PROVE EInv
  OBVIOUS
<1>1. Created.outcome = "none" /\ slot = "absent"
  BY DEF Created, Init
<1>2. ASSUME NEW r \in Runs PROVE CallInv(r)
  <2>1. /\ pc[r] = "idle" /\ mem[r] = Created /\ ~claimed[r] /\ todo[r] = <<>>
        /\ disk[r] = None
    BY DEF Init
  <2> QED BY <1>1, <2>1 DEF CallInv, Backed, Known, Closing, Saves, Reports
<1> QED BY <1>1, <1>2 DEF EInv

\* Every step keeps what is said of the calls and the slot.
LEMMA StepKeepsCalls ==
  MInv /\ MInv' /\ EInv /\ [Next]_vars => EInv'
<1> SUFFICES ASSUME MInv, MInv', EInv, [Next]_vars PROVE EInv'
  OBVIOUS
<1>1. TypeOK /\ TypeOK' /\ SlotInv /\ \A r \in Runs : Memory(r) /\ CallInv(r)
  BY DEF MInv, EInv
<1>2. CASE UNCHANGED vars
  <2>1. UNCHANGED <<opts, pc, mem, claimed, todo, disk, slot, accepted, effect,
                    faulty, reclaimed>>
    BY <1>2 DEF vars, control, durable, history
  <2>2. \A q \in Runs : Done(q) => Done(q)'
    BY <2>1 DEF Done
  <2>3. \A q \in Runs : CallInv(q)'
    BY <1>1, <2>1, <2>2, OtherCalls
  <2>4. KeyDone => KeyDone'
    BY <2>1, <2>2, StaysDone
  <2> QED BY <2>1, <2>3, <2>4 DEF EInv
<1>3. ASSUME NEW r \in Runs,
             \/ Accept(r) \/ Policy(r) \/ Approval(r)
             \/ Trust(r) \/ EnvironmentThrow(r) \/ Enqueue(r) \/ SlotThrow(r)
             \/ EnvironmentReturn(r) \/ Dedup(r) \/ Claim(r) \/ Flag(r)
             \/ Start(r) \/ Launch(r) \/ Cancel(r) \/ Shutdown(r)
             \/ Return(r) \/ CancelWatch(r) \/ Expire(r) \/ Throw(r)
      PROVE  EInv'
  <2>1. \E loc, rec, w : Walks(r, loc, rec, w)
    BY <1>1, <1>3, AdmissionWalks, GateWalks, EnvironmentWalks, SlotWalks, AttemptWalks,
       EndWalks
  <2> QED BY <1>1, <2>1, WalkKeeps
<1>4. ASSUME NEW r \in Runs, LateReturn(r) \/ Crash(r) \/ Settle(r) PROVE EInv'
  BY <1>1, <1>4, LateReturnCalls, CrashCalls, SettleCalls
<1>5. ASSUME NEW r \in Runs, Write(r) PROVE EInv'
  <2>1. WriteDone(r) \/ WriteFailed(r)
    BY <1>5 DEF Write
  <2> QED BY <1>1, <1>5, <2>1, WriteDoneCalls, WriteFailedCalls
<1> QED BY <1>2, <1>3, <1>4, <1>5 DEF Next, Step

\* The invariant behind the two theorems: what a success, a row, a queued write and
\* a completed slot owe to an action that is done, and who settles the slot.
THEOREM SlotInvariant == Spec => []EInv
<1>1. FInv /\ EInv /\ [Next]_vars => EInv'
  BY StepKeeps, StepKeepsCalls DEF FInv, Keeps
<1> QED BY <1>1, InitEInv, FabricInvariant, PTL DEF Spec

\* A success is always some call's: its own action, or that of a call with the same
\* key it was deduplicated against, reported done.
THEOREM FabricSuccessIsBacked == Spec => []SuccessIsBacked
<1>1. EInv => SuccessIsBacked
  BY DEF EInv, CallInv, Backed, Behind, KeyDone, Done, SuccessIsBacked
<1> QED BY <1>1, SlotInvariant, PTL

\* An effect that a call returns as unknown closes its slot: no settlement, flag or
\* later claim reopens it, while no write fails and no failed slot is reclaimed.
THEOREM FabricUnknownClosesSlot == Spec => []UnknownClosesSlot
<1>1. EInv => UnknownClosesSlot
  BY DEF EInv, CallInv, Closing, Contenders, Returned, At, UnknownClosesSlot
<1> QED BY <1>1, SlotInvariant, PTL

-----------------------------------------------------------------------------
(***************************************************************************)
(* Startup recovery, when processes run one at a time: no pass meets a     *)
(* live call, so nothing it has read moves under it.                       *)
(***************************************************************************)

\* A checkpoint that no gate of recovery takes for safe.
Ominous(cp) == cp.kind \notin AlwaysSafeKinds /\ ~cp.safe
Marks(r) == {i \in DOMAIN todo[r] : todo[r][i].op = "checkpoint"}
Warned(r) ==
  /\ checkpoint[r] # None => Ominous(checkpoint[r])
  /\ \A i \in Marks(r) : Ominous(todo[r][i].cp)

\* With the writes going through, the latest checkpoint of an unsafe action that runs
\* in process is ominous from before its attempt, and stays so unless the action did
\* nothing or the run is durably cancelled; a cancellation is durable before the call
\* takes its next step.
Foretold(r) ==
  Unsafe(r) /\ InProcess(r) /\ ~faulty =>
    /\ pc[r] \in {"dedup", "claim", "flag", "start"} =>
         /\ \A i \in Marks(r) : Ominous(todo[r][i].cp)
         /\ IF todo[r] = <<>> THEN checkpoint[r] # None /\ Ominous(checkpoint[r])
                              ELSE Len(todo[r]) \in Marks(r)
    /\ pc[r] \in {"launch", "acting"} => Warned(r)
    /\ effect[r] \notin {"none", "refused"} => durableCancel[r] \/ Warned(r)
    /\ cancelFlag[r] =>
         durableCancel[r] \/ \E i \in DOMAIN todo[r] : todo[r][i].op = "cancellation"

\* A call that is over, by its return or by a crash.
Stopped(r) == pc[r] # "idle" /\ ~Live(r)

\* What a pass has read is what is there: it decides what it has visited, and goes on
\* with a run only if nobody cancelled it, and with an unsafe effect only if there was
\* none.
PassInv ==
  /\ \A r \in Runs : ~Live(r) /\ (found[r] # None => found[r] = disk[r])
  /\ \A r \in Runs : found[r] # None => r \in left \/ r \in decided
  /\ \A r \in left : found[r] # None
  /\ rpc # "classify" =>
       left # {} /\ NextRecord \in decided /\ ~durableCancel[NextRecord]
  /\ rpc \in {"mark", "retry"} => reread = disk[NextRecord]
  /\ rpc = "retry" =>
       reread.state \notin InFlight \/ reread.state = "awaiting_approval"

RecInv ==
  /\ FInv /\ EInv /\ RecoveryTypeOK
  /\ rpc # "off" => PassInv
  /\ RunningDecided
  /\ \A r \in resumed : Stopped(r) /\ ~durableCancel[r]

\* Whatever a pass is about to resume did nothing unsafe in its process.
Harmful(r) == Unsafe(r) /\ InProcess(r) /\ ~faulty /\ effect[r] \notin {"none", "refused"}
SafeInv ==
  /\ \A r \in Runs : Foretold(r)
  /\ rpc \in {"mark", "retry"} => ~Harmful(NextRecord)

-----------------------------------------------------------------------------
\* What recovery and the commands write, a checkpoint, a cancellation or a record without
\* an outcome over one that is there, is nothing that a call keeps of itself.
LEMMA StoreKept ==
  ASSUME MInv, EInv, UNCHANGED <<control, slot, accepted, effect>>,
         faulty' = faulty, reclaimed' = reclaimed, incidents' \in 0..MaxIncidents,
         checkpoint' \in [Runs -> Checkpoint \cup {None}], durableCancel' \in [Runs -> BOOLEAN],
         disk' \in [Runs -> Record \cup {None}],
         \A q \in Runs :
           \/ disk'[q] = disk[q]
           \/ disk[q] # None /\ disk'[q] # None /\ disk'[q].outcome = "none"
  PROVE  MInv' /\ EInv' /\ (disk' = disk /\ DInv => DInv')
<1>1. UNCHANGED <<opts, pc, mem, attempt, claimed, cancelFlag, todo,
                  slot, accepted, effect, faulty, reclaimed>>
  BY DEF control
<1>2. TypeOK'
  BY <1>1 DEF MInv, TypeOK
<1>3. \A q \in Runs : Memory(q)' /\ (disk'[q] = disk[q] /\ Recorded(q) => Recorded(q)')
  BY <1>1, OtherRuns DEF MInv
<1>4. SlotInv'
  BY <1>1, SameWinner DEF MInv, Winner, Contenders, Unsafe
<1>5. \A q \in Runs : Done(q) => Done(q)'
  BY <1>1 DEF Done
<1>6. ASSUME NEW q \in Runs PROVE CallInv(q)'
  <2>1. CASE disk'[q] = disk[q]
    BY <1>1, <1>5, <2>1, OtherCalls DEF EInv
  <2>2. CASE disk[q] # None /\ disk'[q].outcome = "none"
    <3>1. Backed(q)'
      BY <1>1, <1>5, <2>2, StaysDone DEF EInv, CallInv, Backed, Saves
    <3>2. Known(q)'
      BY <1>1, <2>2 DEF EInv, CallInv, Known
    <3>3. Closing(q)'
      BY <1>1 DEF EInv, CallInv, Closing, Unsafe
    <3> QED BY <3>1, <3>2, <3>3 DEF CallInv
  <2> QED BY <2>1, <2>2
<1>7. KeyDone => KeyDone'
  BY <1>1, <1>5, StaysDone
<1>8. disk' = disk /\ DInv => DInv'
  BY <1>3 DEF DInv
<1> QED BY <1>1, <1>2, <1>3, <1>4, <1>6, <1>7, <1>8 DEF MInv, EInv

\* A pass alone writes a checkpoint.
LEMMA FabricKept ==
  ASSUME FInv, EInv, UNCHANGED <<control, disk, durableCancel, slot, accepted, effect>>,
         faulty' = faulty, reclaimed' = reclaimed, incidents' \in 0..MaxIncidents,
         checkpoint' \in [Runs -> Checkpoint \cup {None}]
  PROVE  FInv' /\ EInv'
<1>1. MInv /\ disk \in [Runs -> Record \cup {None}] /\ durableCancel \in [Runs -> BOOLEAN]
  BY DEF FInv, MInv, TypeOK
<1>2. disk' = disk /\ disk' \in [Runs -> Record \cup {None}]
      /\ durableCancel' \in [Runs -> BOOLEAN]
  BY <1>1
<1> QED BY <1>1, <1>2, StoreKept DEF FInv

\* The order of the query: a record with a possible side effect comes first.
LEMMA Ranks ==
  ASSUME NEW s \in Interrupted
  PROVE  Rank(s) \in 0..4 /\ (Rank(s) = 0 <=> s \in SideEffectPossible)
<1>1. CASE s \in {"running", "observing"}
  BY <1>1 DEF Rank, SideEffectPossible
<1>2. CASE s = "awaiting_approval"
  BY <1>2 DEF Rank, SideEffectPossible
<1>3. CASE s = "awaiting_policy"
  BY <1>3 DEF Rank, SideEffectPossible
<1>4. CASE s = "authorized"
  BY <1>4 DEF Rank, SideEffectPossible
<1>5. CASE s = "queued"
  BY <1>5 DEF Rank, SideEffectPossible
<1> QED BY <1>1, <1>2, <1>3, <1>4, <1>5 DEF Interrupted

\* While records of accepted calls are left, the next one is among them, and no other
\* has a state of lower rank.
LEMMA NextIsOne ==
  ASSUME TypeOK, NEW S \in SUBSET Runs, S # {}, left = S,
         \A q \in S : found[q] # None /\ found[q].state \in Interrupted,
         \A q \in S : \E i \in 1..Len(accepted) : accepted[i] = q
  PROVE  /\ NextRecord \in S
         /\ \A q \in S : Rank(found[NextRecord].state) <= Rank(found[q].state)
<1> DEFINE n == Len(accepted)
           rk(q) == Rank(found[q].state)
           K == {5 - rk(q) : q \in S}
<1>1. n \in Nat /\ \A q \in S : rk(q) \in 0..4
  <2>1. accepted \in Seq(Runs)
    BY DEF TypeOK
  <2>2. ASSUME NEW q \in S PROVE rk(q) \in 0..4
    BY <2>2, Ranks
  <2> QED BY <2>1, <2>2
<1> HIDE DEF n, rk
<1>2. K \in SUBSET (1..5) /\ K # {}
  BY <1>1
<1>3. PICK k \in K : \A x \in K : x <= k
  <2> HIDE DEF K
  <2> QED BY <1>2, Greatest
<1> DEFINE I == {i \in 1..n : accepted[i] \in S /\ 5 - rk(accepted[i]) = k}
<1>4. I \in SUBSET (1..n) /\ I # {}
  <2>1. PICK q \in S : k = 5 - rk(q)
    BY <1>3
  <2>2. PICK i \in 1..n : accepted[i] = q
    BY DEF n
  <2>3. i \in I
    BY <2>1, <2>2
  <2> QED BY <2>3
<1>5. PICK m \in I : \A i \in I : i <= m
  <2> HIDE DEF I
  <2> QED BY <1>1, <1>4, Greatest
<1>6. m \in 1..n /\ accepted[m] \in S /\ 5 - rk(accepted[m]) = k
  BY <1>5
<1>7. PICK r \in S : r = accepted[m]
  BY <1>6
<1>8. ASSUME NEW q \in S PROVE rk(r) <= rk(q)
  <2>1. 5 - rk(q) \in K /\ rk(q) \in 0..4 /\ rk(r) \in 0..4
    BY <1>1
  <2>2. 5 - rk(q) <= 5 - rk(r)
    BY <2>1, <1>3, <1>6, <1>7
  <2> QED BY <2>1, <2>2
<1>9. ASSUME NEW q \in S \ {r}, rk(r) = rk(q) PROVE Newer(r, q)
  <2>1. PICK j \in 1..n : accepted[j] = q
    BY DEF n
  <2>2. j \in I
    BY <2>1, <1>6, <1>7, <1>9
  <2>3. j <= m /\ j # m
    BY <1>5, <1>7, <2>1, <2>2
  <2>4. m \in 1..n /\ j \in 1..n /\ m > j
    BY <1>1, <1>6, <2>1, <2>3
  <2> QED BY <1>7, <2>1, <2>4 DEF Newer, n
<1>10. \A q \in S \ {r} : rk(r) < rk(q) \/ (rk(r) = rk(q) /\ Newer(r, q))
  <2>1. \A q \in S : rk(r) \in Int /\ rk(q) \in Int
    BY <1>1
  <2> QED BY <1>8, <1>9, <2>1
<1> DEFINE First(p) == \A q \in S \ {p} : rk(p) < rk(q) \/ (rk(p) = rk(q) /\ Newer(p, q))
<1>11. NextRecord = CHOOSE p \in S : First(p)
  BY DEF NextRecord, rk
<1>12. First(r)
  BY <1>10
<1>13. NextRecord \in S /\ First(NextRecord)
  <2> HIDE DEF First
  <2> QED BY <1>11, <1>12
<1>14. ASSUME NEW q \in S PROVE rk(NextRecord) <= rk(q)
  <2>1. rk(NextRecord) \in Int /\ rk(q) \in Int
    BY <1>1, <1>13
  <2>2. q = NextRecord \/ rk(NextRecord) < rk(q) \/ rk(NextRecord) = rk(q)
    BY <1>13
  <2> QED BY <2>1, <2>2
<1> QED BY <1>13, <1>14 DEF rk

\* The next record is the same until one is visited.
LEMMA SameNext ==
  ASSUME UNCHANGED <<left, found, accepted>>
  PROVE  NextRecord' = NextRecord
BY DEF NextRecord, Newer

\* A step of one call changes nothing that recovery reads of another.
LEMMA OthersStay ==
  ASSUME TypeOK, NEW q \in Runs, NEW r \in Runs, r # q,
         Accept(q) \/ Step(q) \/ LateReturn(q) \/ Cancel(q) \/ Shutdown(q) \/ Crash(q)
  PROVE  /\ pc'[r] = pc[r] /\ todo'[r] = todo[r] /\ cancelFlag'[r] = cancelFlag[r]
         /\ effect'[r] = effect[r] /\ checkpoint'[r] = checkpoint[r]
         /\ durableCancel'[r] = durableCancel[r]
         /\ mem'[r] = mem[r] /\ disk'[r] = disk[r]
         /\ opts' = opts /\ (faulty => faulty')
<1> USE DEF TypeOK, SetMem, Goto, Queue, fixed, durable, history, Incident
<1>1. CASE Accept(q) \/ Policy(q) \/ Start(q) \/ Launch(q) \/ Settle(q)
  BY <1>1 DEF Accept, Policy, Start, Launch, Settle
<1>2. CASE Approval(q) \/ SlotThrow(q) \/ EnvironmentThrow(q)
  BY <1>2 DEF Approval, SlotThrow, EnvironmentThrow, Abort
<1>3. CASE Trust(q) \/ EnvironmentReturn(q) \/ Enqueue(q)
  BY <1>3 DEF Trust, EnvironmentReturn, Enqueue
<1>4. CASE Dedup(q) \/ Claim(q) \/ Flag(q)
  BY <1>4 DEF Dedup, Claim, Flag
<1>5. CASE Return(q) \/ CancelWatch(q)
  BY <1>5 DEF Return, CancelWatch, Cancelled
<1>6. CASE Expire(q)
  BY <1>6 DEF Expire, RetryOr
<1>7. CASE Throw(q)
  <2>1. /\ opts' = opts /\ cancelFlag' = cancelFlag /\ UNCHANGED durable
        /\ effect' = [effect EXCEPT ![q] = "unknown"] /\ faulty' = faulty
    BY <1>7 DEF Throw
  <2>2. pc'[r] = pc[r] /\ todo'[r] = todo[r] /\ mem'[r] = mem[r]
    BY <1>7 DEF Throw, Cancelled, RetryOr
  <2> QED BY <2>1, <2>2
<1>8. CASE LateReturn(q) \/ Cancel(q) \/ Shutdown(q) \/ Crash(q)
  BY <1>8 DEF LateReturn, Cancel, Shutdown, Crash, control
<1>9. CASE Write(q)
  BY <1>9 DEF Write, WriteDone, WriteFailed
<1> QED BY <1>1, <1>2, <1>3, <1>4, <1>5, <1>6, <1>7, <1>8, <1>9 DEF Step

\* A call that is over takes no step but the end of an action nobody waits for.
LEMMA StoppedStays ==
  ASSUME FInv, NEW r \in Runs, Stopped(r), [Next]_vars
  PROVE  Stopped(r)' /\ durableCancel'[r] = durableCancel[r]
<1>1. pc[r] \in {"returned", "crashed"} /\ todo[r] = <<>> /\ TypeOK
  BY DEF Stopped, Live, Returned, At, FInv, MInv, Memory, Ends
<1>2. UNCHANGED <<pc, todo, durableCancel>> => Stopped(r)' /\ durableCancel'[r] = durableCancel[r]
  BY DEF Stopped, Live, Returned, At
<1>3. CASE UNCHANGED vars
  BY <1>2, <1>3 DEF vars, control, durable
<1>4. ASSUME NEW q \in Runs, q # r,
             Accept(q) \/ Step(q) \/ LateReturn(q) \/ Cancel(q) \/ Shutdown(q) \/ Crash(q)
      PROVE  Stopped(r)' /\ durableCancel'[r] = durableCancel[r]
  BY <1>1, <1>4, OthersStay DEF Stopped, Live, Returned, At
<1>5. CASE LateReturn(r)
  BY <1>2, <1>5 DEF LateReturn, control, durable
<1>6. ~(Accept(r) \/ Cancel(r) \/ Shutdown(r) \/ Crash(r))
  BY <1>1 DEF Accept, Cancel, Shutdown, Crash, Waiting, At, Stopped
<1>7. ~Step(r)
  BY <1>1 DEF Step, Policy, Approval, Trust, EnvironmentReturn, EnvironmentThrow, Enqueue,
              Dedup, Claim, Flag, SlotThrow, Start, Launch, Return, CancelWatch, Expire,
              Throw, Settle, Write, At
<1> QED BY <1>3, <1>4, <1>5, <1>6, <1>7 DEF Next

-----------------------------------------------------------------------------
\* What a pass does keeps execute()'s own invariants and the types of its own state.
LEMMA InitRec ==
  RInit => RecInv
<1> SUFFICES ASSUME RInit PROVE RecInv
  OBVIOUS
<1>1. FInv /\ EInv /\ TypeOK
  BY InitFInv, InitEInv DEF RInit, FInv, MInv
<1>2. RecoveryTypeOK
  <2> DEFINE F == {rec \in Record : rec.state \in Interrupted}
  <2>1. found \in [Runs -> F \cup {None}]
    BY DEF RInit
  <2>2. 0 \in 0..MaxPasses
    BY PassesAssumption
  <2>3. RecoveryTypeOK <=>
          /\ TypeOK /\ rpc \in {"off", "classify", "verify", "mark", "retry"}
          /\ found \in [Runs -> F \cup {None}]
          /\ left \subseteq Runs /\ reread \in Record \cup {None}
          /\ decided \subseteq Runs /\ resumed \subseteq Runs
          /\ aborted \in BOOLEAN /\ passes \in 0..MaxPasses
    BY DEF RecoveryTypeOK
  <2> HIDE DEF F
  <2> QED BY <1>1, <2>1, <2>2, <2>3 DEF RInit
<1> QED BY <1>1, <1>2 DEF RInit, RecInv, RunningDecided

\* A step of a call, outside any pass.
LEMMA WorkRec ==
  ASSUME ~Concurrent, RecInv, Work
  PROVE  RecInv'
<1>1. /\ FInv /\ EInv /\ [Next]_vars /\ rpc = "off"
      /\ UNCHANGED <<rpc, found, left, reread, decided, resumed, aborted, passes>>
  BY DEF RecInv, Work, recovery
<1>2. FInv' /\ EInv'
  BY <1>1, StepKeeps, StepKeepsCalls DEF FInv, Keeps
<1>3. RecoveryTypeOK'
  BY <1>1, <1>2 DEF RecInv, RecoveryTypeOK, FInv, MInv
<1>4. RunningDecided'
  BY <1>1 DEF RecInv, RunningDecided
<1>5. \A r \in resumed' : Stopped(r)' /\ ~durableCancel'[r]
  BY <1>1, StoppedStays DEF RecInv, RecoveryTypeOK
<1> QED BY <1>1, <1>2, <1>3, <1>4, <1>5 DEF RecInv

\* A pass begins with nobody alive, and has the records as they are.
LEMMA DiscoverRec ==
  ASSUME ~Concurrent, RecInv, Discover
  PROVE  RecInv'
<1>1. /\ FInv /\ EInv /\ TypeOK /\ UNCHANGED vars /\ rpc' = "classify"
      /\ passes < MaxPasses /\ passes' = passes + 1 /\ passes \in 0..MaxPasses
      /\ found' = [r \in Runs |-> IF disk[r] # None /\ disk[r].state \in Interrupted
                                    THEN disk[r] ELSE None]
      /\ left' = {r \in Runs : found'[r] # None}
      /\ reread' = None /\ decided' = {} /\ resumed' = {} /\ aborted' = FALSE
      /\ \A r \in Runs : ~Live(r)
  BY DEF RecInv, Discover, FInv, MInv, RecoveryTypeOK
<1>2. FInv' /\ EInv'
  BY <1>1, StepKeeps, StepKeepsCalls DEF FInv, Keeps
<1>3. RecoveryTypeOK'
  <2>1. found' \in [Runs -> {rec \in Record : rec.state \in Interrupted} \cup {None}]
    BY <1>1 DEF TypeOK
  <2>2. TypeOK' /\ passes' \in 0..MaxPasses
    BY <1>1, <1>2, PassesAssumption DEF FInv, MInv
  <2>3. left' \subseteq Runs /\ reread' \in Record \cup {None} /\ aborted' \in BOOLEAN
    BY <1>1
  <2>4. decided' \subseteq Runs /\ resumed' \subseteq Runs
    BY <1>1
  <2> QED BY <1>1, <2>1, <2>2, <2>3, <2>4 DEF RecoveryTypeOK
<1>4. PassInv'
  <2>1. \A r \in Runs : ~Live(r)'
    BY <1>1 DEF vars, control, Live, Returned, At
  <2>2. disk' = disk
    BY <1>1 DEF vars, durable
  <2> QED BY <1>1, <2>1, <2>2 DEF PassInv
<1> QED BY <1>1, <1>2, <1>3, <1>4 DEF RecInv, RunningDecided

\* In a pass, the next record is a record that was found, of a call that is over, and
\* the first of those that are left.
LEMMA Visited ==
  ASSUME RecInv, rpc # "off", left # {}, NEW r, r = NextRecord
  PROVE  /\ r \in left /\ r \in Runs
         /\ found[r] # None /\ found[r] = disk[r] /\ found[r].state \in Interrupted
         /\ Stopped(r) /\ pc[r] # "idle"
         /\ \A q \in left : Rank(found[r].state) <= Rank(found[q].state)
<1>1. TypeOK /\ PassInv /\ EInv /\ left \subseteq Runs
  BY DEF RecInv, FInv, MInv, RecoveryTypeOK
<1>2. \A q \in left : /\ found[q] # None /\ found[q] = disk[q]
                      /\ found[q].state \in Interrupted
  BY <1>1 DEF RecInv, RecoveryTypeOK, PassInv
<1>3. \A q \in left : pc[q] # "idle" /\ \E i \in 1..Len(accepted) : accepted[i] = q
  BY <1>1, <1>2 DEF EInv, CallInv, Known
<1>4. r \in left /\ \A q \in left : Rank(found[r].state) <= Rank(found[q].state)
  BY <1>1, <1>2, <1>3, NextIsOne
<1> QED BY <1>1, <1>2, <1>3, <1>4 DEF PassInv, Stopped

\* A decision is recorded for the next record, which is visited now or resumed.
LEMMA DecideRec ==
  ASSUME RecInv, Decide
  PROVE  RecInv'
<1> DEFINE r == NextRecord
<1>1. /\ rpc = "classify" /\ left # {} /\ UNCHANGED vars
      /\ UNCHANGED <<found, reread, resumed, aborted, passes>>
      /\ decided' = decided \cup {r}
      /\ \/ rpc' = "verify" /\ left' = left /\ ~durableCancel[r]
         \/ rpc' = "classify" /\ left' = left \ {r}
  BY DEF Decide, Classify
<1>2. r \in left /\ r \in Runs /\ found[r] # None
  BY <1>1, Visited
<1> HIDE DEF r
<1>3. FInv' /\ EInv'
  BY <1>1, StepKeeps, StepKeepsCalls DEF RecInv, FInv, Keeps
<1>4. RecoveryTypeOK'
  BY <1>1, <1>2, <1>3 DEF RecInv, RecoveryTypeOK, FInv, MInv
<1>5. UNCHANGED <<pc, todo, disk, durableCancel, accepted>>
  BY <1>1 DEF vars, control, durable
<1>6. \A q \in Runs : (Live(q)' <=> Live(q)) /\ (Stopped(q)' <=> Stopped(q))
  BY <1>5 DEF Live, Stopped, Returned, At
<1>7. PassInv'
  <2>1. rpc' = "verify" => NextRecord' = r
    BY <1>1, <1>5, SameNext DEF r
  <2> QED BY <1>1, <1>2, <1>5, <1>6, <2>1 DEF RecInv, PassInv
<1>8. \A q \in resumed' : Stopped(q)' /\ ~durableCancel'[q]
  BY <1>1, <1>5, <1>6 DEF RecInv, RecoveryTypeOK
<1> QED BY <1>1, <1>3, <1>4, <1>7, <1>8 DEF RecInv, RunningDecided

\* The basis is verified on the record that is on disk, which nobody has moved.
LEMMA VerifyRec ==
  ASSUME RecInv, Verify
  PROVE  RecInv'
<1> DEFINE r == NextRecord
<1>1. /\ rpc = "verify" /\ UNCHANGED vars
      /\ UNCHANGED <<found, decided, resumed, aborted, passes>>
      /\ \/ rpc' = "mark" /\ reread' = disk[r] /\ left' = left
         \/ rpc' = "classify" /\ left' = left \ {r} /\ reread' = reread
  BY DEF Verify
<1>2. PassInv /\ left # {} /\ r \in decided /\ ~durableCancel[r]
  BY <1>1 DEF RecInv, PassInv
<1>3. r \in left /\ r \in Runs /\ found[r] # None /\ found[r] = disk[r]
  BY <1>1, <1>2, Visited
<1>4. rpc' = "mark" => NextRecord' = r
  BY <1>1, SameNext DEF vars
<1> HIDE DEF r
<1>5. FInv' /\ EInv'
  BY <1>1, StepKeeps, StepKeepsCalls DEF RecInv, FInv, Keeps
<1>6. RecoveryTypeOK'
  BY <1>1, <1>3, <1>5 DEF RecInv, RecoveryTypeOK, FInv, MInv, TypeOK
<1>7. UNCHANGED <<pc, todo, disk, durableCancel, accepted>>
  BY <1>1 DEF vars, control, durable
<1>8. \A q \in Runs : (Live(q)' <=> Live(q)) /\ (Stopped(q)' <=> Stopped(q))
  BY <1>7 DEF Live, Stopped, Returned, At
<1>9. PassInv'
  BY <1>1, <1>2, <1>3, <1>4, <1>7, <1>8 DEF PassInv
<1>10. \A q \in resumed' : Stopped(q)' /\ ~durableCancel'[q]
  BY <1>1, <1>7, <1>8 DEF RecInv, RecoveryTypeOK
<1> QED BY <1>1, <1>5, <1>6, <1>9, <1>10 DEF RecInv, RunningDecided

\* The checkpoint of a resume touches nothing that was read.
LEMMA MarkRec ==
  ASSUME RecInv, MarkResumed
  PROVE  RecInv'
<1> DEFINE r == NextRecord
           cp == Mark(r, reread, "recovery_decided").cp
           parked == reread.state \notin InFlight \/ reread.state = "awaiting_approval"
<1>1. /\ rpc = "mark" /\ checkpoint' = [checkpoint EXCEPT ![r] = cp]
      /\ UNCHANGED <<control, disk, durableCancel, slot, accepted, effect, history>>
      /\ UNCHANGED <<found, reread, decided, aborted, passes>>
      /\ \/ parked /\ rpc' = "retry" /\ UNCHANGED <<left, resumed>>
         \/ rpc' = "classify" /\ left' = left \ {r} /\ resumed' = resumed \cup {r}
  BY DEF MarkResumed
<1>2. /\ FInv /\ EInv /\ TypeOK /\ PassInv /\ left # {} /\ r \in decided
      /\ ~durableCancel[r] /\ reread = disk[r]
  BY <1>1 DEF RecInv, PassInv, FInv, MInv
<1>3. r \in left /\ r \in Runs /\ found[r] # None /\ found[r] = disk[r] /\ Stopped(r)
  BY <1>1, <1>2, Visited
<1>4. rpc' = "retry" => NextRecord' = r
  BY <1>1, SameNext
<1>5. cp \in Checkpoint
  <2>1. Mark(r, reread, "recovery_decided") \in WriteItem
    <3>1. found[r] \in Record
      BY <1>3 DEF RecInv, RecoveryTypeOK
    <3> HIDE DEF r
    <3> QED BY <1>2, <1>3, <3>1, Items DEF TypeOK, CheckpointKinds
  <2>2. Mark(r, reread, "recovery_decided").op = "checkpoint"
    BY DEF Mark
  <2> QED BY <2>1, <2>2 DEF WriteItem
<1> HIDE DEF r, cp
<1>6. FInv' /\ EInv'
  <2>1. /\ checkpoint' \in [Runs -> Checkpoint \cup {None}]
        /\ incidents' \in 0..MaxIncidents /\ faulty' = faulty /\ reclaimed' = reclaimed
    BY <1>1, <1>2, <1>5 DEF TypeOK, history
  <2> QED BY <1>1, <1>2, <2>1, FabricKept
<1>7. RecoveryTypeOK'
  BY <1>1, <1>3, <1>6 DEF RecInv, RecoveryTypeOK, FInv, MInv
<1>8. \A q \in Runs : (Live(q)' <=> Live(q)) /\ (Stopped(q)' <=> Stopped(q))
  BY <1>1 DEF control, Live, Stopped, Returned, At
<1>9. PassInv'
  BY <1>1, <1>2, <1>3, <1>4, <1>8 DEF PassInv
<1>10. \A q \in resumed' : Stopped(q)' /\ ~durableCancel'[q]
  BY <1>1, <1>2, <1>3, <1>8 DEF RecInv, RecoveryTypeOK
<1> QED BY <1>1, <1>6, <1>7, <1>9, <1>10 DEF RecInv, RunningDecided

\* Only two states of the table can be retried, and neither is interrupted.
LEMMA NoRetryAtRest ==
  ASSUME NEW s \in Interrupted
  PROVE  ~CanFire(s, "retry")
BY DEF Interrupted, CanFire, Transitions, NoTransition

\* A pass that an exception ends has visited what may have had a side effect: those
\* come first, and the record it ends at is none of them.
LEMMA RetryRec ==
  ASSUME RecInv, Retry
  PROVE  RecInv'
<1> DEFINE r == NextRecord
<1>1. rpc = "retry" /\ PassInv /\ left # {} /\ reread = disk[r]
      /\ (reread.state \notin InFlight \/ reread.state = "awaiting_approval")
  BY DEF Retry, RecInv, PassInv
<1>2. /\ r \in left /\ found[r] = reread /\ found[r].state \in Interrupted
      /\ \A q \in left : Rank(found[r].state) <= Rank(found[q].state)
  BY <1>1, Visited
<1>3. ~CanFire(reread.state, "retry")
  BY <1>2, NoRetryAtRest
<1>4. /\ aborted' = TRUE /\ rpc' = "off" /\ UNCHANGED vars
      /\ UNCHANGED <<resumed, left, found, reread, decided, passes>>
  BY <1>3 DEF Retry, vars, durable
<1> HIDE DEF r
<1>5. FInv' /\ EInv'
  BY <1>4, StepKeeps, StepKeepsCalls DEF RecInv, FInv, Keeps
<1>6. RecoveryTypeOK'
  BY <1>4, <1>5 DEF RecInv, RecoveryTypeOK, FInv, MInv
<1>7. RunningDecided'
  <2> SUFFICES ASSUME NEW q \in Runs, found[q] # None,
                      found[q].state \in SideEffectPossible, q \in left
               PROVE  FALSE
    BY <1>1, <1>4 DEF PassInv, RunningDecided
  <2>1. found[q].state \in Interrupted
    BY DEF SideEffectPossible, Interrupted
  <2>2. /\ Rank(found[q].state) = 0 /\ Rank(found[r].state) \in 0..4
        /\ (Rank(found[r].state) = 0 <=> found[r].state \in SideEffectPossible)
    BY <1>2, <2>1, Ranks
  <2>3. found[r].state \in SideEffectPossible
    BY <1>2, <2>2
  <2> QED BY <1>1, <1>2, <2>3 DEF SideEffectPossible, InFlight
<1>8. \A q \in resumed' : Stopped(q)' /\ ~durableCancel'[q]
  BY <1>4 DEF RecInv, vars, control, durable, Stopped, Live, Returned, At
<1> QED BY <1>4, <1>5, <1>6, <1>7, <1>8 DEF RecInv

\* A pass ends with nothing left, or with the death of its process.
LEMMA EndRec ==
  ASSUME RecInv, Finish \/ RecoveryCrash
  PROVE  RecInv'
<1>1. CASE Finish
  <2>1. /\ rpc = "classify" /\ left = {} /\ rpc' = "off" /\ UNCHANGED vars
        /\ UNCHANGED <<found, left, reread, decided, resumed, aborted, passes>>
    BY <1>1 DEF Finish
  <2>2. FInv' /\ EInv'
    BY <2>1, StepKeeps, StepKeepsCalls DEF RecInv, FInv, Keeps
  <2>3. RecoveryTypeOK'
    BY <2>1, <2>2 DEF RecInv, RecoveryTypeOK, FInv, MInv
  <2>4. RunningDecided'
    BY <2>1 DEF RecInv, PassInv, RunningDecided
  <2>5. \A q \in resumed' : Stopped(q)' /\ ~durableCancel'[q]
    BY <2>1 DEF RecInv, vars, control, durable, Stopped, Live, Returned, At
  <2> QED BY <2>1, <2>2, <2>3, <2>4, <2>5 DEF RecInv
<1>2. CASE RecoveryCrash
  <2>1. /\ Incident(FALSE) /\ rpc' = "off" /\ left' = {} /\ found' = [q \in Runs |-> None]
        /\ UNCHANGED <<control, durable, accepted, effect, reread, decided, resumed,
                       aborted, passes>>
    BY <1>2 DEF RecoveryCrash
  <2>2. incidents' \in 0..MaxIncidents /\ faulty' = faulty /\ reclaimed' = reclaimed
    <3>1. TypeOK
      BY DEF RecInv, FInv, MInv
    <3>2. faulty' = (faulty \/ FALSE) /\ faulty \in BOOLEAN /\ reclaimed' = reclaimed
      BY <2>1, <3>1 DEF Incident, TypeOK
    <3>3. faulty' = faulty
      BY <3>2
    <3> QED BY <2>1, <3>1, <3>2, <3>3, IncidentCounted
  <2>3. FInv' /\ EInv'
    <3>1. TypeOK
      BY DEF RecInv, FInv, MInv
    <3>2. UNCHANGED <<control, disk, durableCancel, slot, accepted, effect>>
          /\ checkpoint' \in [Runs -> Checkpoint \cup {None}]
      BY <2>1, <3>1 DEF durable, TypeOK
    <3> QED BY <2>2, <3>2, FabricKept DEF RecInv
  <2>4. RecoveryTypeOK'
    <3>1. found' \in [Runs -> {rec \in Record : rec.state \in Interrupted} \cup {None}]
      BY <2>1
    <3> QED BY <2>1, <2>3, <3>1 DEF RecInv, RecoveryTypeOK, FInv, MInv
  <2>5. RunningDecided'
    BY <2>1 DEF RunningDecided
  <2>6. \A q \in resumed' : Stopped(q)' /\ ~durableCancel'[q]
    BY <2>1 DEF RecInv, control, durable, Stopped, Live, Returned, At
  <2> QED BY <2>1, <2>3, <2>4, <2>5, <2>6 DEF RecInv
<1> QED BY <1>1, <1>2

\* Every step of a call or of a pass keeps the invariant.
LEMMA RNextRec ==
  ASSUME ~Concurrent, RecInv, [RNext]_rvars
  PROVE  RecInv'
<1>1. CASE UNCHANGED rvars
  <2>1. UNCHANGED vars /\ UNCHANGED <<rpc, found, left, reread, decided, resumed, aborted, passes>>
    BY <1>1 DEF rvars, recovery
  <2>2. FInv' /\ EInv'
    BY <2>1, StepKeeps, StepKeepsCalls DEF RecInv, FInv, Keeps
  <2>3. RecoveryTypeOK'
    BY <2>1, <2>2 DEF RecInv, RecoveryTypeOK, FInv, MInv
  <2>4. UNCHANGED <<pc, todo, disk, durableCancel, accepted>>
    BY <2>1 DEF vars, control, durable
  <2>5. \A q \in Runs : (Live(q)' <=> Live(q)) /\ (Stopped(q)' <=> Stopped(q))
    BY <2>4 DEF Live, Stopped, Returned, At
  <2>6. rpc # "off" => PassInv'
    BY <2>1, <2>4, <2>5, SameNext DEF RecInv, PassInv
  <2>7. RunningDecided' /\ \A q \in resumed' : Stopped(q)' /\ ~durableCancel'[q]
    BY <2>1, <2>4, <2>5 DEF RecInv, RecoveryTypeOK, RunningDecided
  <2> QED BY <2>1, <2>2, <2>3, <2>6, <2>7 DEF RecInv
<1> QED BY <1>1, WorkRec, DiscoverRec, DecideRec, VerifyRec, MarkRec, RetryRec, EndRec
        DEF RNext, Pass

\* When processes run one at a time, whatever crashes, is cancelled or fails to be
\* written: the invariant of recovery and of the calls before it.
THEOREM RecoveryInvariant ==
  ASSUME ~Concurrent
  PROVE  RSpec => []RecInv
BY InitRec, RNextRec, PTL DEF RSpec

\* However a pass ends, it has recorded a decision for every record it found running.
THEOREM RecoveryRunningDecided ==
  ASSUME ~Concurrent
  PROVE  RSpec => []RunningDecided
<1>1. RecInv => RunningDecided
  BY DEF RecInv
<1> QED BY <1>1, RecoveryInvariant, PTL

\* A run that was durably cancelled before the pass is not resumed by it.
THEOREM RecoveryCancelBlocksResume ==
  ASSUME ~Concurrent
  PROVE  RSpec => []CancelBlocksResume
<1>1. RecInv => CancelBlocksResume
  BY DEF RecInv, CancelBlocksResume
<1> QED BY <1>1, RecoveryInvariant, PTL

-----------------------------------------------------------------------------
\* Queued writes whose checkpoints are ominous.
Omens(w) ==
  /\ w \in Seq(WriteItem)
  /\ \A i \in DOMAIN w : w[i].op = "checkpoint" => Ominous(w[i].cp)

\* The checkpoints of the attempt of an unsafe action are.
LEMMA OminousMarks ==
  ASSUME opts \in [Runs -> Options], NEW r \in Runs, Unsafe(r), NEW rec \in Record,
         NEW kind \in {"step_started", "step_completed", "cancellation_requested"}
  PROVE  /\ Mark(r, rec, kind) \in WriteItem
         /\ Mark(r, rec, kind).op = "checkpoint" /\ Ominous(Mark(r, rec, kind).cp)
<1>1. kind \in CheckpointKinds /\ kind \notin AlwaysSafeKinds
  BY DEF CheckpointKinds, AlwaysSafeKinds
<1>2. (IF rec.action THEN opts[r].idem ELSE "") \notin Repeatable
  BY DEF Unsafe, Repeatable
<1>3. ~IsSideEffectSafe(kind, IF rec.action THEN opts[r].idem ELSE "")
  BY <1>1, <1>2 DEF IsSideEffectSafe
<1>4. Mark(r, rec, kind).op = "checkpoint" /\ Mark(r, rec, kind).cp.kind = kind
      /\ ~Mark(r, rec, kind).cp.safe
  BY <1>3 DEF Mark
<1> QED BY <1>1, <1>4, Items DEF Ominous

\* A step of a call that writes nothing, and queues what its effect and its place call
\* for, leaves recovery forewarned.
LEMMA Forewarned ==
  ASSUME NEW r \in Runs, Foretold(r), opts' = opts, faulty => faulty', todo[r] = <<>>,
         NEW w, todo'[r] = w, checkpoint'[r] = checkpoint[r],
         durableCancel'[r] = durableCancel[r],
         cancelFlag'[r] => cancelFlag[r] \/ \E i \in DOMAIN w : w[i].op = "cancellation",
         Unsafe(r) /\ InProcess(r) /\ ~faulty' =>
           /\ pc'[r] \in {"dedup", "claim", "flag", "start"} =>
                /\ Omens(w)
                /\ IF w = <<>> THEN pc[r] \in {"dedup", "claim", "flag", "start"}
                               ELSE w[Len(w)].op = "checkpoint"
           /\ pc'[r] \in {"launch", "acting"} =>
                pc[r] \in {"start", "launch", "acting"} /\ Omens(w)
           /\ effect'[r] \notin {"none", "refused"} =>
                /\ effect[r] \notin {"none", "refused"} \/ pc[r] \in {"start", "launch", "acting"}
                /\ Omens(w) \/ durableCancel[r]
  PROVE  Foretold(r)'
<1> SUFFICES ASSUME Unsafe(r), InProcess(r), ~faulty, ~faulty' PROVE Foretold(r)'
  BY DEF Foretold, Unsafe, InProcess
<1>1. \A i : i \notin Marks(r)
  BY DEF Marks
<1>2. /\ pc[r] \in {"dedup", "claim", "flag", "start"} =>
           checkpoint[r] # None /\ Ominous(checkpoint[r])
      /\ pc[r] \in {"launch", "acting"} => Warned(r)
      /\ effect[r] \notin {"none", "refused"} => durableCancel[r] \/ Warned(r)
      /\ cancelFlag[r] => durableCancel[r]
  BY DEF Foretold
<1>3. pc[r] \in {"start", "launch", "acting"} => Warned(r)
  BY <1>1, <1>2 DEF Warned
<1>4. Omens(w) => \A i \in Marks(r)' : Ominous(todo'[r][i].cp)
  BY DEF Marks, Omens
<1>5. Warned(r) /\ Omens(w) => Warned(r)'
  BY <1>4 DEF Warned
<1>6. pc'[r] \in {"dedup", "claim", "flag", "start"} =>
        /\ \A i \in Marks(r)' : Ominous(todo'[r][i].cp)
        /\ IF w = <<>> THEN checkpoint'[r] # None /\ Ominous(checkpoint'[r])
                       ELSE Len(w) \in Marks(r)'
  <2>1. Omens(w) /\ w # <<>> => Len(w) \in DOMAIN w
    BY EmptySeq DEF Omens
  <2> QED BY <1>2, <1>4, <2>1 DEF Marks
<1>7. pc'[r] \in {"launch", "acting"} => Warned(r)'
  BY <1>3, <1>5
<1>8. effect'[r] \notin {"none", "refused"} => durableCancel'[r] \/ Warned(r)'
  BY <1>2, <1>3, <1>5
<1>9. cancelFlag'[r] => durableCancel'[r] \/ \E i \in DOMAIN todo'[r] : todo'[r][i].op = "cancellation"
  BY <1>2
<1> QED BY <1>6, <1>7, <1>8, <1>9 DEF Foretold

\* Up to its queue a call has done nothing.
LEMMA ForetoldBefore ==
  ASSUME FInv, NEW r \in Runs, Foretold(r),
         \/ Accept(r) \/ Policy(r) \/ Approval(r) \/ Trust(r) \/ EnvironmentReturn(r)
         \/ EnvironmentThrow(r) \/ SlotThrow(r)
  PROVE  Foretold(r)'
<1>1. TypeOK /\ Memory(r)
  BY DEF FInv, MInv
<1>2. PICK rec, loc, w : BeforeStep(r, rec, loc, w)
  <2>1. CASE SlotThrow(r)
    <3>1. /\ pc[r] \in Before /\ todo[r] = <<>> /\ Abort(r) /\ Incident(TRUE)
          /\ UNCHANGED <<opts, attempt, claimed, cancelFlag, disk, checkpoint, durableCancel,
                         accepted, slot, effect>>
      BY <2>1 DEF SlotThrow, At, Before, fixed, durable
    <3>2. /\ incidents' \in 0..MaxIncidents /\ UNCHANGED reclaimed
          /\ faulty' \in BOOLEAN /\ (faulty => faulty')
      BY <1>1, <3>1, IncidentCounted
    <3> QED BY <1>1, <3>1, <3>2, AbortBefore DEF TypeOK
  <2> QED BY <1>1, <2>1, AcceptBefore, PolicyBefore, ApprovalBefore, TrustBefore,
             EnvironmentBefore
<1>3. pc'[r] \in {"policy", "approval", "trust", "environment", "queue", "settle"}
  BY <1>1 DEF Accept, Policy, Approval, Trust, EnvironmentReturn, EnvironmentThrow, SlotThrow,
              Abort, Goto, TypeOK
<1>4. InProcess(r) => effect'[r] = "none"
  BY <1>1, <1>2 DEF BeforeStep, InProcess, Memory, Unlaunched
<1>5. /\ opts' = opts /\ (faulty => faulty') /\ todo[r] = <<>> /\ todo'[r] = w
      /\ checkpoint' = checkpoint /\ durableCancel' = durableCancel /\ cancelFlag' = cancelFlag
  BY <1>1, <1>2 DEF BeforeStep, TypeOK
<1> QED BY <1>3, <1>4, <1>5, Forewarned

\* The last write before the slot and the attempt is the checkpoint of the attempt.
LEMMA ForetoldEnqueue ==
  ASSUME FInv, NEW r \in Runs, Foretold(r), Enqueue(r)
  PROVE  Foretold(r)'
<1> DEFINE auth == IF mem[r].state = "authorized" THEN mem[r] ELSE Move(mem[r], "authorize")
           rec == [Move(auth, "queue") EXCEPT !.action = TRUE]
           m == Mark(r, rec, "step_started")
           w == <<Save(rec), m>>
<1>1. TypeOK /\ Memory(r)
  BY DEF FInv, MInv
<1>2. /\ pc[r] = "queue" /\ todo[r] = <<>> /\ mem[r] \in Record
      /\ mem[r].state \in {"awaiting_policy", "authorized"}
      /\ UNCHANGED <<opts, accepted, attempt, claimed, cancelFlag, durable, effect, history>>
  BY <1>1 DEF Enqueue, At, Memory, Fits, TypeOK, fixed
<1>3. auth \in Record /\ auth.state = "authorized"
  BY <1>2, Taken, TableStates, MoveRecord
<1> HIDE DEF auth
<1>4. Move(auth, "queue") \in Record
  BY <1>3, Taken, TableStates, MoveRecord
<1>5. rec \in Record
  BY <1>4 DEF Record
<1>6. Queue(r, w) /\ UNCHANGED <<effect, checkpoint, durableCancel, cancelFlag, faulty, opts>>
  BY <1>2 DEF Enqueue, auth, durable, history
<1> HIDE DEF rec
<1>7. Save(rec) \in WriteItem /\ Save(rec).op = "save" /\ m \in WriteItem /\ m.op = "checkpoint"
  BY <1>1, <1>5, Items DEF TypeOK, CheckpointKinds, Save, Mark
<1>8. Unsafe(r) => Ominous(m.cp)
  BY <1>1, <1>5, OminousMarks DEF TypeOK
<1>9. InProcess(r) => effect[r] = "none"
  BY <1>1, <1>2 DEF InProcess, Memory, Unlaunched, Before
<1> DEFINE s == Save(rec)
<1> HIDE DEF m, s
<1>10. w \in Seq(WriteItem) /\ Len(w) = 2 /\ w # <<>> /\ w[2] = m /\ w[1] = s
       /\ DOMAIN w = {1, 2}
  BY <1>7 DEF s
<1>11. todo'[r] = w
  <2> HIDE DEF w
  <2> QED BY <1>1, <1>2, <1>6, <1>10, Queued DEF TypeOK
<1>12. Unsafe(r) => Omens(w)
  BY <1>7, <1>8, <1>10 DEF Omens, s
<1>13. w[Len(w)].op = "checkpoint"
  BY <1>7, <1>10
<1>14. pc'[r] \notin {"launch", "acting"}
  BY <1>1 DEF Enqueue, Goto, TypeOK
<1> HIDE DEF w
<1> QED BY <1>2, <1>6, <1>9, <1>10, <1>11, <1>12, <1>13, <1>14, Forewarned

\* At the slot nothing is queued, and the attempt is still ahead.
LEMMA ForetoldSlot ==
  ASSUME FInv, NEW r \in Runs, Foretold(r), Dedup(r) \/ Claim(r) \/ Flag(r)
  PROVE  Foretold(r)'
<1>1. TypeOK /\ Memory(r)
  BY DEF FInv, MInv
<1>2. /\ pc[r] \in {"dedup", "claim", "flag"} /\ todo[r] = <<>>
      /\ UNCHANGED <<opts, cancelFlag, todo, checkpoint, durableCancel, effect, faulty>>
  BY DEF Dedup, Claim, Flag, At, fixed, durable, history
<1>3. pc'[r] \in {"claim", "flag", "start", "settle"}
  BY <1>1, <1>2 DEF Dedup, Claim, Flag, Goto, TypeOK
<1>4. InProcess(r) => effect[r] = "none"
  BY <1>1, <1>2 DEF InProcess, Memory, Unlaunched, Before
<1>5. Omens(<<>>)
  BY DEF Omens
<1> QED BY <1>2, <1>3, <1>4, <1>5, Forewarned

\* The attempt begins with its checkpoint written, and the effect after it.
LEMMA ForetoldStart ==
  ASSUME FInv, NEW r \in Runs, Foretold(r), Start(r) \/ Launch(r)
  PROVE  Foretold(r)'
<1>1. TypeOK /\ Memory(r)
  BY DEF FInv, MInv
<1>2. /\ pc[r] \in {"start", "launch"} /\ todo[r] = <<>> /\ pc'[r] \in {"launch", "acting"}
      /\ UNCHANGED <<opts, cancelFlag, checkpoint, durableCancel, faulty>>
      /\ \/ Start(r) /\ UNCHANGED effect
         \/ Launch(r) /\ UNCHANGED todo
  BY <1>1 DEF Start, Launch, At, Goto, fixed, durable, history, TypeOK
<1>3. PICK w : todo'[r] = w /\ Omens(w)
  <2>1. CASE Launch(r) /\ UNCHANGED todo
    <3>1. todo'[r] = <<>> /\ Omens(<<>>)
      BY <1>2, <2>1 DEF Omens
    <3> QED BY <3>1
  <2>2. CASE Start(r)
    <3> DEFINE rec == Move(mem[r], "start")
               v == <<Save(rec)>>
    <3>1. mem[r] \in Record /\ mem[r].state = "queued"
      BY <1>1, <2>2 DEF Start, At, Memory, Fits, TypeOK
    <3>2. rec \in Record
      BY <3>1, Taken, TableStates, MoveRecord
    <3>3. Queue(r, v)
      BY <2>2 DEF Start
    <3> HIDE DEF rec
    <3>4. v \in Seq(WriteItem) /\ \A i \in DOMAIN v : v[i].op = "save"
      BY <1>1, <3>2, Items DEF Save, TypeOK
    <3> HIDE DEF v
    <3>5. todo'[r] = v
      BY <1>1, <1>2, <3>3, <3>4, Queued DEF TypeOK
    <3> QED BY <3>4, <3>5 DEF Omens
  <2> QED BY <1>2, <2>1, <2>2
<1>4. effect'[r] \notin {"none", "refused"} =>
        effect[r] \notin {"none", "refused"} \/ pc[r] \in {"start", "launch", "acting"}
  BY <1>2
<1> QED BY <1>2, <1>3, <1>4, Forewarned

\* After the attempt of an unsafe action only a cancellation, which is durable before
\* the call goes on, or an effect that did not happen is followed by a checkpoint that
\* is not ominous.
LEMMA ForetoldEnds ==
  ASSUME FInv, NEW r \in Runs, Foretold(r),
         Return(r) \/ CancelWatch(r) \/ Expire(r) \/ Throw(r)
  PROVE  Foretold(r)'
<1> SUFFICES ASSUME Unsafe(r), InProcess(r), ~faulty' PROVE Foretold(r)'
  <2>1. opts' = opts
    BY DEF Return, CancelWatch, Expire, Throw, fixed
  <2> QED BY <2>1 DEF Foretold, Unsafe, InProcess
<1>1. /\ TypeOK /\ Memory(r) /\ At(r, "acting") /\ effect' \in [Runs -> Effects]
      /\ \A q \in Runs \ {r} : effect'[q] = effect[q]
      /\ UNCHANGED <<opts, accepted, attempt, claimed, cancelFlag, disk, checkpoint,
                     durableCancel, slot, incidents, faulty, reclaimed>>
  <2>1. effect' \in [Runs -> Effects] /\ \A q \in Runs \ {r} : effect'[q] = effect[q]
    BY DEF FInv, MInv, Return, CancelWatch, Expire, Throw, AfterRefusal, TypeOK, Effects
  <2> QED BY <2>1 DEF FInv, MInv, Return, CancelWatch, Expire, Throw, fixed, durable, history
<1>2. PICK rec, loc, w : AttemptEnds(r, rec, loc, w)
  <2>1. CASE CancelWatch(r)
    <3>1. Cancelled(r)
      BY <2>1 DEF CancelWatch
    <3> QED BY <1>1, <3>1, CancelledEnds
  <2> QED BY <1>1, <2>1, ReturnEnds, ExpireEnds, ThrowEnds
<1>3. pc[r] = "acting" /\ todo[r] = <<>> /\ pc'[r] = "settle" /\ todo'[r] = w /\ w \in Seq(WriteItem)
  BY <1>1, <1>2 DEF AttemptEnds, TypeOK
<1>4. Omens(w) \/ durableCancel[r]
  <2>1. CASE Return(r)
    <3> DEFINE seen == Move(mem[r], "observe")
               m == Mark(r, seen, "step_completed")
    <3>1. seen \in Record
      BY <1>1, Acting, Taken, TableStates, MoveRecord
    <3>2. Queue(r, <<m>>)
      BY <2>1 DEF Return
    <3>3. m \in WriteItem /\ m.op = "checkpoint" /\ Ominous(m.cp)
      BY <1>1, <3>1, OminousMarks DEF TypeOK
    <3> HIDE DEF m
    <3>4. <<m>> \in Seq(WriteItem)
      BY <3>3
    <3>5. w = <<m>>
      <4> DEFINE v == <<m>>
      <4> HIDE DEF v
      <4>1. Queue(r, v) /\ v \in Seq(WriteItem)
        BY <3>2, <3>4 DEF v
      <4>2. todo' = [todo EXCEPT ![r] = v]
        BY <1>1, <1>3, <4>1, Queued
      <4>3. todo'[r] = v
        BY <1>1, <4>2 DEF TypeOK
      <4> QED BY <1>3, <4>3 DEF v
    <3> QED BY <3>3, <3>4, <3>5 DEF Omens
  <2>2. CASE cancelFlag[r]
    BY <1>1, <1>3, <2>2 DEF Foretold, TypeOK
  <2>3. CASE (Expire(r) \/ Throw(r)) /\ ~cancelFlag[r]
    <3>1. w = <<>>
      BY <1>3, <2>3 DEF Expire, Throw
    <3> QED BY <3>1 DEF Omens
  <2> QED BY <2>1, <2>2, <2>3 DEF CancelWatch
<1> QED BY <1>1, <1>3, <1>4, Forewarned

\* A cancellation is itself an ominous checkpoint.
LEMMA ForetoldCancel ==
  ASSUME FInv, NEW r \in Runs, Foretold(r), Cancel(r)
  PROVE  Foretold(r)'
<1> DEFINE m == Mark(r, mem[r], "cancellation_requested")
           c == [op |-> "cancellation"]
           w == <<m, c>>
<1>1. /\ TypeOK /\ Memory(r) /\ todo[r] = <<>> /\ mem[r] \in Record
      /\ pc[r] \in {"policy", "approval", "environment", "acting", "start"}
      /\ pc[r] = "start" => attempt[r] > 0
      /\ UNCHANGED <<opts, pc, checkpoint, durableCancel, effect>> /\ Incident(FALSE)
      /\ Queue(r, w)
  BY DEF FInv, MInv, Cancel, Waiting, At, fixed, durable, TypeOK
<1>2. Unsafe(r) => pc[r] # "start"
  BY <1>1 DEF Memory, Unlaunched
<1>3. m \in WriteItem /\ m.op = "checkpoint" /\ c \in WriteItem /\ c.op = "cancellation"
  BY <1>1, Items DEF TypeOK, CheckpointKinds, Mark
<1>4. Unsafe(r) => Ominous(m.cp)
  BY <1>1, OminousMarks DEF TypeOK
<1> HIDE DEF m, c
<1>5. w \in Seq(WriteItem) /\ DOMAIN w = {1, 2} /\ w[1] = m /\ w[2] = c
  BY <1>3
<1>6. todo'[r] = w
  <2> HIDE DEF w
  <2> QED BY <1>1, <1>5, Queued DEF TypeOK
<1>7. Unsafe(r) => Omens(w)
  BY <1>3, <1>4, <1>5 DEF Omens
<1>8. \E i \in DOMAIN w : w[i].op = "cancellation"
  BY <1>3, <1>5
<1>9. faulty => faulty'
  BY <1>1 DEF Incident
<1> HIDE DEF w
<1> QED BY <1>1, <1>2, <1>6, <1>7, <1>8, <1>9, Forewarned

\* The end of a call, of an action nobody waits for, or of a process queues no
\* checkpoint.
LEMMA ForetoldRest ==
  ASSUME FInv, NEW r \in Runs, Foretold(r), LateReturn(r) \/ Settle(r) \/ Crash(r)
  PROVE  Foretold(r)'
<1>1. TypeOK
  BY DEF FInv, MInv
<1>2. CASE LateReturn(r)
  <2>1. /\ effect[r] = "running"
        /\ UNCHANGED <<opts, pc, todo, cancelFlag, checkpoint, durableCancel, faulty>>
    BY <1>2 DEF LateReturn, control, durable, history
  <2> QED BY <2>1 DEF Foretold, Warned, Marks, Unsafe, InProcess
<1>3. CASE Crash(r)
  <2>1. /\ pc'[r] = "crashed" /\ todo'[r] = <<>> /\ ~cancelFlag'[r]
        /\ UNCHANGED <<opts, checkpoint, durableCancel>> /\ (faulty => faulty')
        /\ effect'[r] \notin {"none", "refused"} => effect[r] \notin {"none", "refused"}
    BY <1>1, <1>3 DEF Crash, Goto, fixed, durable, Incident, TypeOK
  <2>2. \A i : i \notin Marks(r)'
    BY <2>1 DEF Marks
  <2> QED BY <2>1, <2>2 DEF Foretold, Warned, Unsafe, InProcess
<1>4. CASE Settle(r)
  <2> DEFINE s == SlotTo(SettledSlot(mem[r]))
             f == Final(mem[r])
             v == IF claimed[r] THEN <<s>> ELSE <<>>
             w == v \o <<f>>
  <2>1. /\ todo[r] = <<>> /\ pc[r] = "settle" /\ pc'[r] = "returned" /\ ~cancelFlag'[r]
        /\ UNCHANGED <<opts, checkpoint, durableCancel, effect, faulty>> /\ Queue(r, w)
    BY <1>1, <1>4 DEF Settle, At, Goto, fixed, durable, history, TypeOK
  <2>2. SettledSlot(mem[r]) \in SlotStates /\ mem[r] \in Record
    BY <1>1 DEF SettledSlot, SlotStates, TypeOK
  <2>3. s \in WriteItem /\ f \in WriteItem /\ s.op = "slot" /\ f.op = "final"
    BY <1>1, <2>2, Items DEF TypeOK, SlotTo, Final
  <2> HIDE DEF s, f
  <2>4. w = <<s, f>> \/ w = <<f>>
    <3>1. <<s>> \o <<f>> = <<s, f>>
      BY <2>3, Joined
    <3>2. <<f>> \in Seq(WriteItem)
      BY <2>3
    <3>3. <<>> \o <<f>> = <<f>>
      BY <3>2, ConcatEmptySeq
    <3> QED BY <3>1, <3>3
  <2>5. w \in Seq(WriteItem) /\ \A i \in DOMAIN w : w[i].op # "checkpoint"
    <3>1. /\ <<f>> \in Seq(WriteItem) /\ \A i \in DOMAIN <<f>> : <<f>>[i].op # "checkpoint"
          /\ <<s, f>> \in Seq(WriteItem)
          /\ \A i \in DOMAIN <<s, f>> : <<s, f>>[i].op # "checkpoint"
      BY <2>3
    <3> HIDE DEF w
    <3> QED BY <2>4, <3>1
  <2> HIDE DEF w
  <2>6. todo'[r] = w
    BY <1>1, <2>1, <2>5, Queued DEF TypeOK
  <2>7. Omens(w)
    BY <2>5 DEF Omens
  <2> QED BY <2>1, <2>6, <2>7, Forewarned
<1> QED BY <1>2, <1>3, <1>4

\* A checkpoint that is written is the latest; a write that fails is remembered.
LEMMA ForetoldWrite ==
  ASSUME FInv, NEW r \in Runs, Foretold(r), Write(r)
  PROVE  Foretold(r)'
<1> DEFINE item == Head(todo[r])
<1>1. /\ TypeOK /\ todo[r] # <<>> /\ todo[r] \in Seq(WriteItem) /\ todo'[r] = Tail(todo[r])
      /\ UNCHANGED <<opts, pc, cancelFlag, effect>> /\ (WriteDone(r) \/ WriteFailed(r))
  BY DEF FInv, MInv, Write, TypeOK, fixed
<1>2. CASE WriteFailed(r)
  BY <1>2 DEF WriteFailed, Incident, Foretold
<1>3. CASE WriteDone(r)
  <2>1. /\ item = todo[r][1] /\ 1 \in DOMAIN todo[r] /\ item \in WriteItem
        /\ Len(todo[r]) \in Nat /\ Len(todo'[r]) = Len(todo[r]) - 1
        /\ (todo'[r] = <<>> <=> Len(todo[r]) = 1)
        /\ todo'[r] \in Seq(WriteItem)
        /\ \A i \in DOMAIN todo'[r] : todo'[r][i] = todo[r][i + 1] /\ i + 1 \in DOMAIN todo[r]
    BY <1>1, Rest
  <2>2. /\ faulty' = faulty
        /\ checkpoint'[r] = IF item.op = "checkpoint" THEN item.cp ELSE checkpoint[r]
        /\ durableCancel'[r] = (item.op = "cancellation" \/ durableCancel[r])
    BY <1>1, <1>3 DEF WriteDone, TypeOK, history
  <2> HIDE DEF item
  <2> SUFFICES ASSUME Unsafe(r), InProcess(r), ~faulty PROVE Foretold(r)'
    BY <1>1, <2>2 DEF Foretold, Unsafe, InProcess
  <2>3. /\ \A i \in Marks(r)' : i + 1 \in Marks(r) /\ todo'[r][i].cp = todo[r][i + 1].cp
        /\ item.op = "checkpoint" <=> 1 \in Marks(r)
    BY <2>1 DEF Marks
  <2>4. ASSUME \A i \in Marks(r) : Ominous(todo[r][i].cp)
        PROVE  /\ \A i \in Marks(r)' : Ominous(todo'[r][i].cp)
               /\ item.op = "checkpoint" => Ominous(item.cp)
    BY <2>1, <2>3, <2>4
  <2>5. Warned(r) => Warned(r)'
    BY <2>2, <2>4 DEF Warned
  <2>6. pc'[r] \in {"dedup", "claim", "flag", "start"} =>
          /\ \A i \in Marks(r)' : Ominous(todo'[r][i].cp)
          /\ IF todo'[r] = <<>> THEN checkpoint'[r] # None /\ Ominous(checkpoint'[r])
                                ELSE Len(todo'[r]) \in Marks(r)'
    <3> SUFFICES ASSUME pc[r] \in {"dedup", "claim", "flag", "start"}
                 PROVE  /\ \A i \in Marks(r)' : Ominous(todo'[r][i].cp)
                        /\ IF todo'[r] = <<>> THEN checkpoint'[r] # None /\ Ominous(checkpoint'[r])
                                              ELSE Len(todo'[r]) \in Marks(r)'
      BY <1>1
    <3>1. (\A i \in Marks(r) : Ominous(todo[r][i].cp)) /\ Len(todo[r]) \in Marks(r)
      BY <1>1 DEF Foretold
    <3>2. CASE todo'[r] = <<>>
      <4>1. item.op = "checkpoint" /\ Ominous(item.cp) /\ checkpoint'[r] = item.cp
        BY <2>1, <2>2, <2>3, <2>4, <3>1, <3>2
      <4>2. item.cp \in Checkpoint
        BY <2>1, <4>1, ItemParts
      <4> QED BY <2>4, <3>1, <3>2, <4>1, <4>2, NoneAssumption
    <3>3. CASE todo'[r] # <<>>
      <4>1. Len(todo'[r]) \in DOMAIN todo'[r]
        BY <2>1, <3>3, EmptySeq
      <4>2. todo'[r][Len(todo'[r])] = todo[r][Len(todo[r])]
        BY <2>1, <4>1
      <4>3. Len(todo'[r]) \in Marks(r)'
        BY <3>1, <4>1, <4>2 DEF Marks
      <4> QED BY <2>4, <3>1, <3>3, <4>3
    <3> QED BY <3>2, <3>3
  <2>7. pc'[r] \in {"launch", "acting"} => Warned(r)'
    BY <1>1, <2>5 DEF Foretold
  <2>8. effect'[r] \notin {"none", "refused"} => durableCancel'[r] \/ Warned(r)'
    BY <1>1, <2>2, <2>5 DEF Foretold
  <2>9. cancelFlag'[r] =>
          durableCancel'[r] \/ \E i \in DOMAIN todo'[r] : todo'[r][i].op = "cancellation"
    <3> SUFFICES ASSUME cancelFlag[r], ~durableCancel'[r]
                 PROVE  \E i \in DOMAIN todo'[r] : todo'[r][i].op = "cancellation"
      BY <1>1
    <3>1. PICK j \in DOMAIN todo[r] : todo[r][j].op = "cancellation"
      BY <2>2 DEF Foretold
    <3>2. j # 1
      BY <2>1, <2>2, <3>1
    <3>3. j - 1 \in DOMAIN todo'[r] /\ (j - 1) + 1 = j
      BY <1>1, <2>1, <3>1, <3>2
    <3> QED BY <2>1, <3>1, <3>3
  <2> QED BY <2>6, <2>7, <2>8, <2>9 DEF Foretold
<1> QED BY <1>1, <1>2, <1>3

\* Every step of a call leaves recovery forewarned of its effect.
LEMMA ForetoldKept ==
  ASSUME ~Graceful, FInv, \A r \in Runs : Foretold(r), [Next]_vars
  PROVE  \A r \in Runs : Foretold(r)'
<1>1. CASE UNCHANGED vars
  <2>1. UNCHANGED <<opts, pc, todo, cancelFlag, checkpoint, durableCancel, effect, faulty>>
    BY <1>1 DEF vars, control, durable, history
  <2> QED BY <2>1 DEF Foretold, Warned, Marks, Unsafe, InProcess
<1>2. ASSUME NEW q \in Runs,
             Accept(q) \/ Step(q) \/ LateReturn(q) \/ Cancel(q) \/ Shutdown(q) \/ Crash(q)
      PROVE  \A r \in Runs : Foretold(r)'
  <2>1. ASSUME NEW r \in Runs, r # q PROVE Foretold(r)'
    <3>1. /\ pc'[r] = pc[r] /\ todo'[r] = todo[r] /\ cancelFlag'[r] = cancelFlag[r]
          /\ effect'[r] = effect[r] /\ checkpoint'[r] = checkpoint[r]
          /\ durableCancel'[r] = durableCancel[r] /\ opts' = opts /\ (faulty => faulty')
      BY <1>2, <2>1, OthersStay DEF FInv, MInv
    <3> QED BY <3>1 DEF Foretold, Warned, Marks, Unsafe, InProcess
  <2>2. Foretold(q)'
    <3>1. ~Shutdown(q)
      BY DEF Shutdown
    <3>2. CASE Step(q)
      BY <3>2, ForetoldBefore, ForetoldEnqueue, ForetoldSlot, ForetoldStart, ForetoldEnds,
         ForetoldRest, ForetoldWrite DEF Step
    <3> QED BY <1>2, <3>1, <3>2, ForetoldBefore, ForetoldRest, ForetoldCancel
  <2> QED BY <2>1, <2>2
<1> QED BY <1>1, <1>2 DEF Next

\* What the gates of a resume need, a safe checkpoint and no durable cancellation,
\* rules a possible unsafe effect out.
LEMMA BasisIsHarmless ==
  ASSUME NEW r \in Runs, Foretold(r), ~durableCancel[r], NEW rec, NEW accepts,
         Basis(r, rec, checkpoint[r], accepts)
  PROVE  ~Harmful(r)
<1> SUFFICES ASSUME Harmful(r) PROVE FALSE
  OBVIOUS
<1>1. checkpoint[r] # None /\ Ominous(checkpoint[r])
  BY DEF Basis, Harmful, Foretold, Warned
<1>2. (IF rec.action THEN opts[r].idem ELSE "") \notin Repeatable
  BY DEF Harmful, Unsafe, Repeatable
<1>3. ~checkpoint[r].safe /\ checkpoint[r].kind \notin AlwaysSafeKinds
  BY <1>1 DEF Ominous
<1>4. ~IsSideEffectSafe(checkpoint[r].kind, IF rec.action THEN opts[r].idem ELSE "")
  BY <1>2, <1>3 DEF IsSideEffectSafe
<1> QED BY <1>3, <1>4 DEF Basis

\* Every step of a call or of a pass keeps that, when no runtime is stopped under it.
LEMMA SafeKept ==
  ASSUME ~Concurrent, ~Graceful, RecInv, SafeInv, [RNext]_rvars
  PROVE  SafeInv'
<1>1. FInv /\ \A q \in Runs : Foretold(q)
  BY DEF RecInv, SafeInv
<1>2. [Next]_vars => \A q \in Runs : Foretold(q)'
  BY <1>1, ForetoldKept
<1>3. UNCHANGED vars => \A q \in Runs : Harmful(q)' <=> Harmful(q)
  BY DEF vars, control, history, Harmful, Unsafe, InProcess
<1>4. CASE UNCHANGED rvars
  <2>1. UNCHANGED vars /\ UNCHANGED <<rpc, found, left, accepted>>
    BY <1>4 DEF rvars, recovery, vars
  <2>2. rpc' \in {"mark", "retry"} => NextRecord' = NextRecord /\ NextRecord \in Runs
    BY <2>1, SameNext, Visited DEF RecInv, PassInv
  <2> QED BY <1>2, <1>3, <2>1, <2>2 DEF SafeInv
<1>5. CASE Work
  <2>1. [Next]_vars /\ rpc' = "off"
    BY <1>5 DEF Work, recovery
  <2> QED BY <1>2, <2>1 DEF SafeInv
<1>6. CASE Discover \/ Decide \/ Finish
  <2>1. UNCHANGED vars /\ rpc' \in {"off", "classify", "verify"}
    BY <1>6 DEF Discover, Decide, Finish
  <2> QED BY <1>2, <2>1 DEF SafeInv
<1>7. CASE Verify
  <2> DEFINE r == NextRecord
  <2>1. /\ rpc = "verify" /\ UNCHANGED vars /\ UNCHANGED found
        /\ \/ /\ rpc' = "mark" /\ left' = left
              /\ \E accepts \in BOOLEAN : Basis(r, disk[r], checkpoint[r], accepts)
           \/ rpc' = "classify"
    BY <1>7 DEF Verify
  <2>2. left # {} /\ ~durableCancel[r]
    BY <2>1 DEF RecInv, PassInv
  <2>3. r \in Runs
    BY <2>1, <2>2, Visited
  <2>4. rpc' = "mark" => NextRecord' = r
    BY <2>1, SameNext DEF vars
  <2> HIDE DEF r
  <2>5. rpc' = "mark" => ~Harmful(r)
    BY <1>1, <2>1, <2>2, <2>3, BasisIsHarmless
  <2> QED BY <1>2, <1>3, <2>1, <2>3, <2>4, <2>5 DEF SafeInv
<1>8. CASE MarkResumed
  <2>0. PICK r : r = NextRecord
    OBVIOUS
  <2>1. /\ rpc = "mark" /\ rpc' \in {"retry", "classify"} /\ (rpc' = "retry" => left' = left)
        /\ UNCHANGED <<opts, pc, todo, cancelFlag, durableCancel, accepted, effect, faulty, found>>
        /\ \A q : q # r => checkpoint'[q] = checkpoint[q]
    BY <1>8, <2>0 DEF MarkResumed, control, history, FInv, MInv, TypeOK
  <2>2. left # {} /\ ~Harmful(r)
    BY <2>0, <2>1 DEF RecInv, PassInv, SafeInv
  <2>3. r \in Runs /\ Stopped(r)
    BY <2>0, <2>1, <2>2, Visited
  <2>4. rpc' = "retry" => NextRecord' = r
    BY <2>0, <2>1, SameNext
  <2>5. ASSUME NEW q \in Runs, q # r PROVE Foretold(q)'
    <3>1. checkpoint'[q] = checkpoint[q]
      BY <2>1, <2>5
    <3> QED BY <1>1, <2>1, <3>1 DEF Foretold, Warned, Marks, Unsafe, InProcess
  <2>6. Foretold(r)'
    <3>1. Foretold(r)
      BY <1>1, <2>3
    <3>2. pc[r] \in {"returned", "crashed"}
      BY <2>3 DEF Stopped, Live, Returned, At
    <3> QED BY <2>1, <2>2, <3>1, <3>2 DEF Foretold, Harmful, Unsafe, InProcess
  <2>7. Harmful(r)' <=> Harmful(r)
    BY <2>1 DEF Harmful, Unsafe, InProcess
  <2> QED BY <2>0, <2>1, <2>2, <2>4, <2>5, <2>6, <2>7 DEF SafeInv
<1>9. CASE Retry
  <2>1. /\ UNCHANGED <<opts, pc, todo, cancelFlag, checkpoint, durableCancel, effect, faulty>>
        /\ rpc' \in {"classify", "off"}
    BY <1>9 DEF Retry, control, history
  <2> QED BY <1>1, <2>1 DEF SafeInv, Foretold, Warned, Marks, Unsafe, InProcess
<1>10. CASE RecoveryCrash
  <2>1. /\ UNCHANGED <<opts, pc, todo, cancelFlag, checkpoint, durableCancel, effect>>
        /\ rpc' = "off" /\ (faulty => faulty')
    BY <1>10 DEF RecoveryCrash, control, durable, Incident
  <2> QED BY <1>1, <2>1 DEF SafeInv, Foretold, Warned, Marks, Unsafe, InProcess
<1> QED BY <1>4, <1>5, <1>6, <1>7, <1>8, <1>9, <1>10 DEF RNext, Pass

\* Of the steps, only a pass claims a resume, and of its next record.
LEMMA ResumesNext ==
  ASSUME ~Concurrent, RecInv, SafeInv, [RNext]_rvars, NEW r \in resumed' \ resumed
  PROVE  ~Harmful(r)
<1>1. CASE UNCHANGED resumed
  BY <1>1
<1>2. CASE Discover
  BY <1>2 DEF Discover
<1>3. CASE MarkResumed \/ Retry
  <2>1. rpc \in {"mark", "retry"} /\ resumed' \subseteq resumed \cup {NextRecord}
    BY <1>3 DEF MarkResumed, Retry
  <2> QED BY <2>1 DEF SafeInv
<1>4. Work \/ Decide \/ Verify \/ Finish \/ RecoveryCrash \/ UNCHANGED rvars => UNCHANGED resumed
  BY DEF Work, Decide, Verify, Finish, RecoveryCrash, rvars, recovery
<1> QED BY <1>1, <1>2, <1>3, <1>4 DEF RNext, Pass

\* When processes run one at a time and none is stopped under a call, recovery claims
\* no resume of an unsafe effect that may have happened in its process, however calls
\* and passes crash and whatever is cancelled; a write that failed is excepted.
THEOREM RecoveryUnsafeNeverResumed ==
  ASSUME ~Concurrent, ~Graceful
  PROVE  RSpec => UnsafeNeverResumedInProcess
<1> DEFINE Safely == \A r \in resumed' \ resumed :
                       Unsafe(r) /\ InProcess(r) /\ ~faulty => effect[r] \in {"none", "refused"}
<1>1. RInit => SafeInv
  <2>1. ASSUME RInit, NEW r \in Runs PROVE Foretold(r)
    <3>1. /\ pc[r] = "idle" /\ ~cancelFlag[r] /\ effect[r] = "none" /\ rpc = "off"
      BY <2>1 DEF RInit, Init
    <3> QED BY <3>1 DEF Foretold
  <2> QED BY <2>1 DEF SafeInv, RInit
<1>2. RecInv /\ SafeInv /\ [RNext]_rvars => SafeInv'
  BY SafeKept
<1>3. RecInv /\ SafeInv /\ [RNext]_rvars => [Safely]_rvars
  <2> SUFFICES ASSUME RecInv, SafeInv, [RNext]_rvars PROVE Safely
    OBVIOUS
  <2> QED BY ResumesNext DEF Harmful
<1> QED BY <1>1, <1>2, <1>3, RecoveryInvariant, PTL DEF RSpec, UnsafeNeverResumedInProcess

-----------------------------------------------------------------------------
(***************************************************************************)
(* The commands, and recovery that runs beside live calls: what is read is *)
(* old when it is written, yet a success that was reported stays.          *)
(***************************************************************************)

\* A record that could be retried is that of a call that has returned without success.
Old(r, rec) ==
  rec # None /\ rec.state \in {"failed", "timed_out"} =>
    pc[r] = "returned" /\ todo[r] = <<>> /\ mem[r].outcome # "succeeded"

\* What is in the store, unless a command has queued it again.
KeptInv ==
  /\ MInv /\ EInv /\ SuccessKept
  /\ \A r \in Runs \ requeued : Old(r, disk[r])

\* What a pass and a command have read, of records that are never removed.
ReadInv ==
  /\ \A r \in Runs : found[r] # None => disk[r] # None
  /\ \A r \in left : found[r] # None
  /\ rpc \notin {"off", "classify"} => left # {}
  /\ rpc \in {"mark", "retry"} =>
       reread # None /\ (NextRecord \notin requeued => Old(NextRecord, reread))
  /\ cmd # None => disk[cmd.run] # None

CmdInv == KeptInv /\ CommandTypeOK /\ ReadInv

-----------------------------------------------------------------------------
\* Calls are accepted one by one, each once.
LEMMA AcceptedGrows ==
  ASSUME [Next]_vars
  PROVE  \/ accepted' = accepted
         \/ \E p \in Runs : pc[p] = "idle" /\ accepted' = Append(accepted, p)
<1>1. ASSUME NEW q \in Runs, Accept(q)
      PROVE  pc[q] = "idle" /\ accepted' = Append(accepted, q)
  BY <1>1 DEF Accept, At
<1>2. ASSUME NEW q \in Runs, LateReturn(q) \/ Cancel(q) \/ Shutdown(q) \/ Crash(q)
      PROVE  accepted' = accepted
  BY <1>2 DEF LateReturn, Cancel, Shutdown, Crash, fixed
<1>3. ASSUME NEW q \in Runs,
             \/ Policy(q) \/ Approval(q) \/ Trust(q) \/ EnvironmentReturn(q)
             \/ EnvironmentThrow(q) \/ Enqueue(q) \/ SlotThrow(q) \/ Dedup(q) \/ Claim(q)
      PROVE  accepted' = accepted
  BY <1>3 DEF Policy, Approval, Trust, EnvironmentReturn, EnvironmentThrow, Enqueue,
              SlotThrow, Dedup, Claim, fixed
<1>4. ASSUME NEW q \in Runs,
             \/ Flag(q) \/ Start(q) \/ Launch(q) \/ Return(q) \/ CancelWatch(q)
             \/ Expire(q) \/ Throw(q) \/ Settle(q) \/ Write(q)
      PROVE  accepted' = accepted
  BY <1>4 DEF Flag, Start, Launch, Return, CancelWatch, Expire, Throw, Settle, Write, fixed
<1>5. UNCHANGED vars => accepted' = accepted
  BY DEF vars
<1> QED BY <1>1, <1>2, <1>3, <1>4, <1>5 DEF Next, Step

\* The records that are left are ordered as before, whoever is accepted meanwhile.
LEMMA NextStays ==
  ASSUME TypeOK, left \subseteq Runs, \A q \in left : pc[q] # "idle",
         [Next]_vars, UNCHANGED <<left, found>>
  PROVE  NextRecord' = NextRecord
<1>1. CASE accepted' = accepted
  BY <1>1, SameNext
<1>2. CASE accepted' # accepted
  <2>1. PICK p \in Runs : pc[p] = "idle" /\ accepted' = Append(accepted, p)
    BY <1>2, AcceptedGrows
  <2>2. /\ Len(accepted) \in Nat /\ Len(accepted') = Len(accepted) + 1
        /\ accepted'[Len(accepted) + 1] = p
        /\ \A i \in 1..Len(accepted) : accepted'[i] = accepted[i]
    BY <2>1 DEF TypeOK
  <2>3. ASSUME NEW r \in left, NEW q \in left PROVE Newer(r, q)' <=> Newer(r, q)
    <3>1. p # r /\ p # q
      BY <2>1
    <3>2. \A i \in 1..Len(accepted') : accepted'[i] # p => i \in 1..Len(accepted)
      BY <2>2
    <3> QED BY <2>2, <3>1, <3>2 DEF Newer
  <2> DEFINE First(r) == \A q \in left \ {r} :
               \/ Rank(found[r].state) < Rank(found[q].state)
               \/ Rank(found[r].state) = Rank(found[q].state) /\ Newer(r, q)
             Later(r) == \A q \in left \ {r} :
               \/ Rank(found[r].state) < Rank(found[q].state)
               \/ Rank(found[r].state) = Rank(found[q].state) /\ Newer(r, q)'
  <2>4. \A r \in left : First(r) <=> Later(r)
    BY <2>3
  <2>5. NextRecord = CHOOSE r \in left : First(r)
    BY DEF NextRecord
  <2>6. NextRecord' = CHOOSE r \in left : Later(r)
    BY DEF NextRecord, Rank
  <2> HIDE DEF First, Later
  <2> QED BY <2>4, <2>5, <2>6
<1> QED BY <1>1, <1>2

\* A call that has returned keeps its record, and writes it no more.
LEMMA ReturnedStays ==
  ASSUME TypeOK, NEW r \in Runs, Returned(r), [Next]_vars
  PROVE  pc'[r] = pc[r] /\ todo'[r] = todo[r] /\ mem'[r] = mem[r] /\ disk'[r] = disk[r]
<1>1. pc[r] = "returned" /\ todo[r] = <<>>
  BY DEF Returned, At
<1>2. CASE UNCHANGED vars
  BY <1>2 DEF vars, control, durable
<1>3. ASSUME NEW q \in Runs, q # r,
             Accept(q) \/ Step(q) \/ LateReturn(q) \/ Cancel(q) \/ Shutdown(q) \/ Crash(q)
      PROVE  pc'[r] = pc[r] /\ todo'[r] = todo[r] /\ mem'[r] = mem[r] /\ disk'[r] = disk[r]
  BY <1>3, OthersStay
<1>4. CASE LateReturn(r)
  BY <1>4 DEF LateReturn, control, durable
<1>5. ~(Accept(r) \/ Cancel(r) \/ Shutdown(r) \/ Crash(r))
  BY <1>1 DEF Accept, Cancel, Shutdown, Crash, Waiting, Live, Returned, At
<1>6. ~Step(r)
  BY <1>1 DEF Step, Policy, Approval, Trust, EnvironmentReturn, EnvironmentThrow, Enqueue,
              Dedup, Claim, Flag, SlotThrow, Start, Launch, Return, CancelWatch, Expire,
              Throw, Settle, Write, At
<1> QED BY <1>2, <1>3, <1>4, <1>5, <1>6 DEF Next

\* A call returns with its last write: a success that is still one then is on disk.
LEMMA ReturnsWithRow ==
  ASSUME MInv, NEW r \in Runs, [Next]_vars, ~Returned(r), Returned(r)',
         mem'[r].outcome = "succeeded"
  PROVE  disk'[r] = mem'[r]
<1>1. TypeOK /\ Memory(r) /\ todo[r] \in Seq(WriteItem)
  BY DEF MInv, TypeOK
<1>2. ~UNCHANGED <<pc, todo>> /\ pc'[r] = "returned" /\ todo'[r] = <<>>
  BY DEF Returned, At
<1>3. PICK q \in Runs :
        Accept(q) \/ Step(q) \/ LateReturn(q) \/ Cancel(q) \/ Shutdown(q) \/ Crash(q)
  BY <1>2 DEF Next, vars, control
<1>4. q = r
  BY <1>1, <1>3, OthersStay DEF Returned, At
<1>5. ~LateReturn(r)
  BY <1>2 DEF LateReturn, control
<1>6. \A loc \in Locations \ {"returned"} : ~Goto(r, loc)
  BY <1>1, <1>2 DEF Goto, TypeOK
<1>7. ~(Accept(r) \/ Crash(r))
  BY <1>6 DEF Accept, Crash, Locations
<1>8. ~(Cancel(r) \/ Shutdown(r))
  <2>1. ~Waiting(r) \/ pc[r] # "returned"
    BY DEF Waiting, At
  <2>2. UNCHANGED pc /\ Waiting(r) => pc'[r] # "returned"
    BY <2>1
  <2> QED BY <1>2, <2>2 DEF Cancel, Shutdown
<1>9. ~Settle(r)
  <2> SUFFICES ASSUME Settle(r) PROVE FALSE
    OBVIOUS
  <2> DEFINE f == Final(mem[r])
             sl == SlotTo(SettledSlot(mem[r]))
  <2>1. todo[r] = <<>> /\ Queue(r, (IF claimed[r] THEN <<sl>> ELSE <<>>) \o <<f>>)
    BY DEF Settle, At
  <2>2. f \in WriteItem /\ sl \in WriteItem
    BY <1>1, Items DEF TypeOK, SettledSlot, SlotStates
  <2> HIDE DEF f, sl
  <2>3. <<sl>> \o <<f>> = <<sl, f>> /\ <<>> \o <<f>> = <<f>>
    <3>1. <<f>> \in Seq(WriteItem)
      BY <2>2
    <3> QED BY <2>2, <3>1, Joined, ConcatEmptySeq
  <2>4. PICK w \in {<<sl, f>>, <<f>>} :
          w = (IF claimed[r] THEN <<sl>> ELSE <<>>) \o <<f>>
    BY <2>3
  <2>5. w \in Seq(WriteItem) /\ w # <<>>
    <3>1. <<sl, f>> \in Seq(WriteItem) /\ <<sl, f>> # <<>>
      BY <2>2
    <3>2. <<f>> \in Seq(WriteItem) /\ <<f>> # <<>>
      BY <2>2
    <3> QED BY <2>4, <3>1, <3>2
  <2>6. todo' = [todo EXCEPT ![r] = w]
    BY <1>1, <2>1, <2>4, <2>5, Queued
  <2> QED BY <1>1, <1>2, <2>5, <2>6 DEF TypeOK
<1>10. Write(r)
  <2>1. Step(r) => Settle(r) \/ Write(r)
    <3>1. ~(Policy(r) \/ Approval(r) \/ Trust(r) \/ EnvironmentReturn(r))
      BY <1>6 DEF Policy, Approval, Trust, EnvironmentReturn, Abort, Locations
    <3>2. ~(EnvironmentThrow(r) \/ Enqueue(r) \/ Dedup(r) \/ Claim(r) \/ Flag(r) \/ SlotThrow(r))
      BY <1>6 DEF EnvironmentThrow, Enqueue, Dedup, Claim, Flag, SlotThrow, Abort, Locations
    <3>3. ~(Start(r) \/ Launch(r) \/ Return(r) \/ CancelWatch(r))
      BY <1>6 DEF Start, Launch, Return, CancelWatch, Cancelled, Locations
    <3>4. ~(Expire(r) \/ Throw(r))
      BY <1>6 DEF Expire, Throw, RetryOr, Cancelled, Locations
    <3> QED BY <3>1, <3>2, <3>3, <3>4 DEF Step
  <2> QED BY <1>3, <1>4, <1>5, <1>7, <1>8, <1>9, <2>1
<1>11. pc[r] = "returned" /\ todo[r] # <<>> /\ Tail(todo[r]) = <<>>
  BY <1>1, <1>2, <1>10 DEF Write, fixed, TypeOK
<1>12. Len(todo[r]) = 1 /\ Head(todo[r]) = Final(mem[r])
  <2>1. Len(todo[r]) = 1 /\ Head(todo[r]) = todo[r][1]
    BY <1>1, <1>11, Rest
  <2>2. todo[r][Len(todo[r])] = Final(mem[r])
    BY <1>1, <1>11 DEF Memory, Ends
  <2> QED BY <2>1, <2>2
<1>13. mem \in [Runs -> Record] /\ disk \in [Runs -> Record \cup {None}]
  BY <1>1 DEF TypeOK
<1>14. CASE WriteDone(r)
  <2>1. Head(todo[r]).op = "final" /\ Head(todo[r]).rec = mem[r]
    BY <1>12 DEF Final
  <2>2. disk' = [disk EXCEPT ![r] = mem[r]] /\ mem' = mem
    BY <1>14, <2>1 DEF WriteDone
  <2> QED BY <1>13, <2>2
<1>15. CASE WriteFailed(r)
  <2>1. mem' = IF mem[r].outcome = "succeeded"
                 THEN [mem EXCEPT ![r] = [mem[r] EXCEPT !.state = "reconciliation_required",
                                            !.outcome = "reconciliation_required"]]
                 ELSE mem
    BY <1>12, <1>15 DEF WriteFailed, Final, SetMem
  <2>2. mem'[r].outcome # "succeeded"
    BY <1>13, <2>1 DEF Record
  <2> QED BY <2>2
<1> QED BY <1>10, <1>14, <1>15 DEF Write

\* The rows that a call writes as failed or timed out are its last ones.
LEMMA OldKept ==
  ASSUME MInv, EInv, NEW r \in Runs, [Next]_vars
  PROVE  /\ \A rec : Old(r, rec) => Old(r, rec)'
         /\ Old(r, disk[r]) => Old(r, disk[r])'
<1>1. TypeOK /\ Memory(r) /\ todo[r] \in Seq(WriteItem) /\ Backed(r)
  BY DEF MInv, EInv, CallInv, TypeOK
<1>2. ASSUME NEW rec, Old(r, rec) PROVE Old(r, rec)'
  BY <1>1, <1>2, ReturnedStays DEF Old, Returned, At
<1>3. ASSUME Old(r, disk[r]), disk'[r] # disk[r] PROVE Old(r, disk[r])'
  <2> SUFFICES ASSUME disk'[r].state \in {"failed", "timed_out"}
               PROVE  pc'[r] = "returned" /\ todo'[r] = <<>> /\ mem'[r].outcome # "succeeded"
    BY DEF Old
  <2>1. PICK q \in Runs : Write(q) /\ WriteDone(q)
    BY <1>3, OnlyWrites
  <2>2. q = r
    BY <1>1, <1>3, <2>1 DEF WriteDone, TypeOK
  <2>3. /\ todo[r] # <<>> /\ Head(todo[r]).op \in {"save", "final"}
        /\ disk'[r] = Head(todo[r]).rec
    BY <1>3, OnlyWrites
  <2>4. Head(todo[r]) = todo[r][1] /\ 1 \in Saves(todo[r])
    BY <1>1, <2>3, Rest DEF Saves
  <2>5. todo[r][1].rec.state \in {"failed", "timed_out"}
    BY <2>3, <2>4
  <2>6. pc[r] = "returned" /\ 1 = Len(todo[r]) /\ todo[r][1] = Final(mem[r])
    BY <1>1, <2>3, <2>4, <2>5 DEF Memory, Ends, Terminal
  <2>7. mem' = mem /\ pc' = pc /\ todo'[r] = Tail(todo[r])
    BY <1>1, <2>1, <2>2 DEF Write, WriteDone, fixed, TypeOK
  <2>8. Tail(todo[r]) = <<>>
    BY <1>1, <2>3, <2>6, Rest
  <2>9. mem[r].outcome # "succeeded"
    BY <1>1, <2>5, <2>6 DEF Final, Backed
  <2> QED BY <2>6, <2>7, <2>8, <2>9
<1>4. ASSUME Old(r, disk[r]), disk'[r] = disk[r] PROVE Old(r, disk[r])'
  BY <1>2, <1>4 DEF Old
<1> QED BY <1>2, <1>3, <1>4

-----------------------------------------------------------------------------
\* What is left of the pass's reading, whatever happens to the store.
Undisturbed ==
  /\ KeptInv'
  /\ \A r \in Runs : disk[r] # None => disk'[r] # None
  /\ \A r \in Runs : \A rec : Old(r, rec) => Old(r, rec)'
  /\ UNCHANGED <<left, found>> => NextRecord' = NextRecord
  /\ requeued \subseteq requeued'

\* The records that were found are there, of calls that were accepted.
LEMMA LeftAreKnown ==
  ASSUME CmdInv
  PROVE  /\ left \subseteq Runs /\ TypeOK
         /\ \A q \in left : /\ found[q] # None /\ found[q].state \in Interrupted
                            /\ disk[q] # None /\ pc[q] # "idle"
                            /\ \E i \in 1..Len(accepted) : accepted[i] = q
<1>1. left \subseteq Runs /\ TypeOK
  BY DEF CmdInv, CommandTypeOK, RecoveryTypeOK
<1>2. \A q \in left : found[q] # None /\ found[q].state \in Interrupted /\ disk[q] # None
  BY <1>1 DEF CmdInv, CommandTypeOK, RecoveryTypeOK, ReadInv
<1>3. \A q \in left : pc[q] # "idle" /\ \E i \in 1..Len(accepted) : accepted[i] = q
  BY <1>1, <1>2 DEF CmdInv, KeptInv, EInv, CallInv, Known
<1> QED BY <1>1, <1>2, <1>3

\* The next record is one of them.
LEMMA NextIsKnown ==
  ASSUME CmdInv, left # {}, NEW r, r = NextRecord
  PROVE  r \in left /\ r \in Runs /\ disk[r] # None /\ found[r] # None
BY LeftAreKnown, NextIsOne

\* A step of a call, or none.
LEMMA CallsKeep ==
  ASSUME CmdInv, [Next]_vars, requeued' = requeued
  PROVE  Undisturbed
<1>1. MInv /\ EInv /\ TypeOK
  BY DEF CmdInv, KeptInv, MInv
<1>2. MInv' /\ EInv'
  BY <1>1, StepKeeps, StepKeepsCalls DEF Keeps
<1>3. \A r \in Runs : \A rec : Old(r, rec) => Old(r, rec)'
  BY <1>1, OldKept
<1>4. ASSUME NEW r \in Runs \ requeued PROVE Old(r, disk[r])'
  BY <1>1, OldKept DEF CmdInv, KeptInv
<1>5. ASSUME NEW r \in Runs, Returned(r)', mem'[r].outcome = "succeeded", r \notin requeued
      PROVE  disk'[r] # None /\ disk'[r].outcome = "succeeded"
  <2>1. CASE Returned(r)
    BY <1>1, <1>5, <2>1, ReturnedStays DEF CmdInv, KeptInv, SuccessKept
  <2>2. CASE ~Returned(r)
    <3>1. disk'[r] = mem'[r] /\ mem'[r] \in Record
      BY <1>1, <1>2, <1>5, <2>2, ReturnsWithRow DEF MInv, TypeOK
    <3> QED BY <1>5, <3>1, NoneAssumption
  <2> QED BY <2>1, <2>2
<1>6. KeptInv'
  BY <1>2, <1>4, <1>5 DEF KeptInv, SuccessKept
<1>7. ASSUME NEW r \in Runs, disk[r] # None PROVE disk'[r] # None
  <2> SUFFICES ASSUME disk'[r] # disk[r] PROVE disk'[r] # None
    BY <1>7
  <2>1. /\ todo[r] # <<>> /\ Head(todo[r]).op \in {"save", "final"}
        /\ disk'[r] = Head(todo[r]).rec
    BY <1>1, OnlyWrites
  <2>2. Head(todo[r]) \in WriteItem
    BY <1>1, <2>1, Rest DEF TypeOK
  <2> QED BY <2>1, <2>2, ItemParts, NoneAssumption
<1>8. UNCHANGED <<left, found>> => NextRecord' = NextRecord
  BY LeftAreKnown, NextStays
<1> QED BY <1>3, <1>6, <1>7, <1>8 DEF Undisturbed

\* A write of a pass or of a command: it takes no success from a call that has returned
\* with one, unless it is the command's to queue it again.
LEMMA WritesKeep ==
  ASSUME CmdInv, UNCHANGED <<control, slot, accepted, effect>>,
         faulty' = faulty, reclaimed' = reclaimed, incidents' \in 0..MaxIncidents,
         checkpoint' \in [Runs -> Checkpoint \cup {None}], durableCancel' \in [Runs -> BOOLEAN],
         disk' \in [Runs -> Record \cup {None}], requeued \subseteq requeued',
         \A q \in Runs :
           \/ disk'[q] = disk[q]
           \/ /\ disk[q] # None /\ disk'[q] # None
              /\ disk'[q].outcome = "none" /\ disk'[q].state = "queued"
              /\ q \in requeued' \/ ~Returned(q) \/ mem[q].outcome # "succeeded"
  PROVE  Undisturbed
<1>1. MInv /\ EInv
  BY DEF CmdInv, KeptInv
<1>2. MInv' /\ EInv'
  BY <1>1, StoreKept
<1>3. UNCHANGED <<pc, mem, todo>>
  BY DEF control
<1>4. \A r \in Runs : \A rec : Old(r, rec) => Old(r, rec)'
  BY <1>3 DEF Old
<1>5. \A r \in Runs \ requeued' : Old(r, disk[r])'
  BY <1>3 DEF CmdInv, KeptInv, Old
<1>6. SuccessKept'
  BY <1>3 DEF CmdInv, KeptInv, SuccessKept, Returned, At
<1>7. KeptInv'
  BY <1>2, <1>5, <1>6 DEF KeptInv
<1>8. UNCHANGED <<left, found>> => NextRecord' = NextRecord
  BY SameNext
<1> QED BY <1>4, <1>7, <1>8 DEF Undisturbed

-----------------------------------------------------------------------------
\* The cancellations that a step of a call or of a pass makes durable are noted.
Noted == asked' = asked \cup {r \in Runs : durableCancel'[r]}

\* The types, of a step that is none of a command's.
LEMMA TypesKept ==
  ASSUME CmdInv, Undisturbed, Noted, UNCHANGED <<cmd, requeued>>,
         rpc' \in {"off", "classify", "verify", "mark", "retry"},
         found' \in [Runs -> {rec \in Record : rec.state \in Interrupted} \cup {None}],
         left' \subseteq Runs, reread' \in Record \cup {None}, decided' \subseteq Runs,
         resumed' \subseteq Runs, aborted' \in BOOLEAN, passes' \in 0..MaxPasses
  PROVE  CommandTypeOK'
<1>1. TypeOK'
  BY DEF Undisturbed, KeptInv, MInv
<1>2. RecoveryTypeOK'
  BY <1>1 DEF RecoveryTypeOK
<1>3. cmd' = cmd /\ requeued' = requeued
  OBVIOUS
<1>4. cmd' \in Command \cup {None} /\ requeued' \subseteq Runs /\ asked \subseteq Runs
  BY <1>3 DEF CmdInv, CommandTypeOK
<1>5. asked' \subseteq Runs /\ \A r \in Runs : durableCancel'[r] => r \in asked'
  BY <1>4 DEF Noted
<1> QED BY <1>2, <1>4, <1>5 DEF CommandTypeOK

\* The command that is between its steps has read a record that is there.
LEMMA CommandsRead ==
  ASSUME CmdInv, Undisturbed, cmd' = cmd, cmd # None
  PROVE  cmd.run \in Runs /\ disk'[cmd'.run] # None
<1>1. cmd \in Command
  BY DEF CmdInv, CommandTypeOK
<1>2. cmd.run \in Runs
  BY <1>1 DEF Command
<1> QED BY <1>2 DEF CmdInv, ReadInv, Undisturbed

\* A step of a call beside a pass, and what changes nothing.
LEMMA WorkCmd ==
  ASSUME CmdInv, [Next]_vars, Noted, UNCHANGED <<recovery, cmd, requeued>>
  PROVE  CmdInv'
<1>1. UNCHANGED <<rpc, found, left, reread, decided, resumed, aborted, passes>>
  BY DEF recovery
<1>2. Undisturbed
  BY CallsKeep
<1>3. CommandTypeOK'
  BY <1>1, <1>2, TypesKept DEF CmdInv, CommandTypeOK, RecoveryTypeOK
<1>4. NextRecord' = NextRecord /\ (left # {} => NextRecord \in Runs)
  BY <1>1, <1>2, NextIsKnown DEF Undisturbed
<1>5. ReadInv'
  <2>1. cmd' # None => disk'[cmd'.run] # None
    BY <1>2, CommandsRead
  <2>2. \A r \in Runs : found'[r] # None => disk'[r] # None
    BY <1>1, <1>2 DEF CmdInv, ReadInv, Undisturbed
  <2>3. \A r \in left' : found'[r] # None
    BY <1>1 DEF CmdInv, ReadInv
  <2>4. rpc' \notin {"off", "classify"} => left' # {}
    BY <1>1 DEF CmdInv, ReadInv
  <2>5. rpc' \in {"mark", "retry"} =>
          reread' # None /\ (NextRecord' \notin requeued' => Old(NextRecord, reread)')
    <3> SUFFICES ASSUME rpc \in {"mark", "retry"}
                 PROVE  reread' # None
                        /\ (NextRecord' \notin requeued' => Old(NextRecord, reread)')
      BY <1>1
    <3>1. left # {} /\ reread # None
          /\ (NextRecord \notin requeued => Old(NextRecord, reread))
      BY DEF CmdInv, ReadInv
    <3>2. PICK r \in Runs : r = NextRecord
      BY <1>4, <3>1
    <3>3. NextRecord' = r
      BY <1>4, <3>2
    <3>4. PICK rec : rec = reread
      OBVIOUS
    <3>5. reread' = rec
      BY <1>1, <3>4
    <3>6. Old(r, rec) => Old(r, rec)'
      BY <1>2 DEF Undisturbed
    <3>7. Old(r, rec)' => Old(NextRecord, reread)'
      BY <3>3, <3>5 DEF Old
    <3> QED BY <3>1, <3>2, <3>3, <3>4, <3>5, <3>6, <3>7
  <2> QED BY <2>1, <2>2, <2>3, <2>4, <2>5 DEF ReadInv
<1> QED BY <1>2, <1>3, <1>5 DEF CmdInv, Undisturbed

\* A pass begins, beside whoever is alive.
LEMMA DiscoverCmd ==
  ASSUME CmdInv, Discover, Noted, UNCHANGED <<cmd, requeued>>
  PROVE  CmdInv'
<1>1. /\ UNCHANGED vars /\ rpc' = "classify" /\ passes < MaxPasses /\ passes' = passes + 1
      /\ found' = [r \in Runs |-> IF disk[r] # None /\ disk[r].state \in Interrupted
                                    THEN disk[r] ELSE None]
      /\ left' = {r \in Runs : found'[r] # None}
      /\ reread' = None /\ decided' = {} /\ resumed' = {} /\ aborted' = FALSE
  BY DEF Discover
<1>2. Undisturbed
  BY <1>1, CallsKeep
<1>3. found' \in [Runs -> {rec \in Record : rec.state \in Interrupted} \cup {None}]
  BY <1>1 DEF CmdInv, CommandTypeOK, RecoveryTypeOK, TypeOK
<1>4. passes' \in 0..MaxPasses
  BY <1>1, PassesAssumption DEF CmdInv, CommandTypeOK, RecoveryTypeOK
<1>5. CommandTypeOK'
  BY <1>1, <1>2, <1>3, <1>4, TypesKept
<1>6. ReadInv'
  <2>1. cmd' # None => disk'[cmd'.run] # None
    BY <1>2, CommandsRead
  <2>2. \A r \in Runs : found'[r] # None => disk'[r] # None
    BY <1>1, <1>2 DEF Undisturbed
  <2> QED BY <1>1, <2>1, <2>2 DEF ReadInv
<1> QED BY <1>2, <1>5, <1>6 DEF CmdInv, Undisturbed

\* A decision, and the end of a pass.
LEMMA DecideCmd ==
  ASSUME CmdInv, Decide \/ Finish, Noted, UNCHANGED <<cmd, requeued>>
  PROVE  CmdInv'
<1>1. /\ rpc = "classify" /\ UNCHANGED <<vars, found, reread, resumed, aborted, passes>>
      /\ \/ rpc' = "verify" /\ left' = left /\ left # {}
         \/ rpc' \in {"classify", "off"} /\ left' \subseteq left
      /\ decided' = decided \/ (left # {} /\ decided' = decided \cup {NextRecord})
  BY DEF Decide, Finish
<1>2. Undisturbed
  BY <1>1, CallsKeep
<1>3. left # {} => NextRecord \in Runs
  BY NextIsKnown
<1>4. CommandTypeOK'
  BY <1>1, <1>2, <1>3, TypesKept DEF CmdInv, CommandTypeOK, RecoveryTypeOK
<1>5. ReadInv'
  <2>1. cmd' # None => disk'[cmd'.run] # None
    BY <1>2, CommandsRead
  <2>2. \A r \in Runs : found'[r] # None => disk'[r] # None
    BY <1>1, <1>2 DEF CmdInv, ReadInv, Undisturbed
  <2> QED BY <1>1, <2>1, <2>2 DEF CmdInv, ReadInv
<1> QED BY <1>2, <1>4, <1>5 DEF CmdInv, Undisturbed

\* The record is read again: whatever it is now, it is not an older one.
LEMMA VerifyCmd ==
  ASSUME CmdInv, Verify, Noted, UNCHANGED <<cmd, requeued>>
  PROVE  CmdInv'
<1>1. /\ rpc = "verify" /\ UNCHANGED <<vars, found, decided, resumed, aborted, passes>>
      /\ \/ rpc' = "mark" /\ reread' = disk[NextRecord] /\ left' = left
         \/ rpc' = "classify" /\ left' = left \ {NextRecord} /\ reread' = reread
  BY DEF Verify
<1>2. Undisturbed /\ left # {}
  BY <1>1, CallsKeep DEF CmdInv, ReadInv
<1>3. PICK r \in Runs : r = NextRecord
  BY <1>2, NextIsKnown
<1>4. disk[r] # None /\ disk[r] \in Record \cup {None}
  BY <1>2, <1>3, NextIsKnown DEF CmdInv, CommandTypeOK, RecoveryTypeOK, TypeOK
<1>5. left' = left => NextRecord' = r
  BY <1>1, <1>2, <1>3 DEF Undisturbed
<1>6. CommandTypeOK'
  BY <1>1, <1>2, <1>3, <1>4, TypesKept DEF CmdInv, CommandTypeOK, RecoveryTypeOK
<1>7. ReadInv'
  <2>1. cmd' # None => disk'[cmd'.run] # None
    BY <1>2, CommandsRead
  <2>2. \A q \in Runs : found'[q] # None => disk'[q] # None
    BY <1>1, <1>2 DEF CmdInv, ReadInv, Undisturbed
  <2>3. ASSUME rpc' = "mark"
        PROVE  reread' # None /\ (NextRecord' \notin requeued' => Old(NextRecord, reread)')
    <3>1. reread' = disk[r] /\ left' = left /\ NextRecord' = r /\ disk' = disk
      BY <1>1, <1>3, <1>5, <2>3 DEF vars, durable
    <3>2. r \notin requeued' => Old(r, disk[r])'
      BY <1>2 DEF Undisturbed, KeptInv
    <3>3. Old(r, disk[r])' => Old(NextRecord, reread)'
      BY <3>1 DEF Old
    <3> QED BY <1>4, <3>1, <3>2, <3>3
  <2>4. \A q \in left' : found'[q] # None
    BY <1>1 DEF CmdInv, ReadInv
  <2> QED BY <1>1, <1>2, <2>1, <2>2, <2>3, <2>4 DEF ReadInv
<1> QED BY <1>2, <1>6, <1>7 DEF CmdInv, Undisturbed

\* The checkpoint of a resume.
LEMMA MarkCmd ==
  ASSUME CmdInv, MarkResumed, Noted, UNCHANGED <<cmd, requeued>>
  PROVE  CmdInv'
<1>1. /\ rpc = "mark"
      /\ checkpoint' = [checkpoint EXCEPT ![NextRecord] =
                          Mark(NextRecord, reread, "recovery_decided").cp]
      /\ UNCHANGED <<control, disk, durableCancel, slot, accepted, effect, history>>
      /\ UNCHANGED <<found, reread, decided, aborted, passes>>
      /\ \/ rpc' = "retry" /\ UNCHANGED <<left, resumed>>
         \/ rpc' = "classify" /\ left' = left \ {NextRecord}
            /\ resumed' = resumed \cup {NextRecord}
  BY DEF MarkResumed
<1>2. /\ left # {} /\ reread # None /\ TypeOK
      /\ (NextRecord \notin requeued => Old(NextRecord, reread))
  BY <1>1 DEF CmdInv, ReadInv, CommandTypeOK, RecoveryTypeOK
<1>3. PICK r \in Runs : r = NextRecord
  BY <1>2, NextIsKnown
<1>4. reread \in Record
  BY <1>2 DEF CmdInv, CommandTypeOK, RecoveryTypeOK
<1>5. Mark(r, reread, "recovery_decided").cp \in Checkpoint
  <2>1. Mark(r, reread, "recovery_decided") \in WriteItem
    BY <1>2, <1>4, Items DEF TypeOK, CheckpointKinds
  <2>2. Mark(r, reread, "recovery_decided").op = "checkpoint"
    BY DEF Mark
  <2> QED BY <2>1, <2>2, ItemParts
<1>6. Undisturbed
  <2>1. /\ checkpoint' \in [Runs -> Checkpoint \cup {None}]
        /\ incidents' \in 0..MaxIncidents /\ faulty' = faulty /\ reclaimed' = reclaimed
        /\ disk' = disk /\ disk' \in [Runs -> Record \cup {None}]
        /\ durableCancel' \in [Runs -> BOOLEAN]
    BY <1>1, <1>2, <1>3, <1>5 DEF TypeOK, history
  <2> QED BY <1>1, <2>1, WritesKeep
<1>7. left' = left => NextRecord' = r
  BY <1>1, <1>3, SameNext
<1>8. CommandTypeOK'
  BY <1>1, <1>3, <1>6, TypesKept DEF CmdInv, CommandTypeOK, RecoveryTypeOK
<1>9. ReadInv'
  <2>1. cmd' # None => disk'[cmd'.run] # None
    BY <1>6, CommandsRead
  <2>2. rpc' = "retry" => (NextRecord' \notin requeued' => Old(NextRecord, reread)')
    <3>1. Old(r, reread) => Old(r, reread)'
      BY <1>1 DEF control, Old
    <3>2. left' = left => (Old(r, reread)' => Old(NextRecord, reread)')
      BY <1>7 DEF Old
    <3> QED BY <1>1, <1>2, <1>3, <1>7, <3>1, <3>2
  <2> QED BY <1>1, <1>2, <2>1, <2>2 DEF CmdInv, ReadInv
<1> QED BY <1>6, <1>8, <1>9 DEF CmdInv, Undisturbed

\* Only two states of the table can be retried.
LEMMA Retryable ==
  ASSUME NEW s \in States, CanFire(s, "retry")
  PROVE  s \in {"failed", "timed_out"} /\ Fire(s, "retry") = "queued"
<1>1. s \in {"failed", "timed_out"}
  BY TableStates DEF CanFire, Transitions, NoTransition, Terminal
<1> QED BY <1>1, Taken

\* A record is queued again as it was read: the call had returned by then without a
\* success, or a command has queued it again before.
LEMMA RetryCmd ==
  ASSUME CmdInv, Retry, Noted, UNCHANGED <<cmd, requeued>>
  PROVE  CmdInv'
<1>1. /\ rpc = "retry" /\ rpc' \in {"classify", "off"} /\ aborted' \in {aborted, TRUE}
      /\ UNCHANGED <<control, checkpoint, durableCancel, slot, accepted, effect, history>>
      /\ UNCHANGED <<found, reread, decided, passes>>
      /\ left' \subseteq left /\ resumed' \subseteq resumed \cup {NextRecord}
      /\ \/ disk' = disk
         \/ /\ CanFire(reread.state, "retry")
            /\ disk' = [disk EXCEPT ![NextRecord] =
                          [Move(reread, "retry") EXCEPT !.outcome = "none",
                                                        !.unknown = FALSE]]
  BY DEF Retry
<1>2. /\ left # {} /\ reread # None /\ TypeOK
      /\ (NextRecord \notin requeued => Old(NextRecord, reread))
  BY <1>1 DEF CmdInv, ReadInv, CommandTypeOK, RecoveryTypeOK
<1>3. PICK r \in Runs : r = NextRecord
  BY <1>2, NextIsKnown
<1>4. reread \in Record /\ disk[r] # None
  BY <1>2, <1>3, NextIsKnown DEF CmdInv, CommandTypeOK, RecoveryTypeOK
<1> DEFINE again == [Move(reread, "retry") EXCEPT !.outcome = "none", !.unknown = FALSE]
<1>5. ASSUME CanFire(reread.state, "retry")
      PROVE  /\ again \in Record /\ again.outcome = "none" /\ again.state = "queued"
             /\ reread.state \in {"failed", "timed_out"}
  <2>1. reread.state \in States
    BY <1>4 DEF Record
  <2>2. reread.state \in {"failed", "timed_out"} /\ Fire(reread.state, "retry") = "queued"
    BY <1>5, <2>1, Retryable
  <2>3. Move(reread, "retry") \in Record /\ Move(reread, "retry").state = "queued"
    BY <1>4, <2>2, MoveRecord, TableStates
  <2> QED BY <2>2, <2>3 DEF Record, OutcomeKinds
<1> HIDE DEF again
<1>6. \/ disk' = disk
      \/ /\ disk' = [disk EXCEPT ![r] = again] /\ again \in Record
         /\ again.outcome = "none" /\ again.state = "queued"
         /\ r \in requeued \/ mem[r].outcome # "succeeded"
  <2>1. \/ disk' = disk
        \/ CanFire(reread.state, "retry") /\ disk' = [disk EXCEPT ![r] = again]
    BY <1>1, <1>3 DEF again
  <2>2. reread.state \in {"failed", "timed_out"} =>
          r \in requeued \/ mem[r].outcome # "succeeded"
    BY <1>2, <1>3 DEF Old
  <2> QED BY <1>5, <2>1, <2>2
<1>7. Undisturbed
  <2>1. /\ checkpoint' \in [Runs -> Checkpoint \cup {None}]
        /\ incidents' \in 0..MaxIncidents /\ faulty' = faulty /\ reclaimed' = reclaimed
        /\ durableCancel' \in [Runs -> BOOLEAN]
    BY <1>1, <1>2 DEF TypeOK, history
  <2>2. disk' \in [Runs -> Record \cup {None}]
    BY <1>2, <1>6 DEF TypeOK
  <2>3. ASSUME NEW q \in Runs
        PROVE  \/ disk'[q] = disk[q]
               \/ /\ disk[q] # None /\ disk'[q] # None
                  /\ disk'[q].outcome = "none" /\ disk'[q].state = "queued"
                  /\ q \in requeued' \/ ~Returned(q) \/ mem[q].outcome # "succeeded"
    BY <1>2, <1>4, <1>6, NoneAssumption DEF TypeOK
  <2> QED BY <1>1, <2>1, <2>2, <2>3, WritesKeep
<1>8. CommandTypeOK'
  BY <1>1, <1>3, <1>7, TypesKept DEF CmdInv, CommandTypeOK, RecoveryTypeOK
<1>9. ReadInv'
  <2>1. cmd' # None => disk'[cmd'.run] # None
    BY <1>7, CommandsRead
  <2>2. \A q \in Runs : found'[q] # None => disk'[q] # None
    BY <1>1, <1>7 DEF CmdInv, ReadInv, Undisturbed
  <2> QED BY <1>1, <2>1, <2>2 DEF CmdInv, ReadInv
<1> QED BY <1>7, <1>8, <1>9 DEF CmdInv, Undisturbed

\* The recovering process dies.
LEMMA CrashCmd ==
  ASSUME CmdInv, RecoveryCrash, Noted, UNCHANGED <<cmd, requeued>>
  PROVE  CmdInv'
<1>1. /\ Incident(FALSE) /\ rpc' = "off" /\ left' = {} /\ found' = [q \in Runs |-> None]
      /\ UNCHANGED <<control, accepted, effect, disk, checkpoint, durableCancel, slot>>
      /\ UNCHANGED <<reread, decided, resumed, aborted, passes>>
  BY DEF RecoveryCrash, durable
<1>2. TypeOK
  BY DEF CmdInv, CommandTypeOK, RecoveryTypeOK
<1>3. incidents' \in 0..MaxIncidents /\ faulty' = faulty /\ reclaimed' = reclaimed
  BY <1>1, <1>2, IncidentCounted DEF Incident, TypeOK
<1>4. Undisturbed
  <2>1. /\ checkpoint' \in [Runs -> Checkpoint \cup {None}]
        /\ disk' = disk /\ disk' \in [Runs -> Record \cup {None}]
        /\ durableCancel' \in [Runs -> BOOLEAN]
    BY <1>1, <1>2 DEF TypeOK
  <2> QED BY <1>1, <1>3, <2>1, WritesKeep
<1>5. found' \in [Runs -> {rec \in Record : rec.state \in Interrupted} \cup {None}]
  BY <1>1
<1>6. CommandTypeOK'
  BY <1>1, <1>4, <1>5, TypesKept DEF CmdInv, CommandTypeOK, RecoveryTypeOK
<1>7. ReadInv'
  <2>1. cmd' # None => disk'[cmd'.run] # None
    BY <1>4, CommandsRead
  <2> QED BY <1>1, <2>1 DEF ReadInv
<1> QED BY <1>4, <1>6, <1>7 DEF CmdInv, Undisturbed

\* A command takes nothing from what a pass has read.
LEMMA PassesRead ==
  ASSUME CmdInv, Undisturbed, UNCHANGED <<recovery, control>>,
         cmd' # None => disk'[cmd'.run] # None
  PROVE  ReadInv'
<1>1. UNCHANGED <<rpc, found, left, reread>>
  BY DEF recovery
<1>2. NextRecord' = NextRecord
  BY <1>1 DEF Undisturbed
<1>3. \A q \in Runs : found'[q] # None => disk'[q] # None
  BY <1>1 DEF CmdInv, ReadInv, Undisturbed
<1>4. rpc' \in {"mark", "retry"} =>
        reread' # None /\ (NextRecord' \notin requeued' => Old(NextRecord, reread)')
  <2>1. Old(NextRecord, reread) => Old(NextRecord, reread)'
    BY <1>1, <1>2 DEF control, Old
  <2> QED BY <1>1, <1>2, <2>1 DEF CmdInv, ReadInv, Undisturbed
<1> QED BY <1>1, <1>3, <1>4 DEF CmdInv, ReadInv

\* The steps of a command: a cancellation comes or goes, a record is read, and what was
\* read is queued again, over whatever is there by then.
LEMMA CommandCmd ==
  ASSUME CmdInv, NEW r \in Runs,
         CancelCommand(r) \/ ResumeCommand(r) \/ Acknowledge \/ Requeue
  PROVE  CmdInv'
<1>1. TypeOK /\ RecoveryTypeOK /\ cmd \in Command \cup {None}
      /\ asked \subseteq Runs /\ requeued \subseteq Runs
      /\ (\A q \in Runs : durableCancel[q] => q \in asked)
  BY DEF CmdInv, CommandTypeOK, RecoveryTypeOK
<1>2. /\ UNCHANGED <<control, checkpoint, slot, accepted, effect, recovery>>
      /\ incidents' \in 0..MaxIncidents /\ faulty' = faulty /\ reclaimed' = reclaimed
  <2>1. CASE CancelCommand(r) \/ ResumeCommand(r)
    <3>1. Incident(FALSE) /\ UNCHANGED <<control, checkpoint, slot, accepted, effect, recovery>>
      BY <2>1 DEF CancelCommand, ResumeCommand, Begin, durable
    <3> QED BY <1>1, <3>1, IncidentCounted DEF Incident, TypeOK
  <2>2. CASE Acknowledge \/ Requeue
    BY <1>1, <2>2 DEF Acknowledge, Requeue, history, TypeOK
  <2> QED BY <2>1, <2>2
<1>3. \/ /\ CancelCommand(r) /\ disk[r] # None /\ disk' = disk /\ requeued' = requeued
         /\ durableCancel' = [durableCancel EXCEPT ![r] = TRUE]
         /\ asked' = asked \cup {r} /\ cmd' = [op |-> "cancel", run |-> r]
      \/ /\ ResumeCommand(r) /\ disk[r] # None /\ disk' = disk /\ requeued' = requeued
         /\ durableCancel' = durableCancel /\ asked' = asked
         /\ cmd' = [op |-> "resume", run |-> r, rec |-> disk[r]]
      \/ /\ Acknowledge /\ cmd # None /\ disk' = disk /\ requeued' = requeued
         /\ durableCancel' = [durableCancel EXCEPT ![cmd.run] = FALSE]
         /\ asked' = asked /\ cmd' = None
      \/ /\ Requeue /\ cmd # None /\ cmd.op = "resume" /\ durableCancel' = durableCancel
         /\ disk' = [disk EXCEPT ![cmd.run] =
                       [cmd.rec EXCEPT !.state = "queued", !.outcome = "none",
                                       !.unknown = FALSE]]
         /\ requeued' = requeued \cup {cmd.run} /\ asked' = asked /\ cmd' = None
  BY DEF CancelCommand, ResumeCommand, Acknowledge, Requeue, durable
<1>4. cmd # None => cmd \in Command /\ cmd.run \in Runs /\ disk[cmd.run] # None
                    /\ (cmd.op = "resume" => cmd.rec \in Record)
  BY <1>1 DEF Command, CmdInv, ReadInv
<1>5. ASSUME Requeue
      PROVE  \E q \in Runs : \E again \in Record :
               /\ disk[q] # None /\ q \in requeued'
               /\ disk' = [disk EXCEPT ![q] = again]
               /\ again.outcome = "none" /\ again.state = "queued"
  <2> DEFINE again == [cmd.rec EXCEPT !.state = "queued", !.outcome = "none",
                                      !.unknown = FALSE]
  <2>1. /\ cmd # None /\ cmd.op = "resume" /\ disk' = [disk EXCEPT ![cmd.run] = again]
        /\ requeued' = requeued \cup {cmd.run}
    BY <1>5 DEF Requeue
  <2>2. cmd.rec \in Record
    BY <1>4, <2>1
  <2>3. again \in Record /\ again.outcome = "none" /\ again.state = "queued"
    BY <2>2, TableStates DEF Record, OutcomeKinds
  <2> HIDE DEF again
  <2> QED BY <1>4, <2>1, <2>3
<1>6. Undisturbed
  <2>1. durableCancel' \in [Runs -> BOOLEAN] /\ requeued \subseteq requeued'
    BY <1>1, <1>3 DEF TypeOK
  <2>2. disk' \in [Runs -> Record \cup {None}]
    BY <1>1, <1>3, <1>5 DEF TypeOK
  <2>3. ASSUME NEW q \in Runs
        PROVE  \/ disk'[q] = disk[q]
               \/ /\ disk[q] # None /\ disk'[q] # None
                  /\ disk'[q].outcome = "none" /\ disk'[q].state = "queued"
                  /\ q \in requeued' \/ ~Returned(q) \/ mem[q].outcome # "succeeded"
    <3>1. CASE disk' = disk
      BY <3>1
    <3>2. CASE Requeue
      BY <1>1, <1>5, <3>2, NoneAssumption DEF TypeOK
    <3> QED BY <1>3, <3>1, <3>2
  <2>4. checkpoint' \in [Runs -> Checkpoint \cup {None}]
    BY <1>1, <1>2 DEF TypeOK
  <2> QED BY <1>2, <2>1, <2>2, <2>3, <2>4, WritesKeep
<1>7. CommandTypeOK'
  <2>1. RecoveryTypeOK'
    <3>1. TypeOK'
      BY <1>6 DEF Undisturbed, KeptInv, MInv
    <3> QED BY <1>1, <1>2, <3>1 DEF RecoveryTypeOK, recovery
  <2>2. cmd' \in Command \cup {None}
    <3>1. disk[r] # None => disk[r] \in Record
      BY <1>1 DEF TypeOK
    <3> QED BY <1>3, <3>1 DEF Command
  <2>3. asked' \subseteq Runs /\ requeued' \subseteq Runs
    BY <1>1, <1>3, <1>4
  <2>4. \A q \in Runs : durableCancel'[q] => q \in asked'
    BY <1>1, <1>3, <1>4 DEF TypeOK
  <2> QED BY <2>1, <2>2, <2>3, <2>4 DEF CommandTypeOK
<1>8. ReadInv'
  <2>1. cmd' # None => disk'[cmd'.run] # None
    BY <1>3
  <2> QED BY <1>2, <1>6, <2>1, PassesRead
<1> QED BY <1>6, <1>7, <1>8 DEF CmdInv, Undisturbed

LEMMA InitCmd ==
  CInit => CmdInv
<1> SUFFICES ASSUME CInit PROVE CmdInv
  OBVIOUS
<1>1. RInit /\ Init /\ cmd = None /\ asked = {} /\ requeued = {}
  BY DEF CInit, RInit
<1>2. RecInv
  BY <1>1, InitRec
<1>3. MInv /\ EInv /\ RecoveryTypeOK
  BY <1>2 DEF RecInv, FInv
<1>4. \A r \in Runs : disk[r] = None /\ pc[r] = "idle" /\ ~durableCancel[r] /\ found[r] = None
  BY <1>1 DEF Init, RInit
<1>5. KeptInv
  BY <1>3, <1>4 DEF KeptInv, SuccessKept, Returned, At, Old
<1>6. CommandTypeOK
  BY <1>1, <1>3, <1>4 DEF CommandTypeOK
<1>7. ReadInv
  BY <1>1, <1>4 DEF ReadInv, RInit
<1> QED BY <1>5, <1>6, <1>7 DEF CmdInv

\* Every step of a call, of a pass or of a command keeps the invariant.
LEMMA CNextCmd ==
  CmdInv /\ [CNext]_cvars => CmdInv'
<1> SUFFICES ASSUME CmdInv, [CNext]_cvars PROVE CmdInv'
  OBVIOUS
<1>1. CASE UNCHANGED cvars
  <2>1. UNCHANGED <<vars, recovery, cmd, asked, requeued>>
    BY <1>1 DEF cvars, rvars, commands
  <2>2. Noted
    <3>1. durableCancel' = durableCancel
      BY <2>1 DEF vars, durable
    <3> QED BY <2>1, <3>1 DEF Noted, CmdInv, CommandTypeOK
  <2> QED BY <2>1, <2>2, WorkCmd
<1>2. ASSUME RNext, Noted, UNCHANGED <<cmd, requeued>> PROVE CmdInv'
  <2>1. CASE Work
    BY <1>2, <2>1, WorkCmd DEF Work
  <2> QED BY <1>2, <2>1, DiscoverCmd, DecideCmd, VerifyCmd, MarkCmd, RetryCmd, CrashCmd
          DEF RNext, Pass
<1>3. ASSUME NEW r \in Runs, CancelCommand(r) \/ ResumeCommand(r) PROVE CmdInv'
  BY <1>3, CommandCmd
<1>4. CASE Acknowledge \/ Requeue
  <2>1. cmd.run \in Runs
    BY <1>4 DEF Acknowledge, Requeue, CmdInv, CommandTypeOK, Command
  <2> QED BY <1>4, <2>1, CommandCmd
<1> QED BY <1>1, <1>2, <1>3, <1>4 DEF CNext, Noted

\* With any number of calls, recovery beside live calls or alone, and a command that
\* comes between any two steps: what a call knows of itself, its slot and the success
\* it has reported stand, however old what is written over its record.
THEOREM CommandsInvariant == CSpec => []CmdInv
BY InitCmd, CNextCmd, PTL DEF CSpec

\* A success that was reported is on disk until a person asks for that run again.
THEOREM CommandsSuccessKept == CSpec => []SuccessKept
<1>1. CmdInv => SuccessKept
  BY DEF CmdInv, KeptInv
<1> QED BY <1>1, CommandsInvariant, PTL

\* Queueing a record again does not launch its effect a second time behind the key.
THEOREM CommandsLaunchedOnce == CSpec => []LaunchedOnce
<1>1. MInv => LaunchedOnce
  BY DEF MInv, Memory, SlotInv, Winner, LaunchedOnce, Contenders
<1>2. CmdInv => LaunchedOnce
  BY <1>1 DEF CmdInv, KeptInv
<1> QED BY <1>2, CommandsInvariant, PTL

\* Nor is a success taken from a record that recovery or a command has written.
THEOREM CommandsSuccessIsBacked == CSpec => []SuccessIsBacked
<1>1. EInv => SuccessIsBacked
  BY DEF EInv, CallInv, Backed, Behind, KeyDone, Done, SuccessIsBacked
<1>2. CmdInv => SuccessIsBacked
  BY <1>1 DEF CmdInv, KeptInv
<1> QED BY <1>2, CommandsInvariant, PTL

\* A record that is queued again does not reopen the slot of an effect that is unknown.
THEOREM CommandsUnknownClosesSlot == CSpec => []UnknownClosesSlot
<1>1. EInv => UnknownClosesSlot
  BY DEF EInv, CallInv, Closing, Contenders, Returned, At, UnknownClosesSlot
<1>2. CmdInv => UnknownClosesSlot
  BY <1>1 DEF CmdInv, KeptInv
<1> QED BY <1>2, CommandsInvariant, PTL

=============================================================================
