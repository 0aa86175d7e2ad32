------------------------------ MODULE Triggers ------------------------------
(***************************************************************************)
(* The trigger scheduler: TriggerService (src/src/automation/triggers.ts), *)
(* the due rules (trigger-spec.ts) and the trigger table                   *)
(* (src/src/state/repos/trigger-repo.ts), as the daemon hosts them.        *)
(*                                                                         *)
(* A tick takes one snapshot of the clock, the pause flag and the table,   *)
(* and then walks the table, awaiting each fire.  setInterval does not     *)
(* wait for it: while an agent runs, other ticks start with snapshots of   *)
(* their own.  Up to the first fire, and from the end of a fire to the     *)
(* next, a tick runs without interruption, so each such stretch is one     *)
(* step.  A running tick is therefore always at a fire: the head of todo.  *)
(*                                                                         *)
(* fireOne() enters the trigger in the map of the service, writes the      *)
(* audit record, and only then enters the try block whose finally takes    *)
(* the trigger out: when that write fails the tick rejects and the entry   *)
(* stays for as long as the daemon lives.                                  *)
(*                                                                         *)
(* The pause routes, the command line and Telegram each make a service of  *)
(* their own: to the daemon's, a pause is the flag in the configuration.   *)
(* Event triggers fire from notify(), which nothing in the program calls,  *)
(* and are left out.                                                       *)
(***************************************************************************)
EXTENDS Naturals, Sequences, FiniteSets, SequencesExt

CONSTANTS
  Ids,         \* trigger ids
  Ticks,       \* ticks that may run at once
  MaxTime,     \* bound of the clock
  PerMinute,   \* clock units in a minute
  CronMinutes, \* the minutes a cron expression matches
  Every,       \* the period of an interval schedule, in clock units
  Quiet,       \* the times that are quiet hours
  MaxEdits,    \* bound: what the operator does
  MaxFaults,   \* bound: crashes and failed writes
  None         \* never

ASSUME TriggerAssumption ==
  /\ MaxTime \in Nat /\ PerMinute \in Nat \ {0} /\ Every \in Nat
  /\ MaxEdits \in Nat /\ MaxFaults \in Nat
  /\ CronMinutes \subseteq Nat /\ Quiet \subseteq Nat
  /\ IsFiniteSet(Ids) /\ None \notin Nat

VARIABLES
  clock,
  paused,     \* config.triggers.pauseAll
  table,      \* the triggers table, oldest first
  mtime,      \* the modification time of the file a trigger watches
  tick,       \* the state of each tick
  inflight,   \* the ids in the map of the service
  fired,      \* history: <<id, minute>> of the fires of scheduled triggers
  overlapped, \* history: two ticks have run at once
  edits,      \* bounded counter
  faults      \* bounded counter

vars == <<clock, paused, table, mtime, tick, inflight, fired, overlapped, edits, faults>>

Times == 0..MaxTime
Kinds == {"cron", "interval", "watch"}
Rows == [id : Ids, kind : Kinds, enabled : BOOLEAN, last : Times \cup {None}]
Minute(t) == t \div PerMinute
NewRow(id, kind) == [id |-> id, kind |-> kind, enabled |-> TRUE, last |-> None]

Idle == [at |-> 0, paused |-> FALSE, todo |-> <<>>]
Running(k) == tick[k].todo # <<>>
Firing(k) == Head(tick[k].todo)

\* The table names a trigger once.
TypeOK ==
  /\ clock \in Times /\ paused \in BOOLEAN /\ overlapped \in BOOLEAN
  /\ edits \in 0..MaxEdits /\ faults \in 0..MaxFaults
  /\ \A i \in DOMAIN table : table[i] \in Rows
  /\ \A i, j \in DOMAIN table : table[i].id = table[j].id => i = j
  /\ mtime \in [Ids -> Times \cup {None}] /\ inflight \subseteq Ids
  /\ \A k \in Ticks : /\ tick[k].at \in Times /\ tick[k].at <= clock
                      /\ \A i \in DOMAIN tick[k].todo : tick[k].todo[i] \in Rows
  /\ fired \subseteq Ids \X {Minute(t) : t \in Times}

\* The daemon starts over a table made earlier.
Init ==
  /\ clock = 0
  /\ paused \in BOOLEAN
  /\ \E S \in SUBSET Ids : \E kind \in [S -> Kinds] :
       table = [i \in DOMAIN SetToSeq(S) |-> NewRow(SetToSeq(S)[i], kind[SetToSeq(S)[i]])]
  /\ mtime = [id \in Ids |-> 0]
  /\ tick = [k \in Ticks |-> Idle]
  /\ inflight = {} /\ fired = {} /\ overlapped = FALSE
  /\ edits = 0 /\ faults = 0

-----------------------------------------------------------------------------
\* Mutant: a cron trigger that has fired this minute is due again.
DueAgain(r, at) ==
  \/ r.kind = "cron" /\ Minute(at) \in CronMinutes
  \/ r.kind = "interval" /\ (r.last = None \/ at - r.last >= Every)
  \/ /\ r.kind = "watch" /\ mtime[r.id] # None
     /\ r.last = None \/ mtime[r.id] > r.last

\* isDueAt(), and the modification time of a watched file: the row is the tick's
\* snapshot of it, the file is looked at when its turn comes.
Due(r, at) ==
  \/ /\ r.kind = "cron" /\ Minute(at) \in CronMinutes
     /\ r.last = None \/ Minute(r.last) # Minute(at)
  \/ r.kind = "interval" /\ (r.last = None \/ at - r.last >= Every)
  \/ /\ r.kind = "watch" /\ mtime[r.id] # None
     /\ r.last = None \/ mtime[r.id] > r.last

\* Mutant: nothing looks at the in-flight map.
FiresAgain(t, r, busy) ==
  ~t.paused /\ r.enabled /\ t.at \notin Quiet /\ Due(r, t.at)

\* consider() and shouldFire(): whether tick t fires row r, with busy in the map.
Fires(t, r, busy) ==
  /\ r.id \notin busy
  /\ ~t.paused /\ r.enabled /\ t.at \notin Quiet
  /\ Due(r, t.at)

\* The tick goes on to the next row that fires, or ends.
Onward(t, todo, busy) ==
  LET hits == {i \in DOMAIN todo : Fires(t, todo[i], busy)}
  IN IF hits = {} THEN Idle
     ELSE [t EXCEPT !.todo = SubSeq(todo, Min(hits), Len(todo))]

\* The map with what a tick in state new has in flight.
Entered(new, busy) == IF new = Idle THEN busy ELSE busy \cup {Head(new.todo).id}

\* The fires with the one that a tick in state new has started.
Fired(new) ==
  IF new = Idle \/ Head(new.todo).kind = "watch" THEN fired
  ELSE fired \cup {<<Head(new.todo).id, Minute(new.at)>>}

\* The snapshot of a tick that starts now, and where it stops first.
Snapshot == [at |-> clock, paused |-> paused, todo |-> <<>>]
FirstFire == Onward(Snapshot, table, inflight)

\* Mutant: the loop awaits the tick before it starts another.
StartTickSerial(k) ==
  /\ \A j \in Ticks : ~Running(j)
  /\ tick' = [tick EXCEPT ![k] = FirstFire]
  /\ inflight' = Entered(FirstFire, inflight)
  /\ fired' = Fired(FirstFire)
  /\ UNCHANGED <<clock, paused, table, mtime, overlapped, edits, faults>>

StartTick(k) ==
  /\ ~Running(k)
  /\ tick' = [tick EXCEPT ![k] = FirstFire]
  /\ inflight' = Entered(FirstFire, inflight)
  /\ fired' = Fired(FirstFire)
  /\ overlapped' = (overlapped \/ \E j \in Ticks : Running(j))
  /\ UNCHANGED <<clock, paused, table, mtime, edits, faults>>

\* The audit write between the entry in the map and the try block fails: the tick
\* rejects before the handler ran, and the entry stays.
StartFails(k) ==
  /\ ~Running(k) /\ FirstFire # Idle
  /\ faults < MaxFaults /\ faults' = faults + 1
  /\ inflight' = Entered(FirstFire, inflight)
  /\ UNCHANGED <<clock, paused, table, mtime, tick, fired, overlapped, edits>>

\* recordFire(): last_fired_at becomes the start of the tick, if the row is there.
RecordFire(id, at) ==
  [i \in DOMAIN table |->
     IF table[i].id = id THEN [table[i] EXCEPT !.last = at] ELSE table[i]]

\* The map when the finally block of tick k's fire has run, and where k stops next.
Ended(k) == inflight \ {Firing(k).id}
NextFire(k) == Onward(tick[k], Tail(tick[k].todo), Ended(k))

\* The handler returns or throws; either way the fire is recorded, and the tick
\* goes on with the rest of its snapshot.
EndFire(k) ==
  /\ Running(k)
  /\ table' = RecordFire(Firing(k).id, tick[k].at)
  /\ tick' = [tick EXCEPT ![k] = NextFire(k)]
  /\ inflight' = Entered(NextFire(k), Ended(k))
  /\ fired' = Fired(NextFire(k))
  /\ UNCHANGED <<clock, paused, mtime, overlapped, edits, faults>>

\* As StartFails, at the second or a later fire of a tick.
GoOnFails(k) ==
  /\ Running(k) /\ NextFire(k) # Idle
  /\ faults < MaxFaults /\ faults' = faults + 1
  /\ table' = RecordFire(Firing(k).id, tick[k].at)
  /\ tick' = [tick EXCEPT ![k] = Idle]
  /\ inflight' = Entered(NextFire(k), Ended(k))
  /\ UNCHANGED <<clock, paused, mtime, fired, overlapped, edits>>

\* The record of a fire is not written, nor in the catch block: the finally block
\* runs, the tick rejects, and the rest of its snapshot is not looked at.
RecordFails(k) ==
  /\ Running(k)
  /\ faults < MaxFaults /\ faults' = faults + 1
  /\ tick' = [tick EXCEPT ![k] = Idle]
  /\ inflight' = Ended(k)
  /\ UNCHANGED <<clock, paused, table, mtime, fired, overlapped, edits>>

-----------------------------------------------------------------------------
Edit == edits < MaxEdits /\ edits' = edits + 1

Here(id) == \E i \in DOMAIN table : table[i].id = id

\* create(): a new row at the end, never fired, whatever an old one of its id did.
Create(id, kind) ==
  /\ ~Here(id) /\ Edit
  /\ table' = Append(table, NewRow(id, kind))
  /\ fired' = {f \in fired : f[1] # id}
  /\ UNCHANGED <<clock, paused, mtime, tick, inflight, overlapped, faults>>

SetEnabled(id, on) ==
  /\ Edit
  /\ \E i \in DOMAIN table : table[i].id = id /\ table[i].enabled # on
  /\ table' = [i \in DOMAIN table |->
       IF table[i].id = id THEN [table[i] EXCEPT !.enabled = on] ELSE table[i]]
  /\ UNCHANGED <<clock, paused, mtime, tick, inflight, fired, overlapped, faults>>

Delete(id) ==
  /\ Edit
  /\ \E i \in DOMAIN table : table[i].id = id /\ table' = RemoveAt(table, i)
  /\ UNCHANGED <<clock, paused, mtime, tick, inflight, fired, overlapped, faults>>

\* pauseAll() and resumeAll(), through the configuration.
SetPaused ==
  /\ Edit /\ paused' = ~paused
  /\ UNCHANGED <<clock, table, mtime, tick, inflight, fired, overlapped, faults>>

Watched == {table[i].id : i \in {j \in DOMAIN table : table[j].kind = "watch"}}

\* Time passes, and a watched file may be written.
Elapse(S) ==
  /\ clock < MaxTime
  /\ clock' = clock + 1
  /\ mtime' = [id \in Ids |-> IF id \in S THEN clock + 1 ELSE mtime[id]]
  /\ UNCHANGED <<paused, table, tick, inflight, fired, overlapped, edits, faults>>

\* The daemon dies and is started again.
Crash ==
  /\ faults < MaxFaults /\ faults' = faults + 1
  /\ tick' = [k \in Ticks |-> Idle]
  /\ inflight' = {}
  /\ UNCHANGED <<clock, paused, table, mtime, fired, overlapped, edits>>

Next ==
  \/ \E k \in Ticks :
       StartTick(k) \/ StartFails(k) \/ EndFire(k) \/ GoOnFails(k) \/ RecordFails(k)
  \/ \E id \in Ids :
       \/ \E kind \in Kinds : Create(id, kind)
       \/ \E on \in BOOLEAN : SetEnabled(id, on)
       \/ Delete(id)
  \/ \E S \in SUBSET Watched : Elapse(S)
  \/ SetPaused
  \/ Crash

Spec == Init /\ [][Next]_vars

\* The interval timer goes on.  Nothing says that an agent run ever ends.
LiveSpec == Spec /\ WF_vars(\E k \in Ticks : StartTick(k))

-----------------------------------------------------------------------------
\* Some step of tick k starts a fire of trigger id.
Starts(k, id) ==
  /\ tick'[k].todo # <<>> /\ Head(tick'[k].todo).id = id
  /\ tick'[k] # tick[k]

\* No trigger is in flight twice, however many ticks walk the table: the same
\* budget and the same working tree would be used by two runs.
OneInFlight ==
  \A k, j \in Ticks : Running(k) /\ Running(j) /\ Firing(k).id = Firing(j).id => k = j

\* An occurrence of a schedule fires once (cron.ts:95) while ticks do not overlap
\* and nothing fails.  When they overlap, a tick that waited for another trigger
\* fires from its old snapshot again.
OncePerOccurrence ==
  [][ overlapped' \/ faults > 0 \/
      \A k \in Ticks, id \in Ids :
        Starts(k, id) /\ Head(tick'[k].todo).kind # "watch"
          => <<id, Minute(tick'[k].at)>> \notin fired ]_vars

\* triggers.ts:7, "pause-all stops NEW fires": a tick under way goes on with the
\* flag it read.
PauseStopsNewFires == [][\A k \in Ticks, id \in Ids : Starts(k, id) => ~paused]_vars

On(id) == ~paused /\ \E i \in DOMAIN table :
            table[i].id = id /\ table[i].enabled /\ table[i].kind = "watch"
Unseen(id) == mtime[id] # None /\ \E i \in DOMAIN table :
                table[i].id = id /\ (table[i].last = None \/ mtime[id] > table[i].last)

\* The entry of id has outlived its fire.
Leaked(id) == id \in inflight /\ \A k \in Ticks : Running(k) => Firing(k).id # id

\* A change of a watched file is acted on, even when the run of another trigger
\* never ends, unless its trigger is off or the hours are quiet.  The exception is
\* an entry that a failed write has left in the map: until the daemon starts again
\* the trigger is passed over.  Nothing but a failed write leaves one.
ChangeSeen ==
  \A id \in Ids :
    On(id) /\ Unseen(id) ~>
      \/ ~On(id) \/ ~Unseen(id) \/ clock \in Quiet
      \/ \E k \in Ticks : Running(k) /\ Firing(k).id = id
      \/ Leaked(id) /\ faults > 0

\* The same without the exception.
ChangeSeenEver ==
  \A id \in Ids :
    On(id) /\ Unseen(id) ~>
      \/ ~On(id) \/ ~Unseen(id) \/ clock \in Quiet
      \/ \E k \in Ticks : Running(k) /\ Firing(k).id = id
=============================================================================
