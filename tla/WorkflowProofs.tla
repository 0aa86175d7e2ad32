--------------------------- MODULE WorkflowProofs ---------------------------
(***************************************************************************)
(* Theorems about Workflow, for every set of definitions, any number of    *)
(* loops, pauses and crashes, whatever is retried and in whatever order    *)
(* agents, tools, timers and decisions come back.                          *)
(*                                                                         *)
(* Most handlers rewrite one run object.  What any of them may do to it is *)
(* the relation Moves; an object that only moves stays Sound.              *)
(***************************************************************************)
EXTENDS Workflow, FiniteSetTheorems, SequenceTheorems, TLAPS

RunObject == RunObjects(Nodes)

\* The nodes a person is asked about, the ones that only work once, and the states
\* of a node that others need not wait for any more.
Waiting == {"waiting_approval", "waiting_review"}
Work == {n \in Nodes : def.kind[n] \in {"agentic", "tool_action"}}
Over == {"completed", "compensated"}

\* One node at most waits for a person, and then the run takes the decision.
OneWaits(o) ==
  \A n \in Nodes : o.node[n] \in Waiting =>
    /\ canAcceptHumanInput(o.run)
    /\ \A m \in Nodes : o.node[m] \in Waiting => m = n

\* No node of a person is over unless the person approved it.
Approved(o) ==
  \A n \in Nodes : def.kind[n] \in HumanKinds /\ o.node[n] \in Over =>
    <<n, "approved">> \in decisions

Sound(o) == OneWaits(o) /\ Approved(o)

\* A loop works on an object that is no longer queued and has nodes in flight only
\* inside a tick; the live object exists, and while it is queued nothing has begun.
Control ==
  /\ live # None => /\ objs[live] # None
                    /\ objs[live].run = "queued" => Idle
  /\ \A l \in Loops : /\ pc[l] # "idle" => /\ objs[of[l]] # None
                                           /\ objs[of[l]].run # "queued"
                      /\ fly[l] # {} => pc[l] = "tick"

Rest == Idle /\ live # None => stored = objs[live]

\* A node that works is started once, before that it is pending or ready, and it is
\* in flight in one loop until that loop settles it.
Counted(o) ==
  \A n \in Work :
    /\ starts[n] <= 1
    /\ o.node[n] \in {"pending", "ready"} => starts[n] = 0
    /\ \A l \in Loops : n \in fly[l] =>
         /\ o.node[n] \in {"running", "cancelled"}
         /\ \A k \in Loops : n \in fly[k] => k = l

\* While the daemon lives there is one object, the one startRun made; what memory
\* has forgotten is over in the store, and a cancellation saved is one in memory.
Root == CHOOSE l \in Loops : TRUE
Lineage ==
  /\ objs[Root] # None
  /\ live \in {Root, None}
  /\ live = None => TerminalRun(stored.run)
  /\ \A l \in Loops : pc[l] # "idle" => of[l] = Root
  /\ stored.run = "cancelled" => objs[Root].run = "cancelled"
  /\ Counted(objs[Root])

WInv ==
  /\ TypeOK
  /\ Sound(stored)
  /\ \A l \in Loops : objs[l] # None => Sound(objs[l])
  /\ Control
  /\ Rest
  /\ crashes = 0 => Lineage

-----------------------------------------------------------------------------
\* The tables.
LEMMA States ==
  /\ RunStates = {"draft", "published", "queued", "running", "waiting",
       "awaiting_approval", "awaiting_review", "paused", "cancelling", "cancelled",
       "partially_completed", "failed", "completed", "compensation_required",
       "blocked", "expired"}
  /\ NodeStates = {"pending", "ready", "running", "waiting_approval",
       "waiting_review", "waiting_timer", "waiting_event", "completed", "failed",
       "cancelled", "skipped", "compensating", "compensated", "blocked",
       "timed_out", "expired"}
BY DEF RunStates, NodeStates, RunEventMap, NodeEventMap

\* What the run events of a node and of a decision lead to.
LEMMA RunTable ==
  ASSUME NEW s \in RunStates
  PROVE  /\ RunCan(s, "enter_waiting") =>
              s = "running" /\ RunEventMap[s]["enter_waiting"] = "waiting"
         /\ RunCan(s, "enter_approval") =>
              s = "running" /\ RunEventMap[s]["enter_approval"] = "awaiting_approval"
         /\ RunCan(s, "enter_review") =>
              s = "running" /\ RunEventMap[s]["enter_review"] = "awaiting_review"
         /\ RunCan(s, "complete") =>
              /\ s \in {"running", "partially_completed"}
              /\ RunEventMap[s]["complete"] = "completed"
         /\ RunCan(s, "partial_complete") =>
              s = "running" /\ RunEventMap[s]["partial_complete"] = "partially_completed"
         /\ canAcceptHumanInput(s) =>
              /\ RunEventMap[s]["resume"] = "running"
              /\ RunEventMap[s]["fail"] = "failed"
              /\ RunEventMap[s]["expire"] = "expired"
<1>1. CASE s = "running"
  BY <1>1 DEF RunCan, RunEventMap, canAcceptHumanInput
<1>2. CASE s \in {"awaiting_approval", "awaiting_review"}
  BY <1>2 DEF RunCan, RunEventMap, canAcceptHumanInput
<1>3. CASE s \in {"draft", "published", "queued", "waiting", "paused", "cancelling",
                  "blocked"}
  BY <1>3 DEF RunCan, RunEventMap, canAcceptHumanInput
<1>4. CASE s \in {"cancelled", "partially_completed", "failed", "completed",
                  "compensation_required", "expired"}
  BY <1>4 DEF RunCan, RunEventMap, canAcceptHumanInput, NoEvents
<1> QED BY <1>1, <1>2, <1>3, <1>4, States

\* The states a failure and a cancellation may leave.
LEMMA NodeTable ==
  ASSUME NEW s \in NodeStates
  PROVE  /\ NodeCan(s, "fail") <=>
              s \in Waiting \cup {"running", "compensating"}
         /\ NodeCan(s, "cancel") <=>
              s \in Waiting \cup {"pending", "ready", "running", "waiting_timer",
                                  "waiting_event"}
<1>1. CASE s \in {"pending", "ready", "running", "blocked"}
  BY <1>1 DEF NodeCan, NodeEventMap, Waiting
<1>2. CASE s \in {"waiting_approval", "waiting_review", "waiting_timer", "waiting_event"}
  BY <1>2 DEF NodeCan, NodeEventMap, Waiting
<1>3. CASE s \in {"completed", "cancelled", "skipped", "compensated", "expired"}
  BY <1>3 DEF NodeCan, NodeEventMap, Waiting, NoEvents
<1>4. CASE s \in {"failed", "compensating", "timed_out"}
  BY <1>4 DEF NodeCan, NodeEventMap, Waiting
<1> QED BY <1>1, <1>2, <1>3, <1>4, States

-----------------------------------------------------------------------------
\* What any handler does to an object: a cancelled run stays cancelled, none is
\* queued again, and a working node is neither taken back (while the daemon lives)
\* nor, but for those in X, put anywhere but where a cancellation puts it.
Tame(o, p, X) ==
  /\ o.run = "cancelled" => p.run = "cancelled"
  /\ p.run = "queued" => o.run = "queued"
  /\ \A n \in Work :
       /\ crashes = 0 /\ p.node[n] \in {"pending", "ready"} =>
            o.node[n] \in {"pending", "ready"}
       /\ n \notin X /\ o.node[n] \in {"running", "cancelled"} =>
            p.node[n] \in {"running", "cancelled"}

\* What all but a decision do: no node begins to wait beside another one or in a run
\* that takes no decision, and no node of a person gets over.
Moves(o, p, X) ==
  /\ p \in RunObject
  /\ OneWaits(o) => OneWaits(p)
  /\ \A n \in Nodes : def.kind[n] \in HumanKinds /\ p.node[n] \in Over => o.node[n] \in Over
  /\ Tame(o, p, X)

LEMMA MovesOn ==
  ASSUME NEW o, NEW p, NEW q, NEW X, Moves(o, p, X), Moves(p, q, X)
  PROVE  Moves(o, q, X)
BY DEF Moves, Tame

\* An object is a record of its three fields.
LEMMA Fields ==
  ASSUME NEW o \in RunObject
  PROVE  /\ o.run \in RunStates
         /\ o.node \in [Nodes -> NodeStates]
         /\ o.attempt \in [Nodes -> Nat]
         /\ o = [run |-> o.run, node |-> o.node, attempt |-> o.attempt]
BY DEF RunObject, RunObjects

LEMMA Built ==
  ASSUME NEW r \in RunStates, NEW f \in [Nodes -> NodeStates], NEW a \in [Nodes -> Nat]
  PROVE  [run |-> r, node |-> f, attempt |-> a] \in RunObject
BY DEF RunObject, RunObjects

LEMMA WithRun ==
  ASSUME NEW o \in RunObject, NEW r \in RunStates
  PROVE  /\ [o EXCEPT !.run = r] \in RunObject
         /\ [o EXCEPT !.run = r].run = r
         /\ [o EXCEPT !.run = r].node = o.node
BY DEF RunObject, RunObjects

LEMMA WithNodes ==
  ASSUME NEW o \in RunObject, NEW f \in [Nodes -> NodeStates]
  PROVE  /\ [o EXCEPT !.node = f] \in RunObject
         /\ [o EXCEPT !.node = f].run = o.run
         /\ [o EXCEPT !.node = f].node = f
BY DEF RunObject, RunObjects

LEMMA PutFields ==
  ASSUME NEW o \in RunObject, NEW n \in Nodes, NEW s \in NodeStates
  PROVE  /\ Put(o, n, s) \in RunObject
         /\ Put(o, n, s).run = o.run
         /\ Put(o, n, s).node[n] = s
         /\ \A m \in Nodes \ {n} : Put(o, n, s).node[m] = o.node[m]
BY DEF Put, RunObject, RunObjects

-----------------------------------------------------------------------------
\* The catch of executeNode() moves its own node only, and never leaves it waiting
\* for a person.
CaughtFrom(o, n, p) ==
  /\ p \in RunObject /\ p.run = o.run
  /\ \A m \in Nodes \ {n} : p.node[m] = o.node[m]
  /\ p.node[n] \in {o.node[n], "ready", "failed", "cancelled"}
  /\ p.node[n] \notin Waiting
  /\ o.node[n] = "cancelled" => p.node[n] = "cancelled"

LEMMA CaughtMoves ==
  ASSUME NEW o \in RunObject, NEW n \in Nodes, NEW w \in BOOLEAN
  PROVE  CaughtFrom(o, n, Caught(o, n, w))
<1>1. o.node[n] \in NodeStates BY Fields
<1>2. {"ready", "failed", "cancelled"} \subseteq NodeStates BY States
<1>3. \A s \in {"ready", "failed", "cancelled"} :
        /\ Put(o, n, s) \in RunObject /\ Put(o, n, s).run = o.run
        /\ \A m \in Nodes \ {n} : Put(o, n, s).node[m] = o.node[m]
        /\ Put(o, n, s).node[n] = s
  BY <1>2, PutFields
<1>4. /\ NodeCan(o.node[n], "fail") <=> o.node[n] \in Waiting \cup {"running", "compensating"}
      /\ NodeCan(o.node[n], "cancel") <=>
           o.node[n] \in Waiting \cup {"pending", "ready", "running", "waiting_timer",
                                       "waiting_event"}
  BY <1>1, NodeTable
<1>5. {"ready", "failed", "cancelled"} \cap Waiting = {} BY DEF Waiting
<1> QED BY <1>3, <1>4, <1>5 DEF CaughtFrom, Caught, Waiting

LEMMA NotAborted ==
  ASSUME NEW o \in RunObject, NEW n \in Nodes, NEW p, p = Caught(o, n, FALSE)
  PROVE  CaughtFrom(o, n, p)
BY CaughtMoves, Zenon

\* If the run stays where it is and no node begins to wait, one waits at most.
LEMMA FewerWait ==
  ASSUME NEW o, NEW p, p.run = o.run,
         \A m \in Nodes : p.node[m] \in Waiting => o.node[m] \in Waiting
  PROVE  OneWaits(o) => OneWaits(p)
BY DEF OneWaits

\* The states in which a node may be left with the run event that goes with it.
Entries ==
  {<<"waiting_timer", "enter_waiting">>, <<"waiting_event", "enter_waiting">>,
   <<"waiting_approval", "enter_approval">>, <<"waiting_review", "enter_review">>,
   <<"completed", "complete">>, <<"completed", "partial_complete">>}

\* A completion is one of the two.
LEMMA CompletionEntry ==
  ASSUME NEW n
  PROVE  <<"completed", Completes(n)>> \in Entries
BY DEF Completes, Entries

\* A node that takes the run along finds it running, or undoes nothing but itself.
LEMMA EnterMoves ==
  ASSUME NEW o \in RunObject, NEW n \in Nodes, NEW state, NEW event,
         <<state, event>> \in Entries, o.node[n] \notin Waiting
  PROVE  LET p == Enter(o, n, state, event)
         IN /\ p \in RunObject
            /\ \A m \in Nodes \ {n} : p.node[m] = o.node[m]
            /\ p.node[n] \in {state, "ready", "failed", "cancelled"}
            /\ OneWaits(o) => OneWaits(p)
            /\ o.run = "cancelled" => p.run = "cancelled"
            /\ p.run = "queued" => o.run = "queued"
<1> DEFINE q == Put(o, n, state)
           r == RunEventMap[o.run][event]
<1>1. /\ state \in NodeStates
      /\ <<state, event>> = <<"waiting_timer", "enter_waiting">>
         \/ <<state, event>> = <<"waiting_event", "enter_waiting">>
         \/ <<state, event>> = <<"waiting_approval", "enter_approval">>
         \/ <<state, event>> = <<"waiting_review", "enter_review">>
         \/ <<state, event>> = <<"completed", "complete">>
         \/ <<state, event>> = <<"completed", "partial_complete">>
  BY States DEF Entries
<1>2. /\ q \in RunObject /\ q.run = o.run /\ q.node[n] = state
      /\ \A m \in Nodes \ {n} : q.node[m] = o.node[m]
  BY <1>1, PutFields
<1>3. o.run \in RunStates BY Fields
<1>4. CASE RunCan(o.run, event)
  <2>1. /\ r \in RunStates \ {"queued"} /\ o.run # "cancelled"
        /\ ~canAcceptHumanInput(o.run)
        /\ state \in Waiting => canAcceptHumanInput(r)
    BY <1>1, <1>3, <1>4, RunTable, States DEF canAcceptHumanInput, Waiting
  <2> DEFINE p == [q EXCEPT !.run = r]
  <2>2. Enter(o, n, state, event) = p BY <1>4 DEF Enter
  <2>3. p \in RunObject /\ p.run = r /\ p.node = q.node
    BY <1>2, <2>1, WithRun
  <2> HIDE DEF q, r, p
  <2>4. OneWaits(o) => OneWaits(p)
    <3> SUFFICES ASSUME OneWaits(o) PROVE OneWaits(p) OBVIOUS
    <3>1. \A m \in Nodes : o.node[m] \notin Waiting BY <2>1 DEF OneWaits
    <3>2. \A m \in Nodes : p.node[m] \in Waiting => m = n /\ state \in Waiting
      BY <3>1, <1>2, <2>3
    <3> QED BY <3>2, <2>1, <2>3 DEF OneWaits
  <2> QED BY <1>2, <2>1, <2>2, <2>3, <2>4
<1>5. CASE ~RunCan(o.run, event)
  <2> DEFINE p == Caught(q, n, FALSE)
  <2>1. Enter(o, n, state, event) = p BY <1>5 DEF Enter
  <2> HIDE DEF q
  <2>2. CaughtFrom(q, n, p)
    BY <1>2, NotAborted, Zenon
  <2> HIDE DEF p
  <2> USE DEF CaughtFrom
  <2>3. OneWaits(o) => OneWaits(p)
    BY <1>2, <2>2, FewerWait
  <2> QED BY <1>2, <2>1, <2>2, <2>3
<1> QED BY <1>4, <1>5

\* A branch touches itself and nodes that are pending.
LEMMA BranchedMoves ==
  ASSUME NEW o \in RunObject, NEW n \in Nodes, NEW side
  PROVE  LET p == Branched(o, n, side)
         IN /\ p \in RunObject /\ p.run = o.run /\ p.node[n] = "completed"
            /\ \A m \in Nodes \ {n} :
                 \/ p.node[m] = o.node[m]
                 \/ o.node[m] = "pending" /\ p.node[m] \in {"ready", "skipped"}
<1> DEFINE on == IF side THEN def.onTrue[n] ELSE def.onFalse[n]
           off == (IF side THEN def.onFalse[n] ELSE def.onTrue[n]) \ on
           pending == {m \in Nodes : o.node[m] = "pending"} \ on
           Closed(S) ==
             /\ off \cap pending \subseteq S
             /\ \A m \in pending :
                  /\ def.deps[m] # {}
                  /\ \A d \in def.deps[m] : d \in S \/ o.node[d] = "skipped"
                  => m \in S
           skipped == {m \in pending : \A S \in SUBSET pending : Closed(S) => m \in S}
           f == [m \in Nodes |->
                   IF m = n THEN "completed"
                   ELSE IF m \in skipped THEN "skipped"
                   ELSE IF m \in on /\ o.node[m] = "pending" THEN "ready"
                   ELSE o.node[m]]
<1>1. Branched(o, n, side) = [o EXCEPT !.node = f]
  BY Zenon DEF Branched
<1>2. \A m \in skipped : o.node[m] = "pending" /\ m \notin on OBVIOUS
<1> HIDE DEF skipped, on
<1>3. \A m \in Nodes :
        /\ m = n => f[m] = "completed"
        /\ m # n => \/ f[m] = o.node[m]
                    \/ o.node[m] = "pending" /\ f[m] \in {"ready", "skipped"}
  BY <1>2
<1>4. f \in [Nodes -> NodeStates]
  <2>1. \A m \in Nodes : f[m] \in NodeStates
    BY <1>3, Fields, States
  <2> QED BY <2>1
<1>5. \A m \in Nodes : /\ [o EXCEPT !.node = f] \in RunObject
                       /\ [o EXCEPT !.node = f].run = o.run
                       /\ [o EXCEPT !.node = f].node = f
  BY <1>4, WithNodes
<1> HIDE DEF f
<1> QED BY <1>1, <1>3, <1>5

-----------------------------------------------------------------------------
\* A definition at work, whose parts are functions over its nodes.
Defined == def \in Definitions

LEMMA Parts ==
  ASSUME Defined
  PROVE  /\ def.kind \in [Nodes -> Kinds]
         /\ def.deps \in [Nodes -> SUBSET Nodes]
         /\ def.order \in Seq(Nodes)
         /\ \A n \in Nodes : \E i \in 1..Len(def.order) : def.order[i] = n
         /\ \A i, j \in 1..Len(def.order) : def.order[i] = def.order[j] => i = j
BY DefinitionsAssumption DEF Defined, IsDefinition, Nodes

LEMMA Incremented ==
  ASSUME NEW o \in RunObject, NEW n \in Nodes
  PROVE  LET r == [Put(o, n, "running") EXCEPT !.attempt[n] = @ + 1]
         IN /\ r \in RunObject /\ r.run = o.run /\ r.node[n] = "running"
            /\ \A m \in Nodes \ {n} : r.node[m] = o.node[m]
<1> DEFINE q == Put(o, n, "running")
<1>1. /\ q \in RunObject /\ q.run = o.run /\ q.node[n] = "running"
      /\ \A m \in Nodes \ {n} : q.node[m] = o.node[m]
  BY PutFields, States
<1> HIDE DEF q
<1>2. LET r == [q EXCEPT !.attempt[n] = @ + 1]
      IN r \in RunObject /\ r.run = q.run /\ r.node = q.node
  BY <1>1 DEF RunObject, RunObjects
<1> QED BY <1>1, <1>2 DEF q

\* The start of a ready node up to its first await: other nodes are left alone, but
\* that a branch may ready or skip the pending ones.
LEMMA StartedMoves ==
  ASSUME Defined, NEW o \in RunObject, NEW n \in Nodes, o.node[n] = "ready", NEW taken
  PROVE  LET p == Started(o, n, taken)
         IN /\ Moves(o, p, {})
            /\ n \in Work => p.node[n] = "running"
            /\ \A m \in Nodes \ {n} : o.node[m] = "ready" => p.node[m] = "ready"
<1> DEFINE r == [Put(o, n, "running") EXCEPT !.attempt[n] = @ + 1]
           p == Started(o, n, taken)
           k == def.kind[n]
\* What every kind of node has in common.
<1>1. SUFFICES
        /\ p \in RunObject
        /\ \A m \in Nodes \ {n} :
             \/ p.node[m] = o.node[m]
             \/ o.node[m] = "pending" /\ p.node[m] \in {"ready", "skipped"}
        /\ k \in {"agentic", "tool_action"} => p.node[n] = "running"
        /\ k \in HumanKinds => p.node[n] \notin Over
        /\ OneWaits(o) => OneWaits(p)
        /\ o.run = "cancelled" => p.run = "cancelled"
        /\ p.run = "queued" => o.run = "queued"
  <2>1. {"ready", "skipped"} \cap Over = {} BY DEF Over
  <2> HIDE DEF p
  <2>2. /\ Moves(o, p, {})
        /\ n \in Work => p.node[n] = "running"
        /\ \A m \in Nodes \ {n} : o.node[m] = "ready" => p.node[m] = "ready"
    BY <1>1, <2>1 DEF Moves, Tame, Work
  <2> QED BY <2>2 DEF p
<1>2. /\ r \in RunObject /\ r.run = o.run /\ r.node[n] = "running"
      /\ \A m \in Nodes \ {n} : r.node[m] = o.node[m]
  BY Incremented
<1>3. r.node[n] \notin Waiting /\ (OneWaits(o) => OneWaits(r))
  <2> HIDE DEF r
  <2> QED BY <1>2, FewerWait DEF Waiting
<1>4. k \in Kinds BY Parts
<1>5. /\ k = "instant" => p = Put(r, n, "completed")
      /\ k \in {"agentic", "tool_action"} => p = r
      /\ k = "wait_timer" => p = Enter(r, n, "waiting_timer", "enter_waiting")
      /\ k = "human_approval" => p = Enter(r, n, "waiting_approval", "enter_approval")
      /\ k = "human_review" => p = Enter(r, n, "waiting_review", "enter_review")
      /\ k = "branch" => p = Branched(r, n, taken[n])
      /\ k = "completion" => p = Enter(r, n, "completed", Completes(n))
  BY DEF Started
<1>12. /\ k = "wait_event" =>
            p = Caught(Enter(r, n, "waiting_event", "enter_waiting"), n, FALSE)
       /\ k = "compensation" => p = Caught(r, n, FALSE)
  BY Zenon DEF Started
<1> HIDE DEF r, p
<1>6. CASE k = "instant"
  <2>1. /\ p \in RunObject /\ p.run = r.run /\ p.node[n] = "completed"
        /\ \A m \in Nodes \ {n} : p.node[m] = r.node[m]
    <3>1. "completed" \in NodeStates BY States
    <3>2. p = Put(r, n, "completed") BY <1>5, <1>6
    <3> QED BY <1>2, <3>1, <3>2, PutFields
  <2>2. OneWaits(r) => OneWaits(p)
    BY <2>1, FewerWait DEF Waiting
  <2> QED BY <1>2, <1>3, <1>6, <2>1, <2>2 DEF HumanKinds
<1>7. CASE k \in {"agentic", "tool_action"}
  BY <1>2, <1>3, <1>5, <1>7 DEF HumanKinds
<1>8. CASE k \in {"wait_timer", "human_approval", "human_review", "completion"}
  <2>1. PICK state, event : /\ <<state, event>> \in Entries
                            /\ p = Enter(r, n, state, event)
                            /\ k \in HumanKinds => state \notin Over
    BY <1>5, <1>8, CompletionEntry DEF Entries, HumanKinds, Over
  <2>2. /\ p \in RunObject
        /\ \A m \in Nodes \ {n} : p.node[m] = r.node[m]
        /\ p.node[n] \in {state, "ready", "failed", "cancelled"}
        /\ OneWaits(r) => OneWaits(p)
        /\ r.run = "cancelled" => p.run = "cancelled"
        /\ p.run = "queued" => r.run = "queued"
    BY <1>2, <1>3, <2>1, EnterMoves
  <2> QED BY <1>2, <1>3, <1>8, <2>1, <2>2 DEF Over
<1>9. CASE k = "wait_event"
  <2> DEFINE q == Enter(r, n, "waiting_event", "enter_waiting")
  <2>1. /\ q \in RunObject
        /\ \A m \in Nodes \ {n} : q.node[m] = r.node[m]
        /\ OneWaits(r) => OneWaits(q)
        /\ r.run = "cancelled" => q.run = "cancelled"
        /\ q.run = "queued" => r.run = "queued"
    BY <1>2, <1>3, EnterMoves DEF Entries
  <2> HIDE DEF q
  <2>2. CaughtFrom(q, n, p)
    <3>1. p = Caught(q, n, FALSE) BY <1>9, <1>12, Zenon DEF q
    <3> QED BY <2>1, <3>1, NotAborted, Zenon
  <2>3. OneWaits(q) => OneWaits(p)
    BY <2>2, FewerWait DEF CaughtFrom
  <2> QED BY <1>2, <1>3, <1>9, <2>1, <2>2, <2>3 DEF HumanKinds, CaughtFrom
<1>10. CASE k = "branch"
  <2>1. /\ p \in RunObject /\ p.run = r.run /\ p.node[n] = "completed"
        /\ \A m \in Nodes \ {n} :
             \/ p.node[m] = r.node[m]
             \/ r.node[m] = "pending" /\ p.node[m] \in {"ready", "skipped"}
    BY <1>2, <1>5, <1>10, BranchedMoves
  <2>2. OneWaits(r) => OneWaits(p)
    BY <2>1, FewerWait DEF Waiting
  <2> QED BY <1>2, <1>3, <1>10, <2>1, <2>2 DEF HumanKinds
<1>11. CASE k = "compensation"
  <2>1. CaughtFrom(r, n, p)
    <3>1. p = Caught(r, n, FALSE) BY <1>11, <1>12, Zenon
    <3> QED BY <1>2, <3>1, NotAborted, Zenon
  <2>2. OneWaits(r) => OneWaits(p)
    BY <2>1, FewerWait DEF CaughtFrom
  <2> QED BY <1>2, <1>3, <1>11, <2>1, <2>2 DEF HumanKinds, CaughtFrom
<1> QED BY <1>4, <1>6, <1>7, <1>8, <1>9, <1>10, <1>11 DEF Kinds

-----------------------------------------------------------------------------
\* A set of numbers has a least element: the intervals 0..x are ordered as their
\* ends are, and finite sets well-founded.
LEMMA Smallest ==
  ASSUME NEW S \in SUBSET Nat, S # {}
  PROVE  \E x \in S : \A y \in S : x <= y
<1> DEFINE T == {0..x : x \in S}
<1>1. T # {} /\ T \subseteq FiniteSubsetsOf(Nat)
  <2>1. \A x \in S : 0..x \in SUBSET Nat /\ IsFiniteSet(0..x)
    BY FS_Interval
  <2> QED BY <2>1 DEF FiniteSubsetsOf
<1>2. \E A \in T : \A B \in T : <<B, A>> \notin StrictSubsetOrdering(Nat)
  <2>1. IsWellFoundedOn(StrictSubsetOrdering(Nat), FiniteSubsetsOf(Nat))
    BY FS_StrictSubsetOrderingWellFounded, Zenon
  <2> HIDE DEF T
  <2> QED BY <1>1, <2>1, WFMin, Zenon
<1>3. PICK x \in S : \A y \in S : <<0..y, 0..x>> \notin StrictSubsetOrdering(Nat)
  BY <1>2
<1>4. ASSUME NEW y \in S, ~(x <= y) PROVE FALSE
  <2>1. 0..y \subseteq 0..x BY <1>4
  <2>2. x \in 0..x /\ x \notin 0..y BY <1>4
  <2>3. 0..y \in SUBSET Nat /\ 0..x \in SUBSET Nat /\ 0..y # 0..x
    BY <2>2
  <2> QED BY <2>1, <2>3, <1>3 DEF StrictSubsetOrdering
<1> QED BY <1>4

\* The recursion is well-founded: some function satisfies it, up to any length.
Recurs(f, o, ready, taken, len) ==
  f = [i \in 0..len |-> IF i = 0 THEN [obj |-> o, fly |-> {}]
                        ELSE StartNext(f[i - 1], def.order[i], ready, taken)]

LEMMA AfterExists ==
  ASSUME NEW o, NEW ready, NEW taken, NEW len \in Nat
  PROVE  \E f : Recurs(f, o, ready, taken, len)
<1> DEFINE base == [obj |-> o, fly |-> {}]
           E(prev, i) == StartNext(prev, def.order[i], ready, taken)
           Solves(f, k) == f = [i \in 0..k |-> IF i = 0 THEN base ELSE E(f[i - 1], i)]
           bad == {k \in Nat : ~ \E f : Solves(f, k)}
<1> HIDE DEF base, E
<1>1. ASSUME NEW k \in bad, \A j \in bad : k <= j PROVE FALSE
  <2>1. CASE k = 0
    <3>1. Solves([i \in 0..0 |-> base], 0) OBVIOUS
    <3> QED BY <2>1, <3>1
  <2>2. CASE k # 0
    <3>1. k - 1 \in Nat /\ k - 1 \notin bad BY <1>1, <2>2
    <3>2. PICK f : Solves(f, k - 1) BY <3>1
    <3> DEFINE g == [i \in 0..k |-> IF i = k THEN E(f[k - 1], k) ELSE f[i]]
    <3>3. \A i \in 0..k : g[i] = IF i = 0 THEN base ELSE E(g[i - 1], i)
      <4>1. \A i \in 0..(k - 1) : f[i] = IF i = 0 THEN base ELSE E(f[i - 1], i)
        BY <3>2
      <4>2. \A i \in 0..k : /\ i = k => g[i] = E(f[k - 1], k)
                            /\ i # k => i \in 0..(k - 1) /\ g[i] = f[i]
        BY <2>2
      <4> HIDE DEF g
      <4> TAKE i \in 0..k
      <4>3. CASE i = k
        <5>1. k - 1 \in 0..k /\ k - 1 # k BY <2>2
        <5>2. g[k - 1] = f[k - 1] BY <4>2, <5>1
        <5> QED BY <2>2, <4>2, <4>3, <5>2
      <4>4. CASE i # k /\ i # 0
        <5>1. i - 1 \in 0..k /\ i - 1 # k BY <4>4
        <5>2. g[i - 1] = f[i - 1] BY <4>2, <5>1
        <5> QED BY <4>1, <4>2, <4>4, <5>2
      <4>5. CASE i # k /\ i = 0
        BY <4>1, <4>2, <4>5
      <4> QED BY <4>3, <4>4, <4>5
    <3>4. Solves(g, k)
      <4>1. g = [i \in 0..k |-> g[i]] OBVIOUS
      <4> HIDE DEF g
      <4> QED BY <3>3, <4>1
    <3> HIDE DEF Solves
    <3> QED BY <1>1, <3>4
  <2> QED BY <2>1, <2>2
<1>2. bad = {}
  <2>1. bad \in SUBSET Nat OBVIOUS
  <2> HIDE DEF bad
  <2> QED BY <1>1, <2>1, Smallest
<1>3. \E f : Solves(f, len) BY <1>2
<1> QED BY <1>3 DEF base, E, Recurs

\* AllStarted is the last of a sequence that goes on node by node.
Sequence(f, o, ready, taken, len) ==
  /\ f[0] = [obj |-> o, fly |-> {}]
  /\ \A i \in 1..len : f[i] = StartNext(f[i - 1], def.order[i], ready, taken)

LEMMA AllStartedSteps ==
  ASSUME NEW o, NEW ready, NEW taken, Len(def.order) \in Nat
  PROVE  \E f : /\ AllStarted(o, ready, taken) = f[Len(def.order)]
                /\ Sequence(f, o, ready, taken, Len(def.order))
<1> DEFINE len == Len(def.order)
           after == CHOOSE f : Recurs(f, o, ready, taken, len)
<1>1. AllStarted(o, ready, taken) = after[len]
  BY Zenon DEF AllStarted, Recurs
<1>2. Recurs(after, o, ready, taken, len)
  BY AfterExists, Zenon
<1> HIDE DEF after, len
<1>3. \A i \in 0..len : after[i] = IF i = 0 THEN [obj |-> o, fly |-> {}]
                        ELSE StartNext(after[i - 1], def.order[i], ready, taken)
  BY <1>2, Zenon DEF Recurs
<1>4. len \in Nat BY DEF len
<1>5. after[0] = [obj |-> o, fly |-> {}]
  <2>1. 0 \in 0..len BY <1>4
  <2> QED BY <1>3, <2>1
<1>6. \A i \in 1..len : after[i] = StartNext(after[i - 1], def.order[i], ready, taken)
  <2>1. \A i \in 1..len : i \in 0..len /\ i # 0 BY <1>4
  <2> QED BY <1>3, <2>1
<1> QED BY <1>1, <1>5, <1>6 DEF Sequence, len

\* The nodes of a tick, started in order.
LEMMA TickMoves ==
  ASSUME Defined, NEW o \in RunObject, NEW ready \in SUBSET Nodes, NEW taken,
         \A n \in ready : o.node[n] = "ready"
  PROVE  LET s == AllStarted(o, ready, taken)
         IN /\ Moves(o, s.obj, {})
            /\ s.fly \subseteq ready
            /\ \A n \in ready \cap Work : s.obj.node[n] \in {"running", "cancelled"}
<1> DEFINE len == Len(def.order)
           s == AllStarted(o, ready, taken)
<1>1. /\ len \in Nat
      /\ \A i \in 1..len : def.order[i] \in Nodes
      /\ \A n \in Nodes : \E i \in 1..len : def.order[i] = n
      /\ \A i, j \in 1..len : def.order[i] = def.order[j] => i = j
  <2>1. def.order \in Seq(Nodes) BY Parts
  <2>2. len \in Nat /\ \A i \in 1..len : def.order[i] \in Nodes
    BY <2>1, LenProperties, ElementOfSeq
  <2> QED BY <2>2, Parts
<1>2. PICK f : s = f[len] /\ Sequence(f, o, ready, taken, len)
  BY <1>1, AllStartedSteps, Zenon
<1> USE DEF Sequence
<1> HIDE DEF len, s
<1> DEFINE Before(n, i) == \E j \in 1..i : def.order[j] = n
           Good(i) ==
             /\ Moves(o, f[i].obj, {})
             /\ f[i].fly \subseteq ready
             /\ \A n \in ready : IF Before(n, i)
                                 THEN n \in Work => f[i].obj.node[n] \in {"running", "cancelled"}
                                 ELSE f[i].obj.node[n] = "ready"
           bad == {i \in 0..len : ~Good(i)}
<1>3. Good(0)
  <2>1. f[0].obj = o /\ f[0].fly = {} BY <1>2
  <2>2. Moves(o, o, {}) BY DEF Moves, Tame, Work
  <2> QED BY <2>1, <2>2
<1>4. ASSUME NEW i \in 1..len, Good(i - 1) PROVE Good(i)
  <2> DEFINE n == def.order[i]
             prev == f[i - 1]
  <2>1. /\ i \in Nat /\ i - 1 \in Nat /\ n \in Nodes
        /\ f[i] = StartNext(prev, n, ready, taken)
    BY <1>1, <1>2
  <2>2. \A m : Before(m, i) <=> m = n \/ Before(m, i - 1)
    BY <1>1
  <2>3. ~Before(n, i - 1)
    BY <1>1
  <2>4. /\ Moves(o, prev.obj, {}) /\ prev.obj \in RunObject
        /\ prev.fly \subseteq ready
        /\ \A m \in ready : IF Before(m, i - 1)
                            THEN m \in Work => prev.obj.node[m] \in {"running", "cancelled"}
                            ELSE prev.obj.node[m] = "ready"
    BY <1>4 DEF Moves
  <2> HIDE DEF Before, n, prev
  <2>5. CASE n \notin ready
    BY <2>1, <2>2, <2>4, <2>5 DEF StartNext
  <2>6. CASE n \in ready
    <3>1. prev.obj.node[n] = "ready" BY <2>3, <2>4, <2>6
    <3> DEFINE p == Started(prev.obj, n, taken)
    <3>2. /\ f[i].obj = p
          /\ f[i].fly \subseteq prev.fly \cup {n}
      BY <2>1, <2>6 DEF StartNext
    <3>3. /\ Moves(prev.obj, p, {})
          /\ n \in Work => p.node[n] = "running"
          /\ \A m \in Nodes \ {n} : prev.obj.node[m] = "ready" => p.node[m] = "ready"
      BY <2>1, <2>4, <3>1, StartedMoves
    <3> HIDE DEF p
    <3>4. Moves(o, p, {}) BY <2>4, <3>3, MovesOn
    <3>5. \A m \in Work : prev.obj.node[m] \in {"running", "cancelled"} =>
            p.node[m] \in {"running", "cancelled"}
      BY <3>3 DEF Moves, Tame
    <3>6. \A m \in ready : IF Before(m, i)
                           THEN m \in Work => p.node[m] \in {"running", "cancelled"}
                           ELSE p.node[m] = "ready"
      BY <2>2, <2>4, <3>3, <3>5
    <3> QED BY <2>4, <2>6, <3>2, <3>4, <3>6
  <2> QED BY <2>5, <2>6
<1> HIDE DEF Good
<1>5. ASSUME NEW i \in bad, \A j \in bad : i <= j PROVE FALSE
  <2>1. i # 0 BY <1>3, <1>5
  <2>2. i - 1 \in 0..len /\ i - 1 \notin bad BY <1>1, <1>5, <2>1
  <2>3. i \in 1..len /\ Good(i - 1) BY <2>1, <2>2
  <2> QED BY <1>4, <1>5, <2>3
<1>6. bad = {}
  <2>1. bad \in SUBSET Nat OBVIOUS
  <2> HIDE DEF bad
  <2> QED BY <1>5, <2>1, Smallest
<1>7. Good(len)
  <2>1. len \in 0..len BY <1>1
  <2> QED BY <1>6, <2>1
<1>8. /\ Moves(o, s.obj, {}) /\ s.fly \subseteq ready
      /\ \A n \in ready \cap Work : s.obj.node[n] \in {"running", "cancelled"}
  BY <1>1, <1>2, <1>7 DEF Good
<1> QED BY <1>8 DEF s

-----------------------------------------------------------------------------
\* The other rewrites.
LEMMA RefreshedMoves ==
  ASSUME NEW o \in RunObject
  PROVE  /\ Moves(o, Refreshed(o), {})
         /\ Refreshed(o).run = o.run
         /\ \A n \in Nodes : /\ Refreshed(o).node[n] \in Over \cup {"skipped"} =>
                                  o.node[n] = Refreshed(o).node[n]
                             /\ Refreshed(o).node[n] # o.node[n] => o.node[n] = "pending"
<1> DEFINE f == [n \in Nodes |-> IF o.node[n] = "pending" /\ DepsSatisfied(o, n)
                                 THEN "ready" ELSE o.node[n]]
           p == [o EXCEPT !.node = f]
<1>1. \A n \in Nodes : f[n] = o.node[n] \/ (o.node[n] = "pending" /\ f[n] = "ready")
  OBVIOUS
<1>2. f \in [Nodes -> NodeStates]
  <2>1. \A n \in Nodes : f[n] \in NodeStates BY <1>1, Fields, States
  <2> QED BY <2>1
<1>3. Refreshed(o) = p BY DEF Refreshed
<1> HIDE DEF f
<1>4. p \in RunObject /\ p.run = o.run /\ p.node = f
  BY <1>2, WithNodes
<1> HIDE DEF p
<1>5. OneWaits(o) => OneWaits(p)
  BY <1>1, <1>4, FewerWait DEF Waiting
<1> QED BY <1>1, <1>3, <1>4, <1>5 DEF Moves, Tame, Work, Over

\* recomputeRunState finds the run that takes the decision as long as a node waits.
LEMMA RecomputedMoves ==
  ASSUME NEW o \in RunObject, OneWaits(o)
  PROVE  Moves(o, Recomputed(o), {})
<1> DEFINE p == Recomputed(o)
<1>1. CASE o.run \in {"cancelled", "cancelling"}
  <2> DEFINE f == [n \in Nodes |->
                     IF o.node[n] \in {"pending", "ready", "running", "waiting_timer",
                                       "waiting_event"}
                     THEN "cancelled" ELSE o.node[n]]
  <2>1. p = [o EXCEPT !.run = "cancelled", !.node = f]
    BY <1>1 DEF Recomputed
  <2>2. \A n \in Nodes : f[n] = o.node[n] \/ f[n] = "cancelled"
    OBVIOUS
  <2>3. f \in [Nodes -> NodeStates]
    <3>1. \A n \in Nodes : f[n] \in NodeStates BY <2>2, Fields, States
    <3> QED BY <3>1
  <2>4. \A n \in Nodes : f[n] \notin {"pending", "ready"}
                         /\ (o.node[n] \in {"running", "cancelled"} => f[n] = "cancelled")
    BY Fields
  <2> HIDE DEF f
  <2>5. p \in RunObject /\ p.run = "cancelled" /\ p.node = f
    <3>1. "cancelled" \in RunStates BY States
    <3> QED BY <2>1, <2>3, <3>1 DEF RunObject, RunObjects
  <2> HIDE DEF p
  <2>6. \A n \in Nodes : o.node[n] \notin Waiting
    BY <1>1 DEF OneWaits, canAcceptHumanInput
  <2>7. OneWaits(p) BY <2>2, <2>5, <2>6 DEF OneWaits, Waiting
  <2>8. \A n \in Nodes : f[n] \in Over => o.node[n] \in Over
    BY <2>2 DEF Over
  <2> QED BY <2>4, <2>5, <2>7, <2>8 DEF Moves, Tame, Work, p
<1>2. CASE o.run \notin {"cancelled", "cancelling"}
  <2>1. PICK r \in RunStates \ {"queued"} :
          /\ p = [o EXCEPT !.run = r]
          /\ (\E n \in Nodes : o.node[n] \in Waiting) => canAcceptHumanInput(r)
    <3> DEFINE In(S) == \E n \in Nodes : o.node[n] \in S
    <3> USE <1>2 DEF canAcceptHumanInput
    <3>1. CASE In({"waiting_approval"})
      BY <3>1, States DEF Recomputed
    <3>2. CASE ~In({"waiting_approval"}) /\ In({"waiting_review"})
      BY <3>2, States DEF Recomputed
    <3>3. CASE ~In({"waiting_approval"}) /\ ~In({"waiting_review"})
      <4>1. ~ \E n \in Nodes : o.node[n] \in Waiting BY <3>3 DEF Waiting
      <4>2. \E r \in {"waiting", "compensation_required", "failed", "blocked",
                      "completed", "running", "partially_completed"} :
              p = [o EXCEPT !.run = r]
        BY <3>3 DEF Recomputed
      <4> QED BY <4>1, <4>2, States
    <3> QED BY <3>1, <3>2, <3>3
  <2> HIDE DEF p
  <2>2. p \in RunObject /\ p.run = r /\ p.node = o.node
    BY <2>1, WithRun
  <2>3. OneWaits(p) BY <2>1, <2>2 DEF OneWaits
  <2> QED BY <1>2, <2>2, <2>3 DEF Moves, Tame, Work, p
<1> QED BY <1>1, <1>2

\* A run that no person is asked about is moved without a look at its nodes.
LEMMA RunMoves ==
  ASSUME NEW o \in RunObject, NEW r \in RunStates \ {"queued"},
         ~canAcceptHumanInput(o.run), o.run # "cancelled"
  PROVE  Moves(o, [o EXCEPT !.run = r], {})
<1> DEFINE p == [o EXCEPT !.run = r]
<1>1. p \in RunObject /\ p.run = r /\ p.node = o.node BY WithRun
<1> HIDE DEF p
<1>2. OneWaits(o) => OneWaits(p) BY <1>1 DEF OneWaits
<1>3. Moves(o, p, {}) BY <1>1, <1>2 DEF Moves, Tame, Work
<1> QED BY <1>3 DEF p

\* cancelRun cancels the nodes that wait for a person too.
LEMMA CancelMoves ==
  ASSUME NEW o \in RunObject
  PROVE  LET p == [o EXCEPT !.run = "cancelled",
                     !.node = [n \in Nodes |->
                       IF o.node[n] \notin {"completed", "cancelled", "skipped", "failed"}
                          /\ NodeCan(o.node[n], "cancel")
                       THEN "cancelled" ELSE o.node[n]]]
         IN Moves(o, p, {}) /\ p.run = "cancelled"
<1> DEFINE f == [n \in Nodes |->
                   IF o.node[n] \notin {"completed", "cancelled", "skipped", "failed"}
                      /\ NodeCan(o.node[n], "cancel")
                   THEN "cancelled" ELSE o.node[n]]
           p == [o EXCEPT !.run = "cancelled", !.node = f]
<1>1. \A n \in Nodes : /\ o.node[n] \in NodeStates
                       /\ f[n] = o.node[n] \/ f[n] = "cancelled"
                       /\ o.node[n] \in Waiting \cup {"pending", "ready", "running"} =>
                            f[n] = "cancelled"
  <2>1. \A n \in Nodes : o.node[n] \in NodeStates BY Fields
  <2> QED BY <2>1, NodeTable DEF Waiting
<1>2. f \in [Nodes -> NodeStates]
  <2>1. \A n \in Nodes : f[n] \in NodeStates BY <1>1, States
  <2> QED BY <2>1
<1> HIDE DEF f
<1>3. p \in RunObject /\ p.run = "cancelled" /\ p.node = f
  <2>1. "cancelled" \in RunStates BY States
  <2> QED BY <1>2, <2>1 DEF RunObject, RunObjects
<1> HIDE DEF p
<1>4. OneWaits(p) BY <1>1, <1>3 DEF OneWaits, Waiting
<1>5. Moves(o, p, {}) BY <1>1, <1>3, <1>4 DEF Moves, Tame, Work, Over
<1> QED BY <1>3, <1>5 DEF f, p

-----------------------------------------------------------------------------
\* What every handler has to show for the parts of the invariant.
LEMMA Facts ==
  ASSUME WInv
  PROVE  /\ Defined /\ Root \in Loops
         /\ stored \in RunObject /\ None \notin Loops /\ None \notin RunObject
         /\ \A l \in Loops : of[l] \in Loops /\ (objs[l] # None => objs[l] \in RunObject)
         /\ live # None => live \in Loops /\ objs[live] \in RunObject
         /\ \A l \in Loops : pc[l] # "idle" => objs[of[l]] \in RunObject /\ Sound(objs[of[l]])
<1>1. Root \in Loops BY LoopsAssumption DEF Root
<1>2. Defined BY DEF WInv, TypeOK, Defined
<1>3. None \notin Loops /\ None \notin RunObject
  BY <1>2, NoneAssumption DEF Defined, RunObject, Nodes
<1> QED BY <1>1, <1>2, <1>3 DEF WInv, TypeOK, RunObject, Control

\* The object a verb works on.
LEMMA CurrentFacts ==
  ASSUME WInv
  PROVE  Current \in RunObject /\ Sound(Current)
<1>1. CASE live = None
  BY <1>1, Facts DEF Current, WInv
<1>2. CASE live # None
  BY <1>2, Facts DEF Current, WInv, Control
<1> QED BY <1>1, <1>2

\* The types, handler by handler.
LEMMA TypeKeeps ==
  ASSUME WInv, def' = def,
         objs' \in [Loops -> RunObject \cup {None}], live' \in Loops \cup {None},
         stored' \in RunObject, pc' \in [Loops -> {"idle", "top", "tick"}],
         of' \in [Loops -> Loops], fly' \in [Loops -> SUBSET Nodes],
         ctrl' \in Loops \cup {None}, aborted' \in [Loops -> BOOLEAN],
         decisions' \subseteq Nodes \X Decisions, ended' \in RunStates \cup {None},
         starts' \in [Nodes -> Nat], pauses' \in 0..MaxPauses, crashes' \in 0..MaxCrashes
  PROVE  TypeOK'
<1>1. def' \in Definitions BY DEF WInv, TypeOK
<1>2. Nodes' = Nodes BY DEF Nodes
<1> QED BY <1>1, <1>2 DEF TypeOK, RunObject

LEMMA ReportType ==
  ASSUME WInv, NEW p \in RunObject, Report(p)
  PROVE  ended' \in RunStates \cup {None}
BY Fields DEF Report, WInv, TypeOK

\* An object that moves stays sound, and so does one that is left alone.
LEMMA SoundMoves ==
  ASSUME def' = def, decisions \subseteq decisions', NEW o, NEW p, NEW X,
         Sound(o), Moves(o, p, X)
  PROVE  p \in RunObject /\ Sound(p)' /\ Tame(o, p, X)
BY DEF Moves, Sound, Approved, OneWaits, Nodes

LEMMA SoundStays ==
  ASSUME def' = def, decisions \subseteq decisions', NEW o, Sound(o)
  PROVE  Sound(o)'
BY DEF Sound, Approved, OneWaits, Nodes

LEMMA SoundKeeps ==
  ASSUME WInv, def' = def, decisions \subseteq decisions', NEW k \in Loops, NEW p,
         p \in RunObject, Sound(p)',
         objs' = objs \/ objs' = [objs EXCEPT ![k] = p],
         stored' = stored \/ stored' = p
  PROVE  /\ Sound(stored)'
         /\ \A l \in Loops : objs'[l] # None => Sound(objs[l])'
         /\ objs' \in [Loops -> RunObject \cup {None}] /\ stored' \in RunObject
<1>1. Sound(stored)'
  <2>1. PICK c : c = stored' OBVIOUS
  <2>2. Sound(c)' BY <2>1, SoundStays DEF WInv
  <2> QED BY <2>1, <2>2 DEF Sound, Approved, OneWaits
<1>2. ASSUME NEW l \in Loops, objs'[l] # None PROVE Sound(objs[l])'
  <2>1. PICK c : c = objs'[l] OBVIOUS
  <2>2. objs \in [Loops -> RunObject \cup {None}] BY DEF WInv, TypeOK, RunObject
  <2>3. c = p \/ (c = objs[l] /\ objs[l] # None) BY <1>2, <2>1, <2>2
  <2>4. Sound(c)' BY <2>3, SoundStays DEF WInv
  <2> QED BY <2>1, <2>4 DEF Sound, Approved, OneWaits
<1>3. objs' \in [Loops -> RunObject \cup {None}] /\ stored' \in RunObject
  BY DEF WInv, TypeOK, RunObject
<1> QED BY <1>1, <1>2, <1>3

\* The count of the working nodes, unless a tick starts.
LEMMA CountedKeeps ==
  ASSUME def' = def, starts' = starts, NEW o, NEW p, NEW X, Counted(o), Tame(o, p, X),
         crashes = 0,
         \A l \in Loops : fly'[l] \subseteq fly[l] /\ fly'[l] \cap X = {}
  PROVE  Counted(p)'
<1>1. Work' = Work BY DEF Work, Nodes
<1> QED BY <1>1 DEF Counted, Tame

-----------------------------------------------------------------------------
\* A loop stops.
LEMMA FinishKeeps ==
  ASSUME WInv, NEW l \in Loops, NEW p, pc[l] # "idle", fly[l] = {},
         Moves(objs[of[l]], p, {}), Finish(l, p), ctrl' \in Loops \cup {None},
         UNCHANGED <<def, of, fly, aborted, decisions, starts, pauses, crashes>>
  PROVE  WInv'
<1> DEFINE k == of[l]
<1>1. /\ objs' = [objs EXCEPT ![k] = p] /\ stored' = p
      /\ live' = IF TerminalRun(p.run) THEN None ELSE k
      /\ pc' = [pc EXCEPT ![l] = "idle"] /\ Report(p)
  BY DEF Finish
<1>2. PICK o : o = objs[k] OBVIOUS
<1>3. o \in RunObject /\ Sound(o) /\ k \in Loops /\ Moves(o, p, {}) /\ o.run # "queued"
  BY <1>2, Facts DEF WInv, Control
<1>4. p \in RunObject /\ Sound(p)' /\ Tame(o, p, {})
  BY <1>3, SoundMoves
<1>5. p # None /\ p.run # "queued" BY <1>3, <1>4, Facts DEF Tame
<1>6. /\ Sound(stored)'
      /\ \A m \in Loops : objs'[m] # None => Sound(objs[m])'
      /\ objs' \in [Loops -> RunObject \cup {None}] /\ stored' \in RunObject
  BY <1>1, <1>3, <1>4, SoundKeeps
<1> HIDE DEF k
<1>7. TypeOK'
  <2>1. ended' \in RunStates \cup {None} BY <1>1, <1>4, ReportType
  <2>2. live' \in Loops \cup {None} BY <1>1, <1>3
  <2> QED BY <1>1, <1>6, <2>1, <2>2, TypeKeeps DEF WInv, TypeOK
<1>8. /\ objs'[k] = p
      /\ \A m \in Loops : m # k => objs'[m] = objs[m]
      /\ pc'[l] = "idle" /\ \A m \in Loops : m # l => pc'[m] = pc[m]
  BY <1>1, <1>3 DEF WInv, TypeOK
<1>9. Control'
  <2>1. live' # None => objs'[live'] = p BY <1>1, <1>8
  <2>2. ASSUME NEW m \in Loops
        PROVE  /\ pc'[m] # "idle" => objs'[of'[m]] # None /\ objs'[of'[m]].run # "queued"
               /\ fly'[m] # {} => pc'[m] = "tick"
    <3>1. of[m] \in Loops BY Facts
    <3> QED BY <1>5, <1>8, <3>1 DEF WInv, Control
  <2> QED BY <1>5, <2>1, <2>2 DEF Control
<1>10. Rest'
  BY <1>1, <1>8 DEF Rest
<1>11. ASSUME crashes' = 0 PROVE Lineage'
  <2>1. Lineage /\ crashes = 0 BY <1>11 DEF WInv
  <2>2. k = Root BY <2>1 DEF Lineage, k
  <2>3. Counted(p)' BY <1>2, <1>4, <2>1, <2>2, CountedKeeps DEF Lineage
  <2>4. Counted(objs[Root])' BY <1>8, <2>2, <2>3 DEF Counted
  <2>5. stored'.run = "cancelled" => objs'[Root].run = "cancelled"
    BY <1>1, <1>8, <2>2
  <2>6. \A m \in Loops : pc'[m] # "idle" => of'[m] = Root
    BY <1>8, <2>1 DEF Lineage
  <2>7. live' \in {Root, None} /\ (live' = None => TerminalRun(stored'.run))
    <3>1. k \in Loops /\ None \notin Loops BY <1>3, Facts
    <3> QED BY <1>1, <2>2, <3>1
  <2>8. objs'[Root] # None BY <1>5, <1>8, <2>2
  <2> QED BY <2>4, <2>5, <2>6, <2>7, <2>8 DEF Lineage
<1> QED BY <1>6, <1>7, <1>9, <1>10, <1>11 DEF WInv

\* A loop goes on: its tick is over, or a node of it settles.
LEMMA GoesOnKeeps ==
  ASSUME WInv, NEW l \in Loops, NEW p, NEW X, pc[l] = "tick",
         p \in RunObject, Sound(p)', Tame(objs[of[l]], p, X),
         objs' = [objs EXCEPT ![of[l]] = p], Report(p), ctrl' \in Loops \cup {None},
         (pc' = [pc EXCEPT ![l] = "top"] /\ fly[l] = {}) \/ pc' = pc,
         fly' \in [Loops -> SUBSET Nodes],
         \A m \in Loops : fly'[m] \subseteq fly[m] /\ (crashes = 0 => fly'[m] \cap X = {}),
         UNCHANGED <<def, live, stored, of, aborted, decisions, starts, pauses, crashes>>
  PROVE  WInv'
<1> DEFINE k == of[l]
<1>1. PICK o : o = objs[k] OBVIOUS
<1>2. /\ k \in Loops /\ Tame(o, p, X)
      /\ o.run # "queued" /\ p.run # "queued" /\ p # None
  BY <1>1, Facts DEF WInv, Control, Tame
<1>3. /\ Sound(stored)'
      /\ \A m \in Loops : objs'[m] # None => Sound(objs[m])'
      /\ objs' \in [Loops -> RunObject \cup {None}] /\ stored' \in RunObject
  BY <1>2, SoundKeeps
<1> HIDE DEF k
<1>4. TypeOK'
  <2>1. ended' \in RunStates \cup {None} BY ReportType
  <2> QED BY <1>3, <2>1, TypeKeeps DEF WInv, TypeOK
<1>5. /\ objs'[k] = p
      /\ \A m \in Loops : m # k => objs'[m] = objs[m]
      /\ pc'[l] # "idle"
      /\ \A m \in Loops : m # l => pc'[m] = pc[m]
  BY <1>2 DEF WInv, TypeOK, k
<1>6. ~Idle /\ ~Idle' BY <1>5 DEF Idle
<1>7. Control'
  <2>1. live' # None => objs'[live'] # None /\ objs'[live'].run # "queued"
    BY <1>2, <1>5, <1>6, Facts DEF WInv, Control
  <2>2. ASSUME NEW m \in Loops
        PROVE  /\ pc'[m] # "idle" => objs'[of'[m]] # None /\ objs'[of'[m]].run # "queued"
               /\ fly'[m] # {} => pc'[m] = "tick"
    <3>1. of[m] \in Loops BY Facts
    <3>2. pc'[m] # "idle" => pc[m] # "idle" BY <1>5
    <3>3. objs'[of[m]] = p \/ objs'[of[m]] = objs[of[m]] BY <1>5, <3>1
    <3>4. fly'[m] # {} => fly[m] # {} /\ pc[m] = "tick" BY DEF WInv, Control
    <3>5. fly'[m] # {} => pc'[m] = "tick" BY <1>5, <3>4
    <3> QED BY <1>2, <3>2, <3>3, <3>5 DEF WInv, Control
  <2> QED BY <2>1, <2>2 DEF Control
<1>8. Rest' BY <1>6 DEF Rest
<1>9. ASSUME crashes' = 0 PROVE Lineage'
  <2>1. Lineage /\ crashes = 0 BY <1>9 DEF WInv
  <2>2. k = Root BY <2>1 DEF Lineage, k
  <2>3. Counted(p)' BY <1>1, <1>2, <2>1, <2>2, CountedKeeps DEF Lineage
  <2>4. Counted(objs[Root])' BY <1>5, <2>2, <2>3 DEF Counted
  <2>5. stored'.run = "cancelled" => objs'[Root].run = "cancelled"
    BY <1>1, <1>2, <1>5, <2>1, <2>2 DEF Lineage, Tame
  <2>6. \A m \in Loops : pc'[m] # "idle" => of'[m] = Root
    BY <1>5, <2>1 DEF Lineage
  <2> QED BY <1>2, <1>5, <2>1, <2>2, <2>4, <2>5, <2>6 DEF Lineage
<1> QED BY <1>3, <1>4, <1>7, <1>8, <1>9 DEF WInv

\* A verb, or executeRun, begins a loop.
LEMMA BeginKeeps ==
  ASSUME WInv, NEW l \in Loops, NEW p,
         Free(l) \/ (pc[l] = "idle" /\ live = l),
         p \in RunObject, p.run = "running", Sound(p)', Tame(Current, p, {}),
         ~TerminalRun(Current.run), Begin(l, p), stored' = p,
         decisions \subseteq decisions', decisions' \subseteq Nodes \X Decisions,
         ended' \in RunStates \cup {None}, pauses' \in 0..MaxPauses,
         UNCHANGED <<def, live, fly, ctrl, starts, crashes>>
  PROVE  WInv'
<1> DEFINE k == IF live = None THEN l ELSE live
<1>1. /\ objs' = [objs EXCEPT ![k] = p]
      /\ of' = [of EXCEPT ![l] = k]
      /\ pc' = [pc EXCEPT ![l] = "top"]
      /\ aborted' = [aborted EXCEPT ![l] = FALSE]
  BY DEF Begin
<1>2. k \in Loops /\ pc[l] = "idle" /\ p # None
      /\ (live = None => \A m \in Loops \ {l} : pc[m] = "idle" \/ of[m] # l)
  BY Facts DEF Free
<1>3. /\ Sound(stored)'
      /\ \A m \in Loops : objs'[m] # None => Sound(objs[m])'
      /\ objs' \in [Loops -> RunObject \cup {None}] /\ stored' \in RunObject
  BY <1>1, <1>2, SoundKeeps
<1>4. live # None => k = live BY DEF k
<1>5. live = None => k = l BY DEF k
<1> HIDE DEF k
<1>6. TypeOK'
  BY <1>1, <1>2, <1>3, TypeKeeps DEF WInv, TypeOK
<1>7. /\ objs'[k] = p /\ pc'[l] = "top" /\ of'[l] = k
      /\ \A m \in Loops : m # k => objs'[m] = objs[m]
      /\ \A m \in Loops : m # l => pc'[m] = pc[m] /\ of'[m] = of[m]
  BY <1>1, <1>2 DEF WInv, TypeOK
<1>8. Control'
  <2>1. live' # None => objs'[live'] = p BY <1>4, <1>7
  <2>2. ASSUME NEW m \in Loops
        PROVE  /\ pc'[m] # "idle" => objs'[of'[m]] # None /\ objs'[of'[m]].run # "queued"
               /\ fly'[m] # {} => pc'[m] = "tick"
    <3>1. of[m] \in Loops BY Facts
    <3>2. fly[m] # {} => m # l BY <1>2 DEF WInv, Control
    <3>3. CASE m = l BY <1>2, <1>7, <3>2, <3>3
    <3>4. CASE m # l
      <4>1. objs'[of'[m]] = p \/ objs'[of'[m]] = objs[of[m]] BY <1>7, <3>1, <3>4
      <4> QED BY <1>2, <1>7, <3>4, <4>1 DEF WInv, Control
    <3> QED BY <3>3, <3>4
  <2> QED BY <1>2, <2>1, <2>2 DEF Control
<1>9. Rest' BY <1>7 DEF Rest, Idle
<1>10. ASSUME crashes' = 0 PROVE Lineage'
  <2>1. Lineage /\ crashes = 0 BY <1>10 DEF WInv
  <2>2. live = Root
    BY <2>1 DEF Lineage, Current
  <2>3. k = Root /\ Current = objs[Root]
    BY <1>4, <2>2, Facts DEF Current
  <2>4. PICK o : o = objs[Root] OBVIOUS
  <2>5. Counted(p)' BY <2>1, <2>3, <2>4, CountedKeeps DEF Lineage
  <2>6. Counted(objs[Root])' BY <1>7, <2>3, <2>5 DEF Counted
  <2>7. \A m \in Loops : pc'[m] # "idle" => of'[m] = Root
    BY <1>7, <2>1, <2>3 DEF Lineage
  <2>8. /\ stored'.run # "cancelled" /\ live' = Root /\ objs'[Root] # None
        /\ Root \in Loops /\ None \notin Loops
    BY <1>2, <1>7, <2>2, <2>3, Facts
  <2> QED BY <2>6, <2>7, <2>8 DEF Lineage
<1> QED BY <1>3, <1>6, <1>8, <1>9, <1>10 DEF WInv

\* A verb rewrites the object, saves it, and begins no loop.
LEMMA VerbKeeps ==
  ASSUME WInv, NEW p, p \in RunObject, p.run # "queued", Sound(p)', Tame(Current, p, {}),
         ~TerminalRun(Current.run), Rewrite(p), stored' = p,
         live' = live \/ (live' = None /\ TerminalRun(p.run)),
         decisions \subseteq decisions', decisions' \subseteq Nodes \X Decisions,
         ended' \in RunStates \cup {None}, pauses' \in 0..MaxPauses,
         aborted' \in [Loops -> BOOLEAN],
         UNCHANGED <<def, pc, of, fly, ctrl, starts, crashes>>
  PROVE  WInv'
<1>1. PICK k \in Loops : live # None => k = live
  BY Facts
<1>2. /\ live = None => objs' = objs
      /\ live # None => objs' = [objs EXCEPT ![k] = p]
      /\ p # None
  BY <1>1, Facts DEF Rewrite
<1>3. /\ Sound(stored)'
      /\ \A m \in Loops : objs'[m] # None => Sound(objs[m])'
      /\ objs' \in [Loops -> RunObject \cup {None}] /\ stored' \in RunObject
  BY <1>2, SoundKeeps
<1>4. TypeOK'
  BY <1>3, TypeKeeps DEF WInv, TypeOK
<1>5. /\ live # None => objs'[k] = p
      /\ \A m \in Loops : objs'[m] = p \/ objs'[m] = objs[m]
  BY <1>2 DEF WInv, TypeOK
<1>6. Control'
  <2>1. live' # None => objs'[live'] = p BY <1>1, <1>5
  <2>2. ASSUME NEW m \in Loops
        PROVE  /\ pc'[m] # "idle" => objs'[of'[m]] # None /\ objs'[of'[m]].run # "queued"
               /\ fly'[m] # {} => pc'[m] = "tick"
    <3>1. of[m] \in Loops BY Facts
    <3> QED BY <1>2, <1>5, <3>1 DEF WInv, Control
  <2> QED BY <1>2, <2>1, <2>2 DEF Control
<1>7. Rest' BY <1>1, <1>5 DEF Rest
<1>8. ASSUME crashes' = 0 PROVE Lineage'
  <2>1. Lineage /\ crashes = 0 BY <1>8 DEF WInv
  <2>2. live = Root BY <2>1 DEF Lineage, Current
  <2>3. k = Root /\ Current = objs[Root] /\ Root \in Loops /\ None \notin Loops
    BY <1>1, <2>2, Facts DEF Current
  <2>4. PICK o : o = objs[Root] OBVIOUS
  <2>5. Counted(p)' BY <2>1, <2>3, <2>4, CountedKeeps DEF Lineage
  <2>6. objs'[Root] = p BY <1>5, <2>2, <2>3
  <2>7. Counted(objs[Root])' BY <2>5, <2>6 DEF Counted
  <2>8. live' \in {Root, None} /\ (live' = None => TerminalRun(stored'.run))
    BY <2>2, <2>3
  <2> QED BY <1>2, <2>1, <2>6, <2>7, <2>8 DEF Lineage
<1> QED BY <1>3, <1>4, <1>6, <1>7, <1>8 DEF WInv

\* A decision that only reaches the record.
LEMMA RecordKeeps ==
  ASSUME WInv, decisions \subseteq decisions', decisions' \subseteq Nodes \X Decisions,
         UNCHANGED <<def, objs, live, stored, pc, of, fly, ctrl, aborted, ended, starts,
                     pauses, crashes>>
  PROVE  WInv'
<1>1. TypeOK' BY TypeKeeps DEF WInv, TypeOK, RunObject
<1>2. Sound(stored)' /\ \A l \in Loops : objs'[l] # None => Sound(objs[l])'
  BY DEF WInv, Sound, OneWaits, Approved, Nodes
<1>3. Control' /\ Rest' BY DEF WInv, Control, Rest, Idle
<1>4. crashes' = 0 => Lineage'
  BY DEF WInv, Lineage, Counted, Work, Nodes
<1> QED BY <1>1, <1>2, <1>3, <1>4 DEF WInv

\* A loop starts the nodes that are ready.
LEMMA StartTickKeeps ==
  ASSUME WInv, NEW l \in Loops, StartTick(l)
  PROVE  WInv'
<1>1. PICK k \in Loops, o \in RunObject : k = of[l] /\ o = objs[k] /\ pc[l] = "top"
  BY Facts DEF StartTick
<1>2. Sound(o) /\ o.run # "queued" /\ fly[l] = {}
  BY <1>1, Facts DEF WInv, Control
<1> DEFINE q == Refreshed(o)
           ready == ReadyNodes(q)
<1>3. PICK taken :
        /\ objs' = [objs EXCEPT ![k] = AllStarted(q, ready, taken).obj]
        /\ fly' = [fly EXCEPT ![l] = AllStarted(q, ready, taken).fly]
        /\ Report(AllStarted(q, ready, taken).obj)
  BY <1>1 DEF StartTick
<1>4. /\ starts' = [n \in Nodes |-> starts[n] + (IF n \in ready THEN 1 ELSE 0)]
      /\ ctrl' = l
      /\ aborted' = [aborted EXCEPT ![l] = FALSE]
      /\ pc' = [pc EXCEPT ![l] = "tick"]
      /\ UNCHANGED <<def, live, stored, of, decisions, pauses, crashes>>
      /\ q.run = "running"
  BY <1>1, Zenon DEF StartTick
<1>5. /\ Moves(o, q, {}) /\ q \in RunObject
      /\ \A n \in Nodes : q.node[n] # o.node[n] => o.node[n] = "pending"
      /\ ready \in SUBSET Nodes /\ \A n \in ready : q.node[n] = "ready"
  BY RefreshedMoves DEF Moves, ReadyNodes
<1>6. \A n \in ready : o.node[n] \in {"pending", "ready"} BY <1>5
<1>7. PICK p, f : p = AllStarted(q, ready, taken).obj /\ f = AllStarted(q, ready, taken).fly
  OBVIOUS
<1>8. Defined BY Facts
<1> HIDE DEF q, ready
<1>9. /\ Moves(q, p, {}) /\ f \subseteq ready
      /\ \A n \in ready \cap Work : p.node[n] \in {"running", "cancelled"}
  BY <1>5, <1>7, <1>8, TickMoves
<1>10. Moves(o, p, {}) BY <1>5, <1>9, MovesOn
<1>11. p \in RunObject /\ Sound(p)' /\ Tame(o, p, {}) /\ p # None /\ p.run # "queued"
  <2>1. p \in RunObject /\ Sound(p)' /\ Tame(o, p, {})
    BY <1>2, <1>4, <1>10, SoundMoves
  <2> QED BY <1>2, <2>1, Facts DEF Tame
<1>12. /\ Sound(stored)'
       /\ \A m \in Loops : objs'[m] # None => Sound(objs[m])'
       /\ objs' \in [Loops -> RunObject \cup {None}] /\ stored' \in RunObject
  BY <1>3, <1>4, <1>7, <1>11, SoundKeeps
<1>13. TypeOK'
  <2>1. ended' \in RunStates \cup {None} BY <1>3, <1>7, <1>11, ReportType
  <2>2. starts' \in [Nodes -> Nat]
    BY <1>4 DEF WInv, TypeOK
  <2>3. fly' \in [Loops -> SUBSET Nodes]
    BY <1>3, <1>5, <1>7, <1>9 DEF WInv, TypeOK
  <2>4. aborted' \in [Loops -> BOOLEAN]
    BY <1>4 DEF WInv, TypeOK
  <2>5. pc' \in [Loops -> {"idle", "top", "tick"}]
    BY <1>4 DEF WInv, TypeOK
  <2>6. ctrl' \in Loops \cup {None} BY <1>4
  <2>7. UNCHANGED <<def, live, of, decisions, pauses, crashes>> BY <1>4
  <2> HIDE <1>4
  <2> QED BY <1>12, <2>1, <2>2, <2>3, <2>4, <2>5, <2>6, <2>7, TypeKeeps DEF WInv, TypeOK
<1>14. /\ objs'[k] = p /\ fly'[l] = f /\ pc'[l] = "tick"
       /\ \A m \in Loops : m # k => objs'[m] = objs[m]
       /\ \A m \in Loops : m # l => pc'[m] = pc[m] /\ fly'[m] = fly[m]
       /\ UNCHANGED <<def, live, stored, of, decisions, pauses, crashes>>
  BY <1>1, <1>3, <1>4, <1>7 DEF WInv, TypeOK
<1>15. ~Idle BY <1>1 DEF Idle
<1>16. Control'
  <2>1. live' # None => objs'[live'] # None /\ objs'[live'].run # "queued"
    BY <1>11, <1>14, <1>15, Facts DEF WInv, Control
  <2>2. ASSUME NEW m \in Loops
        PROVE  /\ pc'[m] # "idle" => objs'[of'[m]] # None /\ objs'[of'[m]].run # "queued"
               /\ fly'[m] # {} => pc'[m] = "tick"
    <3>1. of[m] \in Loops /\ (pc'[m] # "idle" => pc[m] # "idle") BY <1>1, <1>14, Facts
    <3>2. objs'[of[m]] = p \/ objs'[of[m]] = objs[of[m]] BY <1>14, <3>1
    <3> QED BY <1>11, <1>14, <3>1, <3>2 DEF WInv, Control
  <2> QED BY <2>1, <2>2 DEF Control
<1>17. Rest' BY <1>14 DEF Rest, Idle
<1>18. ASSUME crashes' = 0 PROVE Lineage'
  <2>1. Lineage /\ crashes = 0 BY <1>14, <1>18 DEF WInv
  <2>2. k = Root BY <1>1, <2>1 DEF Lineage
  <2>3. Counted(o) BY <1>1, <2>1, <2>2 DEF Lineage
  <2>4. Counted(p)'
    <3>1. Work' = Work BY <1>14 DEF Work, Nodes
    <3>2. ASSUME NEW n \in Work
          PROVE  /\ starts'[n] <= 1
                 /\ p.node[n] \in {"pending", "ready"} => starts'[n] = 0
                 /\ \A m \in Loops : n \in fly'[m] =>
                      /\ p.node[n] \in {"running", "cancelled"}
                      /\ \A j \in Loops : n \in fly'[j] => j = m
      <4>1. n \in Nodes /\ starts[n] \in Nat BY DEF Work, WInv, TypeOK
      <4>2. starts'[n] = starts[n] + (IF n \in ready THEN 1 ELSE 0)
        BY <1>4, <4>1
      <4>3. CASE n \in ready
        <5>1. starts[n] = 0 /\ \A m \in Loops : n \notin fly[m]
          BY <1>6, <2>3, <4>3 DEF Counted
        <5>2. p.node[n] \in {"running", "cancelled"} BY <1>9, <4>3
        <5> QED BY <1>14, <4>2, <4>3, <5>1, <5>2
      <4>4. CASE n \notin ready
        <5>1. starts'[n] = starts[n] BY <4>1, <4>2, <4>4
        <5>2. \A m \in Loops : n \in fly'[m] => n \in fly[m]
          BY <1>9, <1>14, <4>4
        <5>3. /\ p.node[n] \in {"pending", "ready"} => o.node[n] \in {"pending", "ready"}
              /\ o.node[n] \in {"running", "cancelled"} =>
                   p.node[n] \in {"running", "cancelled"}
          BY <1>11, <2>1 DEF Tame
        <5>4. /\ starts[n] <= 1
              /\ o.node[n] \in {"pending", "ready"} => starts[n] = 0
              /\ \A m \in Loops : n \in fly[m] =>
                   /\ o.node[n] \in {"running", "cancelled"}
                   /\ \A j \in Loops : n \in fly[j] => j = m
          BY <2>3 DEF Counted
        <5> QED BY <5>1, <5>2, <5>3, <5>4
      <4> QED BY <4>3, <4>4
    <3> QED BY <3>1, <3>2 DEF Counted
  <2>5. Counted(objs[Root])' BY <1>14, <2>2, <2>4 DEF Counted
  <2>6. stored'.run = "cancelled" => objs'[Root].run = "cancelled"
    BY <1>1, <1>11, <1>14, <2>1, <2>2 DEF Lineage, Tame
  <2>7. \A m \in Loops : pc'[m] # "idle" => of'[m] = Root
    BY <1>1, <1>14, <2>1 DEF Lineage
  <2> QED BY <1>11, <1>14, <2>1, <2>2, <2>5, <2>6, <2>7 DEF Lineage
<1> QED BY <1>12, <1>13, <1>16, <1>17, <1>18 DEF WInv

LEMMA CrashKeeps ==
  ASSUME WInv, Crash
  PROVE  WInv'
<1>1. /\ crashes' = crashes + 1 /\ crashes < MaxCrashes
      /\ live' = None /\ ctrl' = None /\ ended' = None
      /\ objs' = [l \in Loops |-> None]
      /\ pc' = [l \in Loops |-> "idle"]
      /\ fly' = [l \in Loops |-> {}]
      /\ aborted' = [l \in Loops |-> FALSE]
      /\ UNCHANGED <<def, stored, of, decisions, starts, pauses>>
  BY DEF Crash
<1>2. crashes' \in 0..MaxCrashes /\ crashes' # 0
  BY <1>1, BoundsAssumption DEF WInv, TypeOK
<1>3. TypeOK'
  <2>1. aborted' \in [Loops -> BOOLEAN] BY <1>1
  <2>2. /\ live' = None /\ ctrl' = None /\ ended' = None
        /\ objs' \in [Loops -> RunObject \cup {None}]
        /\ pc' \in [Loops -> {"idle", "top", "tick"}]
        /\ fly' \in [Loops -> SUBSET Nodes]
        /\ UNCHANGED <<def, stored, of, decisions, starts, pauses>>
    BY <1>1
  <2> QED BY <1>2, <2>1, <2>2, TypeKeeps DEF WInv, TypeOK, RunObject
<1>4. /\ \A l \in Loops : objs'[l] = None /\ pc'[l] = "idle" /\ fly'[l] = {}
      /\ live' = None /\ UNCHANGED <<def, stored, decisions>>
  BY <1>1
<1>5. Sound(stored)'
  BY <1>4 DEF WInv, Sound, OneWaits, Approved, Nodes
<1>6. Control' /\ Rest' BY <1>4 DEF Control, Rest
<1> QED BY <1>2, <1>3, <1>4, <1>5, <1>6 DEF WInv

-----------------------------------------------------------------------------
\* The run as startRun leaves it.
LEMMA InitKeeps ==
  ASSUME Init
  PROVE  WInv
<1>1. Defined /\ Root \in Loops /\ live = Root /\ None \notin Loops
  BY LoopsAssumption, NoneAssumption DEF Init, Defined, Root
<1> DEFINE f == [n \in Nodes |-> IF def.deps[n] = {} THEN "ready" ELSE "pending"]
<1>2. /\ NewRun \in RunObject /\ NewRun.run = "queued"
      /\ \A n \in Nodes : NewRun.node[n] \in {"ready", "pending"}
  <2>1. /\ "queued" \in RunStates /\ f \in [Nodes -> NodeStates]
        /\ [n \in Nodes |-> 0] \in [Nodes -> Nat]
    BY States
  <2>2. NewRun = [run |-> "queued", node |-> f, attempt |-> [n \in Nodes |-> 0]]
    BY DEF NewRun
  <2>3. \A n \in Nodes : f[n] \in {"ready", "pending"} OBVIOUS
  <2> HIDE DEF f
  <2> QED BY <2>1, <2>2, <2>3, Built
<1>3. NewRun # None BY <1>1, <1>2, NoneAssumption DEF Defined, RunObject, Nodes
<1>4. PICK o \in RunObject : o = NewRun BY <1>2
<1>5. /\ o.run = "queued" /\ o # None
      /\ \A n \in Nodes : o.node[n] \in {"ready", "pending"}
  BY <1>2, <1>3, <1>4
<1>6. /\ stored = o
      /\ objs = [l \in Loops |-> IF l = live THEN o ELSE None]
      /\ pc = [l \in Loops |-> "idle"] /\ of = [l \in Loops |-> l]
      /\ fly = [l \in Loops |-> {}] /\ ctrl = None
      /\ aborted = [l \in Loops |-> FALSE]
      /\ decisions = {} /\ ended = None
      /\ starts = [n \in Nodes |-> 0] /\ pauses = 0 /\ crashes = 0
  BY <1>4 DEF Init
<1>7. /\ objs[Root] = o /\ stored = o
      /\ \A l \in Loops : /\ pc[l] = "idle" /\ fly[l] = {}
                          /\ objs[l] # None => objs[l] = o
  BY <1>1, <1>6
<1>8. TypeOK
  <2>1. aborted \in [Loops -> BOOLEAN] BY <1>6
  <2>2. pauses \in 0..MaxPauses /\ crashes \in 0..MaxCrashes
    BY <1>6, BoundsAssumption
  <2>3. starts \in [Nodes -> Nat] BY <1>6
  <2>4. /\ def \in Definitions /\ live \in Loops \cup {None} /\ stored \in RunObject
        /\ objs \in [Loops -> RunObject \cup {None}]
        /\ pc \in [Loops -> {"idle", "top", "tick"}] /\ of \in [Loops -> Loops]
        /\ fly \in [Loops -> SUBSET Nodes] /\ ctrl \in Loops \cup {None}
        /\ decisions \subseteq Nodes \X Decisions /\ ended \in RunStates \cup {None}
    BY <1>1, <1>6 DEF Defined
  <2> QED BY <2>1, <2>2, <2>3, <2>4 DEF TypeOK, RunObject
<1>9. Sound(o)
  BY <1>5 DEF Sound, OneWaits, Approved, Waiting, Over
<1>10. Idle BY <1>7 DEF Idle
<1>11. Lineage
  <2>1. \A n \in Work : starts[n] = 0 BY <1>6 DEF Work
  <2>2. Counted(objs[Root]) BY <1>7, <2>1 DEF Counted
  <2> QED BY <1>1, <1>5, <1>7, <2>2 DEF Lineage
<1> QED BY <1>1, <1>5, <1>7, <1>8, <1>9, <1>10, <1>11 DEF WInv, Control, Rest

\* An object that is left as it is moves nowhere.
LEMMA StaysMoves ==
  ASSUME NEW o \in RunObject
  PROVE  Moves(o, o, {})
BY DEF Moves, Tame

LEMMA StopAdvancingKeeps ==
  ASSUME WInv, NEW l \in Loops, StopAdvancing(l)
  PROVE  WInv'
<1>1. PICK o : o = objs[of[l]] OBVIOUS
<1>2. pc[l] = "top" /\ o \in RunObject /\ Sound(o)
  BY <1>1, Facts DEF StopAdvancing
<1>3. fly[l] = {} BY <1>2 DEF WInv, Control
<1>4. \E p : Moves(o, p, {}) /\ Finish(l, p)
  <2>1. CASE o.run # "running"
    BY <1>1, <1>2, <2>1, StaysMoves DEF StopAdvancing
  <2>2. CASE o.run = "running"
    <3>1. Finish(l, Recomputed(Refreshed(o)))
      BY <1>1, <2>2 DEF StopAdvancing
    <3>2. PICK q : q = Refreshed(o) OBVIOUS
    <3>3. Moves(o, q, {}) BY <1>2, <3>2, RefreshedMoves
    <3>4. q \in RunObject /\ OneWaits(q) BY <1>2, <3>3 DEF Moves, Sound
    <3>5. Moves(q, Recomputed(q), {}) BY <3>4, RecomputedMoves
    <3>6. Moves(o, Recomputed(q), {}) BY <3>3, <3>5, MovesOn
    <3> QED BY <3>1, <3>2, <3>6
  <2> QED BY <2>1, <2>2
<1>5. PICK p : Moves(o, p, {}) /\ Finish(l, p) BY <1>4
<1>6. UNCHANGED <<def, of, fly, ctrl, aborted, decisions, starts, pauses, crashes>>
  BY DEF StopAdvancing
<1>7. ctrl' \in Loops \cup {None} BY <1>6 DEF WInv, TypeOK
<1> QED BY <1>1, <1>2, <1>3, <1>5, <1>6, <1>7, FinishKeeps

LEMMA EndTickKeeps ==
  ASSUME WInv, NEW l \in Loops, EndTick(l)
  PROVE  WInv'
<1>1. PICK o : o = objs[of[l]] OBVIOUS
<1>2. PICK p : p = Recomputed(o) OBVIOUS
<1>3. /\ pc[l] = "tick" /\ fly[l] = {} /\ ctrl' = None
      /\ UNCHANGED <<def, of, fly, aborted, decisions, starts, pauses, crashes>>
      /\ \/ Finish(l, p)
         \/ /\ objs' = [objs EXCEPT ![of[l]] = p]
            /\ pc' = [pc EXCEPT ![l] = "top"]
            /\ Report(p)
            /\ UNCHANGED <<live, stored>>
  BY <1>1, <1>2 DEF EndTick
<1>4. o \in RunObject /\ Sound(o) BY <1>1, <1>3, Facts
<1>5. Moves(o, p, {}) BY <1>2, <1>4, RecomputedMoves DEF Sound
<1>6. CASE Finish(l, p)
  BY <1>1, <1>3, <1>5, <1>6, FinishKeeps
<1>7. CASE /\ objs' = [objs EXCEPT ![of[l]] = p]
           /\ pc' = [pc EXCEPT ![l] = "top"]
           /\ Report(p)
           /\ UNCHANGED <<live, stored>>
  <2>1. p \in RunObject /\ Sound(p)' /\ Tame(o, p, {})
    BY <1>3, <1>4, <1>5, SoundMoves
  <2>2. fly' \in [Loops -> SUBSET Nodes] /\ fly' = fly BY <1>3 DEF WInv, TypeOK
  <2>3. \A m \in Loops : fly'[m] \subseteq fly[m] /\ fly'[m] \cap {} = {}
    BY <2>2
  <2> QED BY <1>1, <1>3, <1>7, <2>1, <2>2, <2>3, GoesOnKeeps
<1> QED BY <1>3, <1>6, <1>7

\* A node in flight settles: its own state changes, and waits for nobody.
LEMMA SettleKeeps ==
  ASSUME WInv, NEW l \in Loops, NEW n \in fly[l], NEW p, NEW X,
         Settle(l, n, p), Moves(objs[of[l]], p, X),
         X = {} \/ (X = {n} /\ n \in Work)
  PROVE  WInv'
<1>1. PICK o : o = objs[of[l]] OBVIOUS
<1>2. /\ objs' = [objs EXCEPT ![of[l]] = p]
      /\ fly' = [fly EXCEPT ![l] = @ \ {n}]
      /\ Report(p)
      /\ UNCHANGED <<def, live, stored, pc, of, ctrl, aborted, decisions, starts,
                     pauses, crashes>>
  BY DEF Settle
<1>3. pc[l] = "tick" BY DEF WInv, Control
<1>4. o \in RunObject /\ Sound(o) BY <1>1, <1>3, Facts
<1>5. p \in RunObject /\ Sound(p)' /\ Tame(o, p, X)
  BY <1>1, <1>2, <1>4, SoundMoves
<1>6. fly' \in [Loops -> SUBSET Nodes] /\ ctrl' \in Loops \cup {None}
  BY <1>2 DEF WInv, TypeOK
<1>7. ASSUME NEW m \in Loops
      PROVE  fly'[m] \subseteq fly[m] /\ (crashes = 0 => fly'[m] \cap X = {})
  <2>1. fly'[m] = IF m = l THEN fly[m] \ {n} ELSE fly[m]
    BY <1>2 DEF WInv, TypeOK
  <2>2. crashes = 0 /\ X = {n} => (m # l => n \notin fly[m])
    BY DEF WInv, Lineage, Counted
  <2> QED BY <2>1, <2>2
<1> QED BY <1>1, <1>2, <1>3, <1>5, <1>6, <1>7, GoesOnKeeps

LEMMA WorkReturnsKeeps ==
  ASSUME WInv, NEW l \in Loops, NEW n \in Nodes, NEW ok \in BOOLEAN, WorkReturns(l, n, ok)
  PROVE  WInv'
<1>1. PICK o : o = objs[of[l]] OBVIOUS
<1>2. PICK p : p = IF o.node[n] = "running"
                   THEN Put(o, n, IF ok THEN "completed" ELSE "failed")
                   ELSE Caught(o, n, aborted[l])
  OBVIOUS
<1>3. n \in fly[l] /\ n \in Work /\ Settle(l, n, p)
  BY <1>1, <1>2 DEF WorkReturns, Work
<1>4. o \in RunObject BY <1>1, <1>3, Facts DEF WInv, Control
<1>5. /\ p \in RunObject /\ p.run = o.run
      /\ \A m \in Nodes \ {n} : p.node[m] = o.node[m]
      /\ p.node[n] \notin Waiting
      /\ o.node[n] \in {"running", "cancelled"} =>
           p.node[n] \in {"completed", "failed", "cancelled"}
  <2>1. CASE o.node[n] = "running"
    <3>1. PICK s \in {"completed", "failed"} : p = Put(o, n, s)
      BY <1>2, <2>1
    <3>2. s \in NodeStates /\ s \notin Waiting BY States DEF Waiting
    <3> QED BY <1>4, <3>1, <3>2, PutFields
  <2>2. CASE o.node[n] # "running"
    <3>1. p = Caught(o, n, aborted[l]) BY <1>2, <2>2
    <3>2. aborted[l] \in BOOLEAN BY DEF WInv, TypeOK
    <3>3. CaughtFrom(o, n, p) BY <1>4, <3>1, <3>2, CaughtMoves
    <3> QED BY <2>2, <3>3 DEF CaughtFrom
  <2> QED BY <2>1, <2>2
<1>6. OneWaits(o) => OneWaits(p) BY <1>5, FewerWait DEF Waiting
<1>7. crashes = 0 => o.node[n] \in {"running", "cancelled"}
  <2>1. ASSUME crashes = 0 PROVE of[l] = Root
    BY <1>3, <2>1 DEF WInv, Control, Lineage
  <2> QED BY <1>1, <1>3, <2>1 DEF WInv, Lineage, Counted
<1>8. def.kind[n] \notin HumanKinds BY <1>3 DEF Work, HumanKinds
<1>9. Tame(o, p, {n}) BY <1>5, <1>7 DEF Tame, Work
<1>10. Moves(o, p, {n}) BY <1>5, <1>6, <1>8, <1>9 DEF Moves
<1> QED BY <1>1, <1>3, <1>10, SettleKeeps

LEMMA TimerReturnsKeeps ==
  ASSUME WInv, NEW l \in Loops, NEW n \in Nodes, TimerReturns(l, n)
  PROVE  WInv'
<1>1. PICK o : o = objs[of[l]] OBVIOUS
<1>2. PICK p : p = IF o.node[n] = "waiting_timer"
                   THEN Put(o, n, IF aborted[l] THEN "cancelled" ELSE "completed")
                   ELSE Caught(o, n, aborted[l])
  OBVIOUS
<1>3. n \in fly[l] /\ def.kind[n] = "wait_timer" /\ Settle(l, n, p)
  BY <1>1, <1>2 DEF TimerReturns
<1>4. o \in RunObject BY <1>1, <1>3, Facts DEF WInv, Control
<1>5. /\ p \in RunObject /\ p.run = o.run
      /\ \A m \in Nodes \ {n} : p.node[m] = o.node[m]
      /\ p.node[n] \notin Waiting
  <2>1. CASE o.node[n] = "waiting_timer"
    <3>1. PICK s \in {"completed", "cancelled"} : p = Put(o, n, s)
      BY <1>2, <2>1
    <3>2. s \in NodeStates /\ s \notin Waiting BY States DEF Waiting
    <3> QED BY <1>4, <3>1, <3>2, PutFields
  <2>2. CASE o.node[n] # "waiting_timer"
    <3>1. p = Caught(o, n, aborted[l]) BY <1>2, <2>2
    <3>2. aborted[l] \in BOOLEAN BY DEF WInv, TypeOK
    <3>3. CaughtFrom(o, n, p) BY <1>4, <3>1, <3>2, CaughtMoves
    <3> QED BY <3>3 DEF CaughtFrom
  <2> QED BY <2>1, <2>2
<1>6. OneWaits(o) => OneWaits(p) BY <1>5, FewerWait DEF Waiting
<1>7. n \notin Work /\ def.kind[n] \notin HumanKinds
  BY <1>3 DEF Work, HumanKinds
<1>8. Moves(o, p, {}) BY <1>5, <1>6, <1>7 DEF Moves, Tame, Work
<1> QED BY <1>1, <1>3, <1>8, SettleKeeps

\* The verbs.
LEMMA ExecuteKeeps ==
  ASSUME WInv, NEW l \in Loops, Execute(l)
  PROVE  WInv'
<1>1. PICK o : o = objs[live] OBVIOUS
<1>2. PICK p : p = [o EXCEPT !.run = "running"] OBVIOUS
<1>3. /\ Quiet /\ l = live /\ o.run = "queued"
      /\ Begin(l, p) /\ stored' = p
      /\ UNCHANGED <<def, live, fly, ctrl, decisions, ended, starts, pauses, crashes>>
  BY <1>1, <1>2 DEF Execute
<1>4. live # None /\ o \in RunObject /\ Current = o
  BY <1>1, <1>3, Facts DEF Current
<1>5. Sound(o) BY <1>4, CurrentFacts
<1>6. pc[l] = "idle" BY <1>1, <1>3, <1>4 DEF WInv, Control, Idle
<1>7. "running" \in RunStates \ {"queued"} BY States
<1>8. Moves(o, p, {}) /\ p.run = "running"
  BY <1>2, <1>3, <1>4, <1>7, RunMoves, WithRun DEF canAcceptHumanInput
<1>9. p \in RunObject /\ Sound(p)' /\ Tame(Current, p, {})
  BY <1>3, <1>4, <1>5, <1>8, SoundMoves
<1>10. ~TerminalRun(Current.run) BY <1>3, <1>4 DEF TerminalRun
<1>11. /\ decisions \subseteq decisions' /\ decisions' \subseteq Nodes \X Decisions
       /\ ended' \in RunStates \cup {None} /\ pauses' \in 0..MaxPauses
  BY <1>3 DEF WInv, TypeOK
<1> QED BY <1>3, <1>6, <1>8, <1>9, <1>10, <1>11, BeginKeeps

LEMMA resumeRunKeeps ==
  ASSUME WInv, NEW l \in Loops, resumeRun(l)
  PROVE  WInv'
<1>1. PICK o : o = Current OBVIOUS
<1>2. PICK p : p = [o EXCEPT !.run = "running"] OBVIOUS
<1>3. /\ Free(l) /\ o.run = "paused"
      /\ Begin(l, p) /\ stored' = p
      /\ UNCHANGED <<def, live, fly, ctrl, decisions, ended, starts, pauses, crashes>>
  BY <1>1, <1>2 DEF resumeRun
<1>4. o \in RunObject /\ Sound(o) BY <1>1, CurrentFacts
<1>5. "running" \in RunStates \ {"queued"} BY States
<1>6. Moves(o, p, {}) /\ p.run = "running"
  BY <1>2, <1>3, <1>4, <1>5, RunMoves, WithRun DEF canAcceptHumanInput
<1>7. p \in RunObject /\ Sound(p)' /\ Tame(Current, p, {})
  BY <1>1, <1>3, <1>4, <1>6, SoundMoves
<1>8. ~TerminalRun(Current.run) BY <1>1, <1>3 DEF TerminalRun
<1>9. /\ decisions \subseteq decisions' /\ decisions' \subseteq Nodes \X Decisions
      /\ ended' \in RunStates \cup {None} /\ pauses' \in 0..MaxPauses
  BY <1>3 DEF WInv, TypeOK
<1> QED BY <1>3, <1>6, <1>7, <1>8, <1>9, BeginKeeps

LEMMA pauseRunKeeps ==
  ASSUME WInv, pauseRun
  PROVE  WInv'
<1>1. PICK o : o = Current OBVIOUS
<1>2. PICK p : p = [o EXCEPT !.run = "paused"] OBVIOUS
<1>3. /\ pauses < MaxPauses /\ canPause(o.run)
      /\ Rewrite(p) /\ stored' = p /\ pauses' = pauses + 1
      /\ UNCHANGED <<def, live, pc, of, fly, ctrl, aborted, decisions, ended, starts,
                     crashes>>
  BY <1>1, <1>2 DEF pauseRun
<1>4. o \in RunObject /\ Sound(o) BY <1>1, CurrentFacts
<1>5. "paused" \in RunStates \ {"queued"} BY States
<1>6. Moves(o, p, {}) /\ p.run = "paused"
  BY <1>2, <1>3, <1>4, <1>5, RunMoves, WithRun DEF canAcceptHumanInput, canPause
<1>7. p \in RunObject /\ Sound(p)' /\ Tame(Current, p, {})
  BY <1>1, <1>3, <1>4, <1>6, SoundMoves
<1>8. ~TerminalRun(Current.run) BY <1>1, <1>3 DEF TerminalRun, canPause
<1>9. /\ decisions \subseteq decisions' /\ decisions' \subseteq Nodes \X Decisions
      /\ ended' \in RunStates \cup {None}
  BY <1>3 DEF WInv, TypeOK
<1>10. aborted' \in [Loops -> BOOLEAN] BY <1>3 DEF WInv, TypeOK
<1>11. pauses' \in 0..MaxPauses BY <1>3, BoundsAssumption DEF WInv, TypeOK
<1> QED BY <1>3, <1>6, <1>7, <1>8, <1>9, <1>10, <1>11, VerbKeeps

LEMMA cancelRunKeeps ==
  ASSUME WInv, cancelRun
  PROVE  WInv'
<1>1. PICK o : o = Current OBVIOUS
<1>2. PICK p : p = [o EXCEPT
                     !.run = "cancelled",
                     !.node = [n \in Nodes |->
                       IF o.node[n] \notin {"completed", "cancelled", "skipped", "failed"}
                          /\ NodeCan(o.node[n], "cancel")
                       THEN "cancelled" ELSE o.node[n]]]
  OBVIOUS
<1>3. /\ canCancel(o.run)
      /\ Rewrite(p) /\ stored' = p /\ Report(p)
      /\ \/ live' = None /\ aborted' = aborted
         \/ ctrl # None /\ aborted' = [aborted EXCEPT ![ctrl] = TRUE] /\ live' = live
      /\ UNCHANGED <<def, pc, of, fly, ctrl, decisions, starts, pauses, crashes>>
  BY <1>1, <1>2, Zenon DEF cancelRun
<1>4. o \in RunObject /\ Sound(o) BY <1>1, CurrentFacts
<1>5. Moves(o, p, {}) /\ p.run = "cancelled"
  BY <1>2, <1>4, CancelMoves
<1>6. p \in RunObject /\ Sound(p)' /\ Tame(Current, p, {})
  BY <1>1, <1>3, <1>4, <1>5, SoundMoves
<1>7. ~TerminalRun(Current.run) BY <1>1, <1>3 DEF TerminalRun, canCancel
<1>8. /\ decisions \subseteq decisions' /\ decisions' \subseteq Nodes \X Decisions
      /\ pauses' \in 0..MaxPauses
  BY <1>3 DEF WInv, TypeOK
<1>9. ended' \in RunStates \cup {None} BY <1>3, <1>6, ReportType
<1>10. aborted' \in [Loops -> BOOLEAN]
  <2>1. aborted \in [Loops -> BOOLEAN] BY DEF WInv, TypeOK
  <2> QED BY <1>3, <2>1
<1>11. live' = live \/ (live' = None /\ TerminalRun(p.run))
  BY <1>3, <1>5 DEF TerminalRun
<1> QED BY <1>3, <1>5, <1>6, <1>7, <1>8, <1>9, <1>10, <1>11, VerbKeeps

\* A decision moves its node out of the wait, to "completed" only when it approves.
LEMMA DecidedSound ==
  ASSUME NEW o \in RunObject, Sound(o), canAcceptHumanInput(o.run),
         NEW n \in Nodes, o.node[n] \in Waiting, NEW d \in Decisions, NEW p,
         p = [Put(o, n, Decided(n, d).node) EXCEPT
               !.run = RunEventMap[o.run][Decided(n, d).event]],
         def' = def, decisions' = decisions \cup {<<n, d>>}
  PROVE  /\ p \in RunObject /\ Sound(p)' /\ Tame(o, p, {})
         /\ p.run \in {"running", "failed", "expired"}
<1>1. PICK s, e : s = Decided(n, d).node /\ e = Decided(n, d).event OBVIOUS
<1>2. /\ s \in {"completed", "failed", "expired"}
      /\ s = "completed" => d = "approved"
      /\ e \in {"resume", "fail", "expire"}
  <2>1. CASE d = "approved" BY <1>1, <2>1 DEF Decided
  <2>2. CASE d = "denied" BY <1>1, <2>2 DEF Decided
  <2>3. CASE d = "changes_requested" BY <1>1, <2>3 DEF Decided
  <2>4. CASE d = "rejected" BY <1>1, <2>4 DEF Decided
  <2>5. CASE d = "expired" BY <1>1, <2>5 DEF Decided
  <2> QED BY <2>1, <2>2, <2>3, <2>4, <2>5 DEF Decisions
<1>3. PICK r : r = RunEventMap[o.run][e] OBVIOUS
<1>4. r \in {"running", "failed", "expired"} /\ r \in RunStates
  <2>1. o.run \in RunStates BY Fields
  <2>2. r \in {"running", "failed", "expired"} BY <1>2, <1>3, <2>1, RunTable
  <2> QED BY <2>2, States
<1>5. PICK q : q = Put(o, n, s) OBVIOUS
<1>6. /\ q \in RunObject /\ q.node[n] = s
      /\ \A m \in Nodes \ {n} : q.node[m] = o.node[m]
  <2>1. s \in NodeStates BY <1>2, States
  <2> QED BY <1>5, <2>1, PutFields
<1>7. p = [q EXCEPT !.run = r] BY <1>1, <1>3, <1>5
<1>8. p \in RunObject /\ p.run = r /\ p.node = q.node
  BY ONLY <1>4, <1>6, <1>7, WithRun
<1>9. \A m \in Nodes : p.node[m] \notin Waiting
  BY <1>2, <1>6, <1>8 DEF Sound, OneWaits, Waiting
<1>10. \A m \in Nodes : def.kind[m] \in HumanKinds /\ p.node[m] \in Over =>
          <<m, "approved">> \in decisions'
  <2>1. ASSUME NEW m \in Nodes, def.kind[m] \in HumanKinds, p.node[m] \in Over
        PROVE  <<m, "approved">> \in decisions'
    <3>1. CASE m = n BY <1>2, <1>6, <1>8, <2>1, <3>1 DEF Over
    <3>2. CASE m # n BY <1>6, <1>8, <2>1, <3>2 DEF Sound, Approved
    <3> QED BY <3>1, <3>2
  <2> QED BY <2>1
<1>11. Sound(p)'
  <2>1. Nodes' = Nodes BY DEF Nodes
  <2>2. OneWaits(p)' BY <1>9, <2>1 DEF OneWaits
  <2>3. Approved(p)' BY <1>10, <2>1 DEF Approved
  <2> QED BY <2>2, <2>3 DEF Sound
<1>12. Tame(o, p, {})
  BY <1>2, <1>4, <1>6, <1>8 DEF Tame, Work, Waiting, canAcceptHumanInput
<1> QED BY <1>4, <1>8, <1>11, <1>12

LEMMA submitHumanDecisionKeeps ==
  ASSUME WInv, NEW l \in Loops, NEW n \in Nodes, NEW d \in Decisions,
         submitHumanDecision(l, n, d)
  PROVE  WInv'
<1>1. PICK o : o = Current OBVIOUS
<1>2. PICK p : p = [Put(o, n, Decided(n, d).node) EXCEPT
                     !.run = RunEventMap[o.run][Decided(n, d).event]]
  OBVIOUS
<1>3. /\ Free(l) /\ canAcceptHumanInput(o.run) /\ o.node[n] \in Waiting
      /\ decisions' = decisions \cup {<<n, d>>}
      /\ UNCHANGED <<def, fly, ctrl, starts, pauses, crashes>>
      /\ \/ UNCHANGED <<objs, live, stored, pc, of, aborted, ended>>
         \/ /\ stored' = p /\ Report(p)
            /\ \/ p.run = "running" /\ Begin(l, p) /\ UNCHANGED live
               \/ /\ p.run # "running" /\ Rewrite(p) /\ live' = None
                  /\ UNCHANGED <<pc, of, aborted>>
  BY <1>1, <1>2, Zenon DEF submitHumanDecision, Waiting
<1>4. /\ decisions \subseteq decisions' /\ decisions' \subseteq Nodes \X Decisions
      /\ pauses' \in 0..MaxPauses
  BY <1>3 DEF WInv, TypeOK
<1>5. o \in RunObject /\ Sound(o) BY <1>1, CurrentFacts
<1>6. /\ p \in RunObject /\ Sound(p)' /\ Tame(Current, p, {})
      /\ p.run \in {"running", "failed", "expired"}
  BY <1>1, <1>2, <1>3, <1>5, DecidedSound
<1>7. ~TerminalRun(Current.run)
  BY <1>1, <1>3 DEF TerminalRun, canAcceptHumanInput
<1>8. CASE UNCHANGED <<objs, live, stored, pc, of, aborted, ended>>
  BY <1>3, <1>4, <1>8, RecordKeeps
<1>9. CASE stored' = p /\ Report(p) /\ p.run = "running" /\ Begin(l, p) /\ UNCHANGED live
  <2>1. ended' \in RunStates \cup {None} BY <1>6, <1>9, ReportType
  <2> QED BY <1>3, <1>4, <1>6, <1>7, <1>9, <2>1, BeginKeeps
<1>10. CASE /\ stored' = p /\ Report(p) /\ p.run # "running" /\ Rewrite(p) /\ live' = None
            /\ UNCHANGED <<pc, of, aborted>>
  <2>1. ended' \in RunStates \cup {None} BY <1>6, <1>10, ReportType
  <2>2. TerminalRun(p.run) /\ p.run # "queued" BY <1>6, <1>10 DEF TerminalRun
  <2>3. aborted' \in [Loops -> BOOLEAN] BY <1>10 DEF WInv, TypeOK
  <2> QED BY <1>3, <1>4, <1>6, <1>7, <1>10, <2>1, <2>2, <2>3, VerbKeeps
<1> QED BY <1>3, <1>8, <1>9, <1>10

LEMMA NextKeeps ==
  ASSUME WInv, [Next]_vars
  PROVE  WInv'
<1>1. CASE pauseRun BY <1>1, pauseRunKeeps
<1>2. CASE cancelRun BY <1>2, cancelRunKeeps
<1>3. CASE Crash BY <1>3, CrashKeeps
<1>4. ASSUME NEW l \in Loops, Execute(l) \/ resumeRun(l) PROVE WInv'
  BY <1>4, ExecuteKeeps, resumeRunKeeps
<1>5. ASSUME NEW l \in Loops, Internal(l) PROVE WInv'
  BY <1>5, StopAdvancingKeeps, StartTickKeeps, EndTickKeeps DEF Internal
<1>6. ASSUME NEW l \in Loops, NEW n \in Nodes, Returns(l, n) PROVE WInv'
  BY <1>6, WorkReturnsKeeps, TimerReturnsKeeps DEF Returns
<1>7. ASSUME NEW l \in Loops, NEW n \in Nodes, NEW d \in Decisions,
             submitHumanDecision(l, n, d)
      PROVE  WInv'
  BY <1>7, submitHumanDecisionKeeps
<1>8. CASE UNCHANGED vars
  BY <1>8, RecordKeeps DEF vars, WInv, TypeOK
<1> QED BY <1>1, <1>2, <1>3, <1>4, <1>5, <1>6, <1>7, <1>8 DEF Next

-----------------------------------------------------------------------------
\* The inductive invariant: at every moment every object, in memory and in the
\* store, is Sound, loops and objects go together, and while the daemon lives there
\* is one object whose working nodes are started once.
THEOREM WorkflowInvariant == Spec => []WInv
BY InitKeeps, NextKeeps, PTL DEF Spec

\* Every variable of the engine stays in its type: no handler puts a node or a run
\* in a state the tables do not have.
THEOREM WorkflowTypeOK == Spec => []TypeOK
<1>1. WInv => TypeOK BY DEF WInv
<1> QED BY <1>1, WorkflowInvariant, PTL

\* A run at rest is in the store as it is in memory, and one that memory forgot is
\* over there (saveRun before emitChanges and forgetIfTerminal).
THEOREM WorkflowRestIsSaved == Spec => []RestIsSaved
<1>1. ASSUME WInv PROVE RestIsSaved
  <2>1. crashes \in Nat BY <1>1, BoundsAssumption DEF WInv, TypeOK
  <2> QED BY <1>1, <2>1 DEF WInv, Rest, Lineage, RestIsSaved
<1> QED BY <1>1, WorkflowInvariant, PTL

\* A node that waits for a person belongs to a run that takes the decision.
THEOREM WorkflowHumanWaitOpen == Spec => []HumanWaitOpen
<1>1. WInv => HumanWaitOpen
  BY DEF WInv, Control, TypeOK, Sound, OneWaits, Waiting, HumanWaitOpen
<1> QED BY <1>1, WorkflowInvariant, PTL

\* While the daemon lives, no loop starts an agent or a tool a second time.
THEOREM WorkflowNeverRerun == Spec => []NeverRerun
<1>1. WInv => NeverRerun
  BY DEF WInv, Lineage, Counted, Work, NeverRerun
<1> QED BY <1>1, WorkflowInvariant, PTL

\* Only a tick starts nodes.
LEMMA TicksStart ==
  ASSUME [Next]_vars
  PROVE  starts' = starts \/ \E l \in Loops : StartTick(l)
<1>1. pauseRun \/ cancelRun \/ Crash => starts' = starts
  BY DEF pauseRun, cancelRun, Crash
<1>2. \A l \in Loops : Execute(l) \/ resumeRun(l) => starts' = starts
  BY DEF Execute, resumeRun
<1>3. \A l \in Loops : StopAdvancing(l) \/ EndTick(l) => starts' = starts
  BY DEF StopAdvancing, EndTick
<1>4. \A l \in Loops, n \in Nodes : Returns(l, n) => starts' = starts
  BY DEF Returns, WorkReturns, TimerReturns, Settle
<1>5. \A l \in Loops, n \in Nodes, d \in Decisions :
        submitHumanDecision(l, n, d) => starts' = starts
  BY Zenon DEF submitHumanDecision
<1>6. UNCHANGED vars => starts' = starts BY DEF vars
<1> QED BY <1>1, <1>2, <1>3, <1>4, <1>5, <1>6 DEF Next, Internal

\* No approval bypass: whatever a tick starts behind an approval was approved by a
\* person, or a branch left the approval out.
THEOREM WorkflowApprovalGates == Spec => ApprovalGates
<1> DEFINE Gated(n, l) ==
      /\ pc[l] = "top" /\ pc'[l] = "tick"
      /\ \A d \in def.deps[n] : def.kind[d] \in HumanKinds =>
           <<d, "approved">> \in decisions \/ objs[of[l]].node[d] = "skipped"
<1>1. ASSUME WInv, [Next]_vars, NEW n \in Nodes, starts'[n] > starts[n]
      PROVE  \E l \in Loops : Gated(n, l)
  <2>1. starts[n] \in Nat BY <1>1 DEF WInv, TypeOK
  <2>2. PICK l \in Loops : StartTick(l) BY <1>1, <2>1, TicksStart
  <2>3. PICK o : o = objs[of[l]] OBVIOUS
  <2>4. PICK q : q = Refreshed(o) OBVIOUS
  <2>5. /\ pc[l] = "top" /\ pc' = [pc EXCEPT ![l] = "tick"]
        /\ starts' = [m \in Nodes |-> starts[m] + (IF m \in ReadyNodes(q) THEN 1 ELSE 0)]
    BY <2>2, <2>3, <2>4, Zenon DEF StartTick
  <2>6. n \in ReadyNodes(q) BY <1>1, <2>1, <2>5
  <2>7. o \in RunObject /\ Sound(o) BY <1>1, <2>3, <2>5, Facts
  <2>8. ASSUME NEW d \in def.deps[n], def.kind[d] \in HumanKinds
        PROVE  <<d, "approved">> \in decisions \/ o.node[d] = "skipped"
    <3>1. Defined BY <1>1, Facts
    <3>2. d \in Nodes BY <3>1, Parts
    <3>3. q.node[d] \in Over \cup {"skipped"}
      BY <2>6 DEF ReadyNodes, DepsSatisfied, Over
    <3>4. o.node[d] \in Over \cup {"skipped"} BY <2>4, <2>7, <3>2, <3>3, RefreshedMoves
    <3> QED BY <2>7, <2>8, <3>2, <3>4 DEF Sound, Approved
  <2>9. pc'[l] = "tick" BY <1>1, <2>5 DEF WInv, TypeOK
  <2>10. Gated(n, l) BY <2>3, <2>5, <2>8, <2>9
  <2> HIDE DEF Gated
  <2> QED BY <2>10
<1>2. ASSUME WInv, [Next]_vars
      PROVE  \A n \in Nodes : starts'[n] > starts[n] =>
               \E l \in Loops :
                 /\ pc[l] = "top" /\ pc'[l] = "tick"
                 /\ \A d \in def.deps[n] : def.kind[d] \in HumanKinds =>
                      <<d, "approved">> \in decisions \/ objs[of[l]].node[d] = "skipped"
  BY <1>1, <1>2
<1> QED BY <1>2, WorkflowInvariant, PTL DEF Spec, ApprovalGates

\* Nothing that was under way when a run was cancelled starts a node of it, or takes
\* the run elsewhere.
THEOREM WorkflowCancelWins == Spec => CancelWins
<1> DEFINE Wins == crashes' = 0 /\ stored.run = "cancelled" =>
                     stored'.run = "cancelled" /\ starts' = starts
<1>1. ASSUME WInv, WInv', [Next]_vars PROVE Wins
  <2> SUFFICES ASSUME crashes' = 0, stored.run = "cancelled"
               PROVE  stored'.run = "cancelled" /\ starts' = starts
    OBVIOUS
  <2>1. crashes = 0 /\ ~Crash
    <3>1. crashes \in Nat BY <1>1, BoundsAssumption DEF WInv, TypeOK
    <3>2. crashes' = crashes \/ crashes' = crashes + 1
      <4>1. pauseRun \/ cancelRun \/ Crash => crashes' = crashes \/ crashes' = crashes + 1
        BY DEF pauseRun, cancelRun, Crash
      <4>2. \A l \in Loops : Execute(l) \/ resumeRun(l) => crashes' = crashes
        BY DEF Execute, resumeRun
      <4>3. \A l \in Loops : StopAdvancing(l) \/ EndTick(l) => crashes' = crashes
        BY DEF StopAdvancing, EndTick
      <4>4. \A l \in Loops : StartTick(l) => crashes' = crashes
        BY Zenon DEF StartTick
      <4>5. \A l \in Loops, n \in Nodes : Returns(l, n) => crashes' = crashes
        BY DEF Returns, WorkReturns, TimerReturns, Settle
      <4>6. \A l \in Loops, n \in Nodes, d \in Decisions :
              submitHumanDecision(l, n, d) => crashes' = crashes
        BY Zenon DEF submitHumanDecision
      <4>7. UNCHANGED vars => crashes' = crashes BY DEF vars
      <4> QED BY <1>1, <4>1, <4>2, <4>3, <4>4, <4>5, <4>6, <4>7 DEF Next, Internal
    <3> QED BY <3>1, <3>2 DEF Crash
  <2>2. Lineage /\ objs[Root].run = "cancelled" BY <1>1, <2>1 DEF WInv, Lineage
  <2>3. Current.run = "cancelled" BY <2>2 DEF Lineage, Current
  <2>4. \A l \in Loops : pc[l] # "idle" => objs[of[l]].run = "cancelled"
    BY <2>2 DEF Lineage
  <2>5. ~pauseRun /\ ~cancelRun
    BY <2>3 DEF pauseRun, cancelRun, canPause, canCancel
  <2>6. ASSUME NEW l \in Loops
        PROVE  /\ ~Execute(l) /\ ~resumeRun(l) /\ ~StartTick(l)
               /\ \A n \in Nodes, d \in Decisions : ~submitHumanDecision(l, n, d)
    <3>1. ~resumeRun(l) BY <2>3 DEF resumeRun
    <3>2. ~Execute(l)
      <4>1. live = l => live # None BY Facts, <1>1
      <4> QED BY <2>3, <4>1 DEF Execute, Current
    <3>3. ~StartTick(l)
      <4>1. pc[l] = "top" => objs[of[l]] \in RunObject BY <1>1, Facts
      <4>2. pc[l] = "top" => Refreshed(objs[of[l]]).run = "cancelled"
        BY <2>4, <4>1, RefreshedMoves
      <4> QED BY <4>2 DEF StartTick
    <3>4. \A n \in Nodes, d \in Decisions : ~submitHumanDecision(l, n, d)
      BY <2>3 DEF submitHumanDecision, canAcceptHumanInput
    <3> QED BY <3>1, <3>2, <3>3, <3>4
  <2>7. ASSUME NEW l \in Loops, StopAdvancing(l) \/ EndTick(l)
        PROVE  stored'.run = "cancelled" /\ starts' = starts
    <3>1. PICK o : o = objs[of[l]] OBVIOUS
    <3>2. o \in RunObject /\ o.run = "cancelled" /\ Sound(o)
      BY <1>1, <2>4, <2>7, <3>1, Facts DEF StopAdvancing, EndTick
    <3>3. Recomputed(o).run = "cancelled"
      BY <3>2, RecomputedMoves DEF Sound, Moves, Tame
    <3>4. \/ stored' = stored \/ stored' = o \/ stored' = Recomputed(o)
      BY <2>7, <3>1, <3>2 DEF StopAdvancing, EndTick, Finish
    <3>5. starts' = starts BY <2>7 DEF StopAdvancing, EndTick
    <3> QED BY <3>2, <3>3, <3>4, <3>5
  <2>8. ASSUME NEW l \in Loops, NEW n \in Nodes, Returns(l, n)
        PROVE  stored' = stored /\ starts' = starts
    BY <2>8 DEF Returns, WorkReturns, TimerReturns, Settle
  <2>9. CASE UNCHANGED vars BY <2>9 DEF vars
  <2> QED BY <1>1, <2>1, <2>5, <2>6, <2>7, <2>8, <2>9 DEF Next, Internal
<1>2. Wins <=> (crashes' = 0 /\ stored.run = "cancelled" =>
                  stored'.run = "cancelled" /\ starts' = starts)
  OBVIOUS
<1> HIDE DEF Wins
<1> QED BY <1>1, <1>2, WorkflowInvariant, PTL DEF Spec, CancelWins

-----------------------------------------------------------------------------
(***************************************************************************)
(* A run at rest is not stranded.  What a recompute makes of a run depends *)
(* on where its nodes are, so the argument follows the nodes: a node that  *)
(* runs is in flight, a timer that waits is in flight or came too late in  *)
(* its tick, and a loop that stops has looked at all of them.              *)
(***************************************************************************)

\* The states a node can be put in, and those it can be put in for good or until a
\* loop or a person looks at it again.
Seen == {"pending", "ready", "running", "waiting_approval", "waiting_review",
         "waiting_timer", "waiting_event", "completed", "failed", "cancelled",
         "skipped", "expired"}
Calm == Seen \ {"running", "waiting_timer", "cancelled"}

\* Some node waits for a timer or an event; the approval of some node expired.
Held(o) == \E n \in Nodes : o.node[n] \in {"waiting_timer", "waiting_event"}
Expired(o) == \E n \in Nodes : o.node[n] = "expired"

\* A loop awaits the node; another node that was started moved the run.
Flying(n) == \E l \in Loops : n \in fly[l]
Moved(n) == \E m \in Nodes \ {n} : starts[m] > 0 /\ def.kind[m] \in Movers

Placed(o) ==
  \A n \in Nodes :
    /\ o.node[n] \in Seen
    /\ o.node[n] = "cancelled" => o.run = "cancelled"
    /\ o.node[n] = "running" => Flying(n)
    /\ o.node[n] = "waiting_timer" => Flying(n) \/ Moved(n)

\* A loop that goes on by itself, and what a run that no loop advances is left as.
Busy(l) == pc[l] # "idle" /\ fly[l] = {}
Parked(o) ==
  /\ o.run \in {"running", "paused"} => Expired(o)
  /\ o.run = "waiting" => Held(o)

Steady(o) ==
  /\ Placed(o)
  /\ \A l, m \in Loops : Busy(l) /\ Busy(m) => l = m
  /\ \A l \in Loops :
       /\ pc[l] = "top" => o.run # "paused" /\ (o.run = "waiting" => Held(o))
       /\ aborted[l] => o.run = "cancelled"
  /\ Idle => Parked(o)

SInv == WInv /\ (crashes = 0 => Steady(objs[Root]))

\* What a handler that starts nothing does to the nodes: those it moves come to a
\* calm state, or the run is cancelled.
Eases(o, p) ==
  /\ o.run = "cancelled" => p.run = "cancelled"
  /\ \A n \in Nodes : \/ p.node[n] = o.node[n]
                      \/ p.node[n] \in Calm
                      \/ p.node[n] = "cancelled" /\ p.run = "cancelled"

LEMMA PlacedKeeps ==
  ASSUME def' = def, starts' = starts, NEW o, NEW p, NEW X, Placed(o), Eases(o, p),
         \A n \in X : p.node[n] \notin {"running", "waiting_timer"},
         \A n \in Nodes : Flying(n) => n \in X \/ Flying(n)'
  PROVE  Placed(p)'
<1>1. \A n \in Nodes : Moved(n)' <=> Moved(n) BY DEF Moved, Nodes
<1>2. Nodes' = Nodes BY DEF Nodes
<1>3. ASSUME NEW n \in Nodes
      PROVE  /\ p.node[n] \in Seen
             /\ p.node[n] = "cancelled" => p.run = "cancelled"
             /\ p.node[n] = "running" => Flying(n)'
             /\ p.node[n] = "waiting_timer" => Flying(n)' \/ Moved(n)'
  <2>1. CASE p.node[n] = o.node[n]
    BY <1>1, <2>1 DEF Placed, Eases
  <2>2. CASE p.node[n] # o.node[n]
    <3>1. p.node[n] \in Calm \/ (p.node[n] = "cancelled" /\ p.run = "cancelled")
      BY <2>2 DEF Eases
    <3> QED BY <3>1 DEF Calm, Seen
  <2> QED BY <2>1, <2>2
<1> QED BY <1>2, <1>3 DEF Placed

\* The state of a node that was caught: it no longer runs, and is cancelled only
\* when it was aborted or cancelled before.
LEMMA CaughtPlace ==
  ASSUME NEW o \in RunObject, NEW n \in Nodes, NEW w \in BOOLEAN, NEW p,
         p = Caught(o, n, w)
  PROVE  /\ p.node[n] # "running"
         /\ p.node[n] = "cancelled" => w \/ o.node[n] = "cancelled"
<1>1. o.node[n] \in NodeStates BY Fields
<1>2. {"ready", "failed", "cancelled"} \subseteq NodeStates BY States
<1>3. \A s \in {"ready", "failed", "cancelled"} : Put(o, n, s).node[n] = s
  BY <1>2, PutFields
<1>4. o.node[n] = "running" => NodeCan(o.node[n], "fail") /\ NodeCan(o.node[n], "cancel")
  BY <1>1, NodeTable
<1>5. p \in {o, Put(o, n, "ready"), Put(o, n, "failed"), Put(o, n, "cancelled")}
  BY DEF Caught
<1>6. p = Put(o, n, "cancelled") => w \/ o.node[n] = "cancelled"
  <2>1. ~w /\ o.node[n] # "cancelled" =>
          p \in {o, Put(o, n, "ready"), Put(o, n, "failed")}
    BY DEF Caught
  <2>2. Put(o, n, "cancelled").node[n] = "cancelled" BY <1>3
  <2> QED BY <1>3, <2>1, <2>2
<1>7. p = o => o.node[n] # "running"
  BY <1>3, <1>4 DEF Caught
<1> QED BY <1>3, <1>5, <1>6, <1>7

LEMMA CaughtHere ==
  ASSUME NEW o \in RunObject, NEW n \in Nodes, NEW p, p = Caught(o, n, FALSE)
  PROVE  /\ p.node[n] # "running"
         /\ p.node[n] = "cancelled" => o.node[n] = "cancelled"
BY CaughtPlace, Zenon

\* A node that takes the run along ends in its state, or is caught.
LEMMA EnterPlace ==
  ASSUME NEW o \in RunObject, NEW n \in Nodes, NEW state, NEW event, NEW p,
         <<state, event>> \in Entries, p = Enter(o, n, state, event)
  PROVE  /\ p \in RunObject
         /\ \A m \in Nodes \ {n} : p.node[m] = o.node[m]
         /\ p.node[n] \in {state, "ready", "failed"}
         /\ state \in Calm \cup {"waiting_timer"}
<1> DEFINE q == Put(o, n, state)
           r == RunEventMap[o.run][event]
<1>1. /\ state \in NodeStates /\ state # "cancelled"
      /\ state \in Calm \cup {"waiting_timer"}
      /\ <<state, event>> = <<"waiting_timer", "enter_waiting">>
         \/ <<state, event>> = <<"waiting_event", "enter_waiting">>
         \/ <<state, event>> = <<"waiting_approval", "enter_approval">>
         \/ <<state, event>> = <<"waiting_review", "enter_review">>
         \/ <<state, event>> = <<"completed", "complete">>
         \/ <<state, event>> = <<"completed", "partial_complete">>
  BY States DEF Entries, Calm, Seen
<1>2. /\ q \in RunObject /\ q.run = o.run /\ q.node[n] = state
      /\ \A m \in Nodes \ {n} : q.node[m] = o.node[m]
  BY <1>1, PutFields
<1>3. CASE RunCan(o.run, event)
  <2>1. r \in RunStates
    <3>1. o.run \in RunStates BY Fields
    <3> QED BY <1>1, <1>3, <3>1, RunTable, States
  <2>2. p = [q EXCEPT !.run = r] BY <1>3 DEF Enter
  <2> HIDE DEF q, r
  <2>3. p \in RunObject /\ p.node = q.node BY <1>2, <2>1, <2>2, WithRun
  <2> QED BY <1>1, <1>2, <2>3
<1>4. CASE ~RunCan(o.run, event)
  <2>1. p = Caught(q, n, FALSE) BY <1>4 DEF Enter
  <2> HIDE DEF q
  <2>2. CaughtFrom(q, n, p) BY <1>2, <2>1, NotAborted, Zenon
  <2>3. p.node[n] = "cancelled" => q.node[n] = "cancelled"
    BY <1>2, <2>1, CaughtHere, Zenon
  <2> QED BY <1>1, <1>2, <2>2, <2>3 DEF CaughtFrom
<1> QED BY <1>3, <1>4

\* Where the start of a node leaves it: one that still runs is awaited, and so is a
\* timer, unless the run had been moved before.
LEMMA StartedPlace ==
  ASSUME Defined, NEW o \in RunObject, NEW n \in Nodes, o.node[n] = "ready", NEW taken,
         NEW p, p = Started(o, n, taken)
  PROVE  /\ p \in RunObject
         /\ \A m \in Nodes \ {n} : \/ p.node[m] = o.node[m]
                                   \/ o.node[m] = "pending" /\ p.node[m] \in {"ready", "skipped"}
         /\ p.run = o.run \/ def.kind[n] \in Movers
         /\ \/ p.node[n] \in Calm
            \/ p.node[n] = "running" /\ Awaits(o, n)
            \/ p.node[n] = "waiting_timer" /\ (o.run = "running" => Awaits(o, n))
<1> DEFINE r == [Put(o, n, "running") EXCEPT !.attempt[n] = @ + 1]
           k == def.kind[n]
<1>1. /\ r \in RunObject /\ r.run = o.run /\ r.node[n] = "running"
      /\ \A m \in Nodes \ {n} : r.node[m] = o.node[m]
  BY Incremented
<1>2. k \in Kinds BY Parts
<1>3. /\ k = "instant" => p = Put(r, n, "completed")
      /\ k \in {"agentic", "tool_action"} => p = r
      /\ k = "wait_timer" => p = Enter(r, n, "waiting_timer", "enter_waiting")
      /\ k = "human_approval" => p = Enter(r, n, "waiting_approval", "enter_approval")
      /\ k = "human_review" => p = Enter(r, n, "waiting_review", "enter_review")
      /\ k = "branch" => p = Branched(r, n, taken[n])
      /\ k = "completion" => p = Enter(r, n, "completed", Completes(n))
  BY DEF Started
<1>4. /\ k = "wait_event" =>
           p = Caught(Enter(r, n, "waiting_event", "enter_waiting"), n, FALSE)
      /\ k = "compensation" => p = Caught(r, n, FALSE)
  BY Zenon DEF Started
<1>5. {"completed", "failed", "ready", "waiting_event"} \subseteq Calm
      /\ "waiting_timer" \notin Calm
  BY DEF Calm, Seen
<1> HIDE DEF r
<1>6. CASE k = "instant"
  <2>1. "completed" \in NodeStates BY States
  <2>2. p = Put(r, n, "completed") BY <1>3, <1>6
  <2> QED BY <1>1, <1>5, <2>1, <2>2, PutFields
<1>7. CASE k \in {"agentic", "tool_action"}
  <2>1. Awaits(o, n) BY <1>7 DEF Awaits
  <2> QED BY <1>1, <1>3, <1>7, <2>1
<1>8. ASSUME k \in {"wait_timer", "human_approval", "human_review", "completion"}
      PROVE  \E state, event :
               /\ <<state, event>> \in Entries /\ p = Enter(r, n, state, event)
               /\ k # "wait_timer" => state # "waiting_timer"
  <2>1. CASE k = "wait_timer"
    <3>1. <<"waiting_timer", "enter_waiting">> \in Entries BY DEF Entries
    <3> QED BY <1>3, <2>1, <3>1
  <2>2. CASE k = "human_approval"
    <3>1. <<"waiting_approval", "enter_approval">> \in Entries BY DEF Entries
    <3> QED BY <1>3, <2>2, <3>1
  <2>3. CASE k = "human_review"
    <3>1. <<"waiting_review", "enter_review">> \in Entries BY DEF Entries
    <3> QED BY <1>3, <2>3, <3>1
  <2>4. CASE k = "completion"
    <3> QED BY <1>3, <2>4, CompletionEntry
  <2> QED BY <1>8, <2>1, <2>2, <2>3, <2>4
<1>9. CASE k \in {"wait_timer", "human_approval", "human_review", "completion"}
  <2>1. PICK state, event :
          /\ <<state, event>> \in Entries /\ p = Enter(r, n, state, event)
          /\ k # "wait_timer" => state # "waiting_timer"
    BY <1>8, <1>9
  <2>2. /\ p \in RunObject
        /\ \A m \in Nodes \ {n} : p.node[m] = r.node[m]
        /\ p.node[n] \in {state, "ready", "failed"}
        /\ state \in Calm \cup {"waiting_timer"}
    BY <1>1, <2>1, EnterPlace
  <2>3. k \in Movers BY <1>9 DEF Movers, HumanKinds
  <2>4. k = "wait_timer" /\ o.run = "running" => Awaits(o, n)
    BY DEF Awaits, RunCan, RunEventMap, ValidRunTransitions
  <2> QED BY <1>1, <1>5, <2>1, <2>2, <2>3, <2>4
<1>10. CASE k = "branch"
  <2>1. p = Branched(r, n, taken[n]) BY <1>3, <1>10
  <2>2. /\ p \in RunObject /\ p.run = r.run /\ p.node[n] = "completed"
        /\ \A m \in Nodes \ {n} :
             \/ p.node[m] = r.node[m]
             \/ r.node[m] = "pending" /\ p.node[m] \in {"ready", "skipped"}
    BY <1>1, <2>1, BranchedMoves
  <2> QED BY <1>1, <1>5, <2>2
<1>11. CASE k = "wait_event"
  <2>1. PICK q : q = Enter(r, n, "waiting_event", "enter_waiting") OBVIOUS
  <2>2. <<"waiting_event", "enter_waiting">> \in Entries BY DEF Entries
  <2>3. /\ q \in RunObject
        /\ \A m \in Nodes \ {n} : q.node[m] = r.node[m]
        /\ q.node[n] \in {"waiting_event", "ready", "failed"}
    BY <1>1, <2>1, <2>2, EnterPlace
  <2>4. p = Caught(q, n, FALSE) BY <1>4, <1>11, <2>1, Zenon
  <2>5. CaughtFrom(q, n, p) BY <2>3, <2>4, NotAborted, Zenon
  <2>6. p.node[n] = "cancelled" => q.node[n] = "cancelled"
    BY <2>3, <2>4, CaughtHere, Zenon
  <2>7. k \in Movers BY <1>11 DEF Movers
  <2> QED BY <1>1, <1>5, <2>3, <2>5, <2>6, <2>7 DEF CaughtFrom
<1>12. CASE k = "compensation"
  <2>1. p = Caught(r, n, FALSE) BY <1>4, <1>12, Zenon
  <2>2. CaughtFrom(r, n, p) BY <1>1, <2>1, NotAborted, Zenon
  <2>3. p.node[n] # "running" /\ (p.node[n] = "cancelled" => r.node[n] = "cancelled")
    BY <1>1, <2>1, CaughtHere, Zenon
  <2> QED BY <1>1, <1>5, <2>2, <2>3 DEF CaughtFrom
<1> QED BY <1>2, <1>6, <1>7, <1>9, <1>10, <1>11, <1>12 DEF Kinds

\* The place of a node after a tick that started the nodes `ready` and awaits `air`.
Placement(n, s, t, ready, air) ==
  \/ t = s
  \/ t \in Calm
  \/ t = "running" /\ n \in air
  \/ t = "waiting_timer" /\ (n \in air \/ \E m \in ready \ {n} : def.kind[m] \in Movers)

\* A timer that found the run moved is behind the node of its tick that moved it.
LEMMA TickPlaces ==
  ASSUME Defined, NEW o \in RunObject, NEW ready \in SUBSET Nodes, NEW taken,
         o.run = "running", \A n \in ready : o.node[n] = "ready"
  PROVE  LET s == AllStarted(o, ready, taken)
         IN \A n \in Nodes : Placement(n, o.node[n], s.obj.node[n], ready, s.fly)
<1> DEFINE len == Len(def.order)
           s == AllStarted(o, ready, taken)
<1>1. /\ len \in Nat
      /\ \A i \in 1..len : def.order[i] \in Nodes
      /\ \A i, j \in 1..len : def.order[i] = def.order[j] => i = j
  <2>1. def.order \in Seq(Nodes) BY Parts
  <2>2. len \in Nat /\ \A i \in 1..len : def.order[i] \in Nodes
    BY <2>1, LenProperties, ElementOfSeq
  <2> QED BY <2>2, Parts
<1>2. PICK f : s = f[len] /\ Sequence(f, o, ready, taken, len)
  BY <1>1, AllStartedSteps, Zenon
<1> USE DEF Sequence
<1> HIDE DEF len, s
<1> DEFINE Before(n, i) == \E j \in 1..i : def.order[j] = n
           Good(i) ==
             /\ f[i].obj \in RunObject
             /\ \A n \in ready : ~Before(n, i) => f[i].obj.node[n] = "ready"
             /\ \/ f[i].obj.run = "running"
                \/ \E m \in ready : Before(m, i) /\ def.kind[m] \in Movers
             /\ \A n \in Nodes :
                  Placement(n, o.node[n], f[i].obj.node[n], ready, f[i].fly)
           bad == {i \in 0..len : ~Good(i)}
<1>3. Good(0)
  <2>1. f[0].obj = o /\ f[0].fly = {} BY <1>2
  <2> QED BY <2>1 DEF Placement
<1>4. ASSUME NEW i \in 1..len, Good(i - 1) PROVE Good(i)
  <2> DEFINE n == def.order[i]
             prev == f[i - 1]
  <2>1. /\ i \in Nat /\ i - 1 \in Nat /\ n \in Nodes
        /\ f[i] = StartNext(prev, n, ready, taken)
    BY <1>1, <1>2
  <2>2. \A m : Before(m, i) <=> m = n \/ Before(m, i - 1)
    BY <1>1
  <2>3. ~Before(n, i - 1)
    BY <1>1
  <2>4. /\ prev.obj \in RunObject
        /\ \A m \in ready : ~Before(m, i - 1) => prev.obj.node[m] = "ready"
        /\ \/ prev.obj.run = "running"
           \/ \E m \in ready : Before(m, i - 1) /\ def.kind[m] \in Movers
        /\ \A m \in Nodes :
             Placement(m, o.node[m], prev.obj.node[m], ready, prev.fly)
    BY <1>4
  <2> HIDE DEF Before, n, prev
  <2>5. CASE n \notin ready
    <3>1. f[i] = prev BY <2>1, <2>5 DEF StartNext
    <3> QED BY <2>1, <2>2, <2>4, <2>5, <3>1
  <2>6. CASE n \in ready
    <3>1. prev.obj.node[n] = "ready" BY <2>3, <2>4, <2>6
    <3>2. PICK p : p = Started(prev.obj, n, taken) OBVIOUS
    <3>3. /\ f[i].obj = p
          /\ f[i].fly = IF Awaits(prev.obj, n) THEN prev.fly \cup {n} ELSE prev.fly
      BY <2>1, <2>6, <3>2 DEF StartNext
    <3>4. /\ p \in RunObject
          /\ \A m \in Nodes \ {n} :
               \/ p.node[m] = prev.obj.node[m]
               \/ prev.obj.node[m] = "pending" /\ p.node[m] \in {"ready", "skipped"}
          /\ p.run = prev.obj.run \/ def.kind[n] \in Movers
          /\ \/ p.node[n] \in Calm
             \/ p.node[n] = "running" /\ Awaits(prev.obj, n)
             \/ p.node[n] = "waiting_timer" /\ (prev.obj.run = "running" => Awaits(prev.obj, n))
      BY <2>1, <2>4, <3>1, <3>2, StartedPlace
    <3>5. \A m \in ready : ~Before(m, i) => p.node[m] = "ready"
      BY <2>2, <2>4, <3>4
    <3>6. \/ p.run = "running"
          \/ \E m \in ready : Before(m, i) /\ def.kind[m] \in Movers
      BY <2>2, <2>4, <2>6, <3>4
    <3>7. ASSUME NEW m \in Nodes
          PROVE  Placement(m, o.node[m], p.node[m], ready, f[i].fly)
      <4>1. CASE m = n
        <5>1. prev.obj.run # "running" => \E j \in ready \ {n} : def.kind[j] \in Movers
          BY <2>3, <2>4
        <5>2. Awaits(prev.obj, n) => n \in f[i].fly BY <3>3
        <5> QED BY <3>4, <4>1, <5>1, <5>2 DEF Placement
      <4>2. CASE m # n
        <5>1. prev.fly \subseteq f[i].fly BY <3>3
        <5>2. p.node[m] = prev.obj.node[m] \/ p.node[m] \in {"ready", "skipped"}
          BY <3>4, <4>2
        <5>3. {"ready", "skipped"} \subseteq Calm BY DEF Calm, Seen
        <5>4. Placement(m, o.node[m], prev.obj.node[m], ready, prev.fly) BY <2>4
        <5> QED BY <5>1, <5>2, <5>3, <5>4 DEF Placement
      <4> QED BY <4>1, <4>2
    <3> QED BY <3>3, <3>4, <3>5, <3>6, <3>7
  <2> QED BY <2>5, <2>6
<1> HIDE DEF Good
<1>5. ASSUME NEW i \in bad, \A j \in bad : i <= j PROVE FALSE
  <2>1. i # 0 BY <1>3, <1>5
  <2>2. i - 1 \in 0..len /\ i - 1 \notin bad BY <1>1, <1>5, <2>1
  <2>3. i \in 1..len /\ Good(i - 1) BY <2>1, <2>2
  <2> QED BY <1>4, <1>5, <2>3
<1>6. bad = {}
  <2>1. bad \in SUBSET Nat OBVIOUS
  <2> HIDE DEF bad
  <2> QED BY <1>5, <2>1, Smallest
<1>7. Good(len)
  <2>1. len \in 0..len BY <1>1
  <2> QED BY <1>6, <2>1
<1>8. \A n \in Nodes : Placement(n, o.node[n], s.obj.node[n], ready, s.fly)
  BY <1>2, <1>7 DEF Good
<1> QED BY <1>8 DEF s

\* A recompute moves no node but to cancel it with the run, and it never pauses a
\* run or has it wait for nothing.
LEMMA RecomputedPlace ==
  ASSUME NEW o \in RunObject, NEW p, p = Recomputed(o)
  PROVE  /\ Eases(o, p)
         /\ p.run # "paused"
         /\ p.run = "waiting" => Held(p)
<1>1. CASE o.run \in {"cancelled", "cancelling"}
  <2> DEFINE f == [n \in Nodes |->
                     IF o.node[n] \in {"pending", "ready", "running", "waiting_timer",
                                       "waiting_event"}
                     THEN "cancelled" ELSE o.node[n]]
  <2>1. p = [o EXCEPT !.run = "cancelled", !.node = f]
    BY <1>1 DEF Recomputed
  <2>2. \A n \in Nodes : f[n] = o.node[n] \/ f[n] = "cancelled"
    OBVIOUS
  <2> HIDE DEF f
  <2>3. p.run = "cancelled" /\ p.node = f
    BY <2>1 DEF RunObject, RunObjects
  <2> QED BY <2>2, <2>3 DEF Eases
<1>2. CASE o.run \notin {"cancelled", "cancelling"}
  <2> DEFINE In(S) == \E n \in Nodes : o.node[n] \in S
  <2>1. PICK r : /\ p = [o EXCEPT !.run = r]
                 /\ r # "paused"
                 /\ r = "waiting" => In({"waiting_timer", "waiting_event"})
    <3>1. CASE In({"waiting_approval"})
      BY <1>2, <3>1 DEF Recomputed
    <3>2. CASE ~In({"waiting_approval"}) /\ In({"waiting_review"})
      BY <1>2, <3>2 DEF Recomputed
    <3>3. CASE /\ ~In({"waiting_approval"}) /\ ~In({"waiting_review"})
               /\ In({"waiting_timer", "waiting_event"})
      BY <1>2, <3>3 DEF Recomputed
    <3>4. CASE /\ ~In({"waiting_approval"}) /\ ~In({"waiting_review"})
               /\ ~In({"waiting_timer", "waiting_event"})
      <4>1. \E r \in {"compensation_required", "failed", "blocked",
                      "completed", "running", "partially_completed"} :
              p = [o EXCEPT !.run = r]
        BY <1>2, <3>4 DEF Recomputed
      <4> QED BY <4>1
    <3> QED BY <3>1, <3>2, <3>3, <3>4
  <2>2. p.run = r /\ p.node = o.node BY <2>1 DEF RunObject, RunObjects
  <2> QED BY <1>2, <2>1, <2>2 DEF Eases, Held
<1> QED BY <1>1, <1>2

\* A recompute that finds the run running leaves the nodes alone, has found one that
\* is not over, and none that waits or failed.
LEMMA RecomputedRunning ==
  ASSUME NEW o \in RunObject, NEW p, p = Recomputed(o), p.run = "running"
  PROVE  /\ p.node = o.node /\ o.run # "cancelled"
         /\ \A n \in Nodes : o.node[n] \notin {"waiting_approval", "waiting_review",
                                               "waiting_timer", "waiting_event", "failed"}
         /\ \E n \in Nodes : o.node[n] \notin {"completed", "skipped", "compensated", "cancelled"}
<1> DEFINE In(S) == \E n \in Nodes : o.node[n] \in S
<1>1. o.run \notin {"cancelled", "cancelling"}
  <2>1. CASE o.run \in {"cancelled", "cancelling"}
    BY <2>1 DEF Recomputed, RunObject, RunObjects
  <2> QED BY <2>1
<1>2. /\ \A r : [o EXCEPT !.run = r].run = r
      /\ \A r : [o EXCEPT !.run = r].node = o.node
  BY DEF RunObject, RunObjects
<1>3. ~In({"waiting_approval"})
  <2>1. CASE In({"waiting_approval"})
    BY <1>1, <1>2, <2>1 DEF Recomputed
  <2> QED BY <2>1
<1>4. ~In({"waiting_review"})
  <2>1. CASE In({"waiting_review"})
    BY <1>1, <1>2, <1>3, <2>1 DEF Recomputed
  <2> QED BY <2>1
<1>5. ~In({"waiting_timer", "waiting_event"})
  <2>1. CASE In({"waiting_timer", "waiting_event"})
    BY <1>1, <1>2, <1>3, <1>4, <2>1 DEF Recomputed
  <2> QED BY <2>1
<1>6. ~In({"failed"})
  <2>1. CASE In({"failed"})
    BY <1>1, <1>2, <1>3, <1>4, <1>5, <2>1 DEF Recomputed
  <2> QED BY <2>1
<1>7. In(NodeStates \ {"completed", "skipped", "compensated", "cancelled"})
  <2>1. CASE ~In(NodeStates \ {"completed", "skipped", "compensated", "cancelled"})
    BY <1>1, <1>2, <1>3, <1>4, <1>5, <1>6, <2>1 DEF Recomputed
  <2> QED BY <2>1
<1>8. p.node = o.node
  <2>1. \E r : p = [o EXCEPT !.run = r]
    BY <1>1, <1>3, <1>4, <1>5, <1>6, <1>7 DEF Recomputed
  <2> QED BY <1>2, <2>1
<1> QED BY <1>1, <1>3, <1>4, <1>5, <1>6, <1>7, <1>8

\* When no node is ready and the run is still running, some node runs or expired:
\* among the others a first one, in the order of the dependencies, would be ready.
LEMMA RecomputedParks ==
  ASSUME Defined, NEW o \in RunObject, NEW q, NEW p, q = Refreshed(o), p = Recomputed(q),
         Placed(q), ReadyNodes(q) = {}, p.run = "running"
  PROVE  Expired(p) \/ \E n \in Nodes : q.node[n] = "running"
<1>1. /\ q \in RunObject
      /\ \A n \in Nodes : q.node[n] \in Over \cup {"skipped"} => o.node[n] = q.node[n]
      /\ \A n \in Nodes : q.node[n] # o.node[n] => o.node[n] = "pending"
  BY RefreshedMoves DEF Moves
<1>2. /\ p.node = q.node /\ q.run # "cancelled"
      /\ \A n \in Nodes : q.node[n] \notin {"waiting_approval", "waiting_review",
                                            "waiting_timer", "waiting_event", "failed"}
      /\ \E n \in Nodes : q.node[n] \notin {"completed", "skipped", "compensated", "cancelled"}
  BY <1>1, RecomputedRunning
<1> SUFFICES ASSUME ~Expired(p), \A n \in Nodes : q.node[n] # "running" PROVE FALSE
  OBVIOUS
<1> DEFINE S == {n \in Nodes : q.node[n] \notin {"completed", "skipped", "compensated"}}
<1>3. \A n \in S : q.node[n] \in {"pending", "ready"}
  BY <1>2 DEF Placed, Seen, Expired
<1>4. S # {} BY <1>2
<1>5. PICK n \in S : def.deps[n] \cap S = {}
  <2>1. S \in SUBSET Nodes OBVIOUS
  <2> HIDE DEF S
  <2> QED BY <1>4, <2>1, DefinitionsAssumption DEF Defined, IsDefinition, Nodes
<1>6. \A d \in def.deps[n] : d \in Nodes /\ q.node[d] \in {"completed", "skipped", "compensated"}
  <2>1. def.deps[n] \subseteq Nodes BY Parts
  <2> QED BY <1>5, <2>1
<1>7. DepsSatisfied(q, n) BY <1>6 DEF DepsSatisfied
<1>8. DepsSatisfied(o, n)
  BY <1>1, <1>6 DEF DepsSatisfied, Over
<1>9. q.node[n] # "pending"
  <2>1. q.node[n] = IF o.node[n] = "pending" /\ DepsSatisfied(o, n) THEN "ready" ELSE o.node[n]
    BY DEF Refreshed, RunObject, RunObjects
  <2> QED BY <1>8, <2>1
<1>10. q.node[n] = "ready" BY <1>3, <1>9
<1> QED BY <1>7, <1>10 DEF ReadyNodes

-----------------------------------------------------------------------------
\* While the daemon lives, every loop advances the one object, and so does every
\* verb that does anything.
LEMMA OneObject ==
  ASSUME WInv, crashes = 0
  PROVE  /\ Root \in Loops /\ None \notin Loops /\ objs[Root] \in RunObject
         /\ live \in {Root, None}
         /\ live = None => Current = stored /\ TerminalRun(Current.run)
         /\ live = Root => Current = objs[Root]
         /\ \A l \in Loops : pc[l] # "idle" => of[l] = Root
BY Facts DEF WInv, Lineage, Current

\* What a handler shows that moves no loop but l.
LEMMA SteadyStep ==
  ASSUME WInv', def' = def, NEW l \in Loops, NEW p, p = objs'[Root], Placed(p)',
         \A m \in Loops \ {l} : ~Busy(m)',
         pc'[l] = "top" => p.run # "paused" /\ (p.run = "waiting" => Held(p)),
         \A m \in Loops : aborted'[m] => p.run = "cancelled",
         Idle' => Parked(p)
  PROVE  Steady(objs[Root])'
<1>1. Nodes' = Nodes BY DEF Nodes
<1>2. \A m \in Loops : pc'[m] = "top" => fly'[m] = {}
  BY DEF WInv, Control
<1>3. \A m \in Loops : pc'[m] = "top" => m = l
  BY <1>2 DEF Busy
<1>4. Placed(objs[Root])' BY DEF Placed
<1>5. \A m, k \in Loops : Busy(m)' /\ Busy(k)' => m = k OBVIOUS
<1>6. (Held(objs[Root])' <=> Held(p)) /\ (Expired(objs[Root])' <=> Expired(p))
  BY <1>1 DEF Held, Expired
<1>7. (Idle => Parked(objs[Root]))'
  BY <1>6 DEF Parked
<1>8. \A m \in Loops :
        /\ pc'[m] = "top" => p.run # "paused" /\ (p.run = "waiting" => Held(p))
        /\ aborted'[m] => p.run = "cancelled"
  BY <1>3
<1> QED BY <1>4, <1>5, <1>6, <1>7, <1>8 DEF Steady

\* Before anything but a loop acts, no loop is busy.
LEMMA NobodyBusy ==
  ASSUME WInv, Quiet
  PROVE  \A l \in Loops : ~Busy(l)
BY DEF WInv, TypeOK, Quiet, Busy

\* Loops and their nodes in flight as they were.
LEMMA StaysBusy ==
  ASSUME NEW m, pc'[m] = pc[m], fly'[m] = fly[m], ~Busy(m)
  PROVE  ~Busy(m)'
BY DEF Busy

LEMMA PlacedStays ==
  ASSUME UNCHANGED <<def, fly, starts>>, NEW o, NEW p, Placed(o), Eases(o, p)
  PROVE  Placed(p)'
<1>1. PICK X : X = {} OBVIOUS
<1>2. \A n \in X : p.node[n] \notin {"running", "waiting_timer"} BY <1>1
<1>3. \A n \in Nodes : Flying(n) => n \in X \/ Flying(n)' BY DEF Flying
<1>4. def' = def /\ starts' = starts OBVIOUS
<1> HIDE <1>1
<1> QED BY <1>2, <1>3, <1>4, PlacedKeeps

\* A verb begins a loop.
LEMMA BeginSteady ==
  ASSUME SInv, WInv', crashes = 0, Quiet, live = Root, NEW l \in Loops, NEW p,
         Begin(l, p), p.run = "running", objs[Root].run # "cancelled",
         Eases(objs[Root], p), UNCHANGED <<def, fly, starts>>
  PROVE  Steady(objs[Root])'
<1>1. WInv /\ Steady(objs[Root]) BY DEF SInv
<1>2. Root \in Loops /\ None \notin Loops BY <1>1, OneObject
<1>3. /\ objs' = [objs EXCEPT ![Root] = p]
      /\ pc' = [pc EXCEPT ![l] = "top"]
      /\ aborted' = [aborted EXCEPT ![l] = FALSE]
  BY <1>2 DEF Begin
<1>4. /\ p = objs'[Root] /\ pc'[l] = "top"
      /\ \A m \in Loops \ {l} : pc'[m] = pc[m] /\ aborted'[m] = aborted[m]
      /\ ~aborted'[l]
  BY <1>1, <1>2, <1>3 DEF WInv, TypeOK
<1>5. PICK o : o = objs[Root] OBVIOUS
<1>6. Placed(p)'
  <2>1. Placed(o) BY <1>1, <1>5 DEF Steady
  <2> QED BY <1>5, <2>1, PlacedStays
<1>7. \A m \in Loops \ {l} : ~Busy(m)'
  BY <1>1, <1>4, NobodyBusy, StaysBusy
<1>8. \A m \in Loops : ~aborted'[m]
  BY <1>1, <1>4 DEF Steady
<1>9. ~Idle' BY <1>4 DEF Idle
<1> QED BY <1>4, <1>6, <1>7, <1>8, <1>9, SteadyStep

\* A verb rewrites the object and moves no loop.
LEMMA VerbSteady ==
  ASSUME SInv, WInv', crashes = 0, Quiet, live = Root, NEW p, Rewrite(p),
         Eases(objs[Root], p), \A m \in Loops : aborted'[m] => p.run = "cancelled",
         Idle => Parked(p), UNCHANGED <<def, pc, fly, starts>>
  PROVE  Steady(objs[Root])'
<1>1. WInv /\ Steady(objs[Root]) BY DEF SInv
<1>2. Root \in Loops /\ None \notin Loops BY <1>1, OneObject
<1>3. p = objs'[Root]
  BY <1>1, <1>2 DEF Rewrite, WInv, TypeOK
<1>4. PICK o : o = objs[Root] OBVIOUS
<1>5. Placed(p)'
  <2>1. Placed(o) BY <1>1, <1>4 DEF Steady
  <2> QED BY <1>4, <2>1, PlacedStays
<1>6. \A m \in Loops : ~Busy(m)'
  BY <1>1, NobodyBusy, StaysBusy
<1>7. \A m \in Loops : pc'[m] # "top" BY DEF Quiet
<1>8. Idle' <=> Idle BY DEF Idle
<1> QED BY <1>2, <1>3, <1>5, <1>6, <1>7, <1>8, SteadyStep

\* What no handler touches stays steady.
LEMMA SteadyStays ==
  ASSUME Steady(objs[Root]), UNCHANGED <<def, objs, pc, fly, aborted, starts>>
  PROVE  Steady(objs[Root])'
BY DEF Steady, Placed, Busy, Parked, Held, Expired, Flying, Moved, Idle, Nodes

\* A handler that only moves the run, of an object that is not cancelled.
LEMMA RunEases ==
  ASSUME NEW o \in RunObject, NEW r, o.run # "cancelled", NEW p, p = [o EXCEPT !.run = r]
  PROVE  p.run = r /\ p.node = o.node /\ Eases(o, p)
<1>1. p.run = r /\ p.node = o.node BY DEF RunObject, RunObjects
<1> QED BY <1>1 DEF Eases

LEMMA ExecuteSteady ==
  ASSUME SInv, WInv', crashes = 0, NEW l \in Loops, Execute(l)
  PROVE  Steady(objs[Root])'
<1>1. WInv BY DEF SInv
<1>2. live = Root /\ objs[Root] \in RunObject
  BY <1>1, OneObject DEF Execute
<1>3. PICK o : o = objs[Root] OBVIOUS
<1>4. PICK p : p = [o EXCEPT !.run = "running"] OBVIOUS
<1>5. /\ Quiet /\ o.run = "queued" /\ Begin(l, p)
      /\ UNCHANGED <<def, fly, starts>>
  BY <1>2, <1>3, <1>4 DEF Execute
<1>6. p.run = "running" /\ Eases(o, p)
  BY <1>2, <1>3, <1>4, <1>5, RunEases
<1> QED BY <1>2, <1>3, <1>5, <1>6, BeginSteady

LEMMA resumeRunSteady ==
  ASSUME SInv, WInv', crashes = 0, NEW l \in Loops, resumeRun(l)
  PROVE  Steady(objs[Root])'
<1>1. WInv BY DEF SInv
<1>2. live = Root /\ objs[Root] \in RunObject /\ Current = objs[Root]
  BY <1>1, OneObject DEF resumeRun, TerminalRun
<1>3. PICK o : o = objs[Root] OBVIOUS
<1>4. PICK p : p = [o EXCEPT !.run = "running"] OBVIOUS
<1>5. /\ Quiet /\ o.run = "paused" /\ Begin(l, p)
      /\ UNCHANGED <<def, fly, starts>>
  BY <1>2, <1>3, <1>4 DEF resumeRun
<1>6. p.run = "running" /\ Eases(o, p)
  BY <1>2, <1>3, <1>4, <1>5, RunEases
<1> QED BY <1>2, <1>3, <1>5, <1>6, BeginSteady

\* A run at rest that may be paused was left running by an expiry.
LEMMA pauseRunSteady ==
  ASSUME SInv, WInv', crashes = 0, pauseRun
  PROVE  Steady(objs[Root])'
<1>1. WInv /\ Steady(objs[Root]) BY DEF SInv
<1>2. live = Root /\ objs[Root] \in RunObject /\ Current = objs[Root]
  BY <1>1, OneObject DEF pauseRun, TerminalRun, canPause
<1>3. PICK o : o = objs[Root] OBVIOUS
<1>4. PICK p : p = [o EXCEPT !.run = "paused"] OBVIOUS
<1>5. /\ Quiet /\ canPause(o.run) /\ RunCan(o.run, "pause") /\ Rewrite(p)
      /\ UNCHANGED <<def, pc, fly, aborted, starts>>
  BY <1>2, <1>3, <1>4 DEF pauseRun
<1>6. o.run = "running"
  BY <1>5 DEF canPause, RunCan, RunEventMap
<1>7. p.run = "paused" /\ p.node = o.node /\ Eases(o, p)
  BY <1>2, <1>3, <1>4, <1>6, RunEases
<1>8. Idle => Parked(p)
  BY <1>1, <1>3, <1>6, <1>7 DEF Steady, Parked, Expired
<1>9. \A m \in Loops : aborted'[m] => p.run = "cancelled"
  BY <1>1, <1>3, <1>5, <1>6 DEF Steady
<1> QED BY <1>2, <1>3, <1>5, <1>7, <1>8, <1>9, VerbSteady

LEMMA cancelRunSteady ==
  ASSUME SInv, WInv', crashes = 0, cancelRun
  PROVE  Steady(objs[Root])'
<1>1. WInv BY DEF SInv
<1>2. live = Root /\ objs[Root] \in RunObject /\ Current = objs[Root]
  BY <1>1, OneObject DEF cancelRun, TerminalRun, canCancel
<1>3. PICK o : o = objs[Root] OBVIOUS
<1> DEFINE f == [n \in Nodes |->
                   IF o.node[n] \notin {"completed", "cancelled", "skipped", "failed"}
                      /\ NodeCan(o.node[n], "cancel")
                   THEN "cancelled" ELSE o.node[n]]
<1>4. PICK p : p = [o EXCEPT !.run = "cancelled", !.node = f] OBVIOUS
<1>5. Quiet /\ Rewrite(p) /\ UNCHANGED <<def, pc, fly, starts>>
  BY <1>2, <1>3, <1>4, Zenon DEF cancelRun
<1>6. \A n \in Nodes : f[n] = o.node[n] \/ f[n] = "cancelled" OBVIOUS
<1> HIDE DEF f
<1>7. p.run = "cancelled" /\ p.node = f
  BY <1>2, <1>3, <1>4 DEF RunObject, RunObjects
<1>8. Eases(o, p) BY <1>6, <1>7 DEF Eases
<1>9. Parked(p) BY <1>7 DEF Parked
<1> QED BY <1>2, <1>3, <1>5, <1>7, <1>8, <1>9, VerbSteady

LEMMA submitHumanDecisionSteady ==
  ASSUME SInv, WInv', crashes = 0, NEW l \in Loops, NEW n \in Nodes, NEW d \in Decisions,
         submitHumanDecision(l, n, d)
  PROVE  Steady(objs[Root])'
<1>1. WInv /\ Steady(objs[Root]) BY DEF SInv
<1>2. live = Root /\ objs[Root] \in RunObject /\ Current = objs[Root]
  BY <1>1, OneObject DEF submitHumanDecision, TerminalRun, canAcceptHumanInput
<1>3. PICK o : o = objs[Root] OBVIOUS
<1>4. PICK s, r : s = Decided(n, d).node /\ r = RunEventMap[o.run][Decided(n, d).event]
  OBVIOUS
<1>5. PICK p : p = [Put(o, n, s) EXCEPT !.run = r] OBVIOUS
<1>6. /\ Quiet /\ canAcceptHumanInput(o.run)
      /\ UNCHANGED <<def, fly, starts>>
      /\ \/ UNCHANGED <<objs, pc, aborted>>
         \/ p.run = "running" /\ Begin(l, p)
         \/ p.run # "running" /\ Rewrite(p) /\ UNCHANGED <<pc, aborted>>
  BY <1>2, <1>3, <1>4, <1>5, Zenon DEF submitHumanDecision
<1>7. s \in {"completed", "failed", "expired"} /\ Decided(n, d).event \in {"resume", "fail", "expire"}
  <2>1. CASE d = "approved" BY <1>4, <2>1 DEF Decided
  <2>2. CASE d = "denied" BY <1>4, <2>2 DEF Decided
  <2>3. CASE d = "changes_requested" BY <1>4, <2>3 DEF Decided
  <2>4. CASE d = "rejected" BY <1>4, <2>4 DEF Decided
  <2>5. CASE d = "expired" BY <1>4, <2>5 DEF Decided
  <2> QED BY <2>1, <2>2, <2>3, <2>4, <2>5 DEF Decisions
<1>8. r \in {"running", "failed", "expired"}
  <2>1. o.run \in RunStates BY <1>2, <1>3, Fields
  <2> QED BY <1>4, <1>6, <1>7, <2>1, RunTable
<1>9. p.run = r /\ Eases(o, p)
  <2>1. PICK q : q = Put(o, n, s) OBVIOUS
  <2>2. s \in NodeStates /\ s \in Calm BY <1>7, States DEF Calm, Seen
  <2>3. /\ q \in RunObject /\ q.node[n] = s
        /\ \A m \in Nodes \ {n} : q.node[m] = o.node[m]
    BY <1>2, <1>3, <2>1, <2>2, PutFields
  <2>4. p.run = r /\ p.node = q.node BY <1>5, <2>1, <2>3 DEF RunObject, RunObjects
  <2>5. o.run # "cancelled" BY <1>6 DEF canAcceptHumanInput
  <2> QED BY <2>2, <2>3, <2>4, <2>5 DEF Eases
<1>10. CASE UNCHANGED <<objs, pc, aborted>>
  BY <1>1, <1>6, <1>10, SteadyStays
<1>11. CASE p.run = "running" /\ Begin(l, p)
  <2>1. o.run # "cancelled" BY <1>6 DEF canAcceptHumanInput
  <2> QED BY <1>2, <1>3, <1>6, <1>9, <1>11, <2>1, BeginSteady
<1>12. CASE p.run # "running" /\ Rewrite(p) /\ UNCHANGED <<pc, aborted>>
  <2>1. Parked(p) BY <1>8, <1>9, <1>12 DEF Parked
  <2>2. \A m \in Loops : aborted'[m] => p.run = "cancelled"
    BY <1>1, <1>3, <1>6, <1>12 DEF Steady, canAcceptHumanInput
  <2> QED BY <1>2, <1>3, <1>6, <1>9, <1>12, <2>1, <2>2, VerbSteady
<1> QED BY <1>6, <1>10, <1>11, <1>12

-----------------------------------------------------------------------------
\* The loops themselves.
LEMMA EasesOn ==
  ASSUME NEW o, NEW q, NEW p, Eases(o, q), Eases(q, p)
  PROVE  Eases(o, p)
BY DEF Eases

LEMMA RefreshedEases ==
  ASSUME NEW o \in RunObject, NEW q, q = Refreshed(o)
  PROVE  q \in RunObject /\ q.run = o.run /\ Eases(o, q)
<1> DEFINE f == [n \in Nodes |-> IF o.node[n] = "pending" /\ DepsSatisfied(o, n)
                                 THEN "ready" ELSE o.node[n]]
<1>1. \A n \in Nodes : f[n] = o.node[n] \/ f[n] = "ready" OBVIOUS
<1>2. q = [o EXCEPT !.node = f] BY DEF Refreshed
<1>3. q \in RunObject BY RefreshedMoves DEF Moves
<1> HIDE DEF f
<1>4. q.run = o.run /\ q.node = f BY <1>2 DEF RunObject, RunObjects
<1>5. "ready" \in Calm BY DEF Calm, Seen
<1> QED BY <1>1, <1>3, <1>4, <1>5 DEF Eases

\* The busy loop, and the object it advances.
LEMMA BusyLoop ==
  ASSUME SInv, crashes = 0, NEW l \in Loops, pc[l] # "idle", fly[l] = {}
  PROVE  /\ WInv /\ Steady(objs[Root]) /\ Root \in Loops
         /\ of[l] = Root /\ objs[Root] \in RunObject
         /\ \A m \in Loops \ {l} : ~Busy(m)
<1>1. WInv /\ Steady(objs[Root]) BY DEF SInv
<1>2. \A m \in Loops : Busy(m) => m = l
  BY <1>1 DEF Steady, Busy
<1> QED BY <1>1, <1>2, OneObject

\* A loop stops or goes on, and the nodes in flight stay in flight.
LEMMA LoopSteady ==
  ASSUME SInv, WInv', crashes = 0, NEW l \in Loops, pc[l] # "idle", fly[l] = {},
         NEW p, objs' = [objs EXCEPT ![Root] = p], Eases(objs[Root], p),
         \/ pc' = [pc EXCEPT ![l] = "idle"]
         \/ /\ pc' = [pc EXCEPT ![l] = "top"]
            /\ p.run # "paused" /\ (p.run = "waiting" => Held(p)),
         Placed(p)' /\ Idle' => Parked(p),
         UNCHANGED <<def, fly, aborted, starts>>
  PROVE  Steady(objs[Root])'
<1>1. /\ WInv /\ Steady(objs[Root]) /\ Root \in Loops
      /\ \A m \in Loops \ {l} : ~Busy(m)
  BY BusyLoop
<1>2. /\ p = objs'[Root]
      /\ \A m \in Loops \ {l} : pc'[m] = pc[m]
      /\ pc'[l] = "top" => p.run # "paused" /\ (p.run = "waiting" => Held(p))
  BY <1>1 DEF WInv, TypeOK
<1>3. PICK o : o = objs[Root] OBVIOUS
<1>4. Placed(p)'
  <2>1. Placed(o) BY <1>1, <1>3 DEF Steady
  <2> QED BY <1>3, <2>1, PlacedStays
<1>5. \A m \in Loops \ {l} : ~Busy(m)'
  BY <1>1, <1>2, StaysBusy
<1>6. \A m \in Loops : aborted'[m] => p.run = "cancelled"
  BY <1>1, <1>3 DEF Steady, Eases
<1> QED BY <1>2, <1>4, <1>5, <1>6, SteadyStep

\* When every loop has stopped, no node is in flight and so none runs.
LEMMA NoneRuns ==
  ASSUME WInv', NEW p, Placed(p)', Idle', def' = def
  PROVE  \A n \in Nodes : p.node[n] # "running"
<1>1. \A m \in Loops : fly'[m] = {} BY DEF WInv, Control, Idle
<1> QED BY <1>1 DEF Placed, Flying, Nodes

LEMMA StopAdvancingSteady ==
  ASSUME SInv, WInv', crashes = 0, NEW l \in Loops, StopAdvancing(l)
  PROVE  Steady(objs[Root])'
<1>1. pc[l] = "top" /\ fly[l] = {}
  BY DEF StopAdvancing, SInv, WInv, Control
<1>2. PICK o : o = objs[Root] OBVIOUS
<1>3. o \in RunObject /\ of[l] = Root /\ Steady(objs[Root]) /\ Defined
  BY <1>1, <1>2, BusyLoop, Facts
<1>4. PICK q : q = Refreshed(o) OBVIOUS
<1>5. PICK r : r = Recomputed(q) OBVIOUS
<1>6. /\ UNCHANGED <<def, fly, aborted, starts>>
      /\ \/ o.run # "running" /\ Finish(l, o)
         \/ ReadyNodes(q) = {} /\ Finish(l, r)
  BY <1>2, <1>3, <1>4, <1>5 DEF StopAdvancing
<1>7. CASE o.run # "running" /\ Finish(l, o)
  <2>1. objs' = [objs EXCEPT ![Root] = o] /\ pc' = [pc EXCEPT ![l] = "idle"]
    BY <1>3, <1>7 DEF Finish
  <2>2. Parked(o) BY <1>1, <1>2, <1>3, <1>7 DEF Steady, Parked
  <2>3. Eases(o, o) BY DEF Eases
  <2> QED BY <1>1, <1>2, <1>6, <2>1, <2>2, <2>3, LoopSteady
<1>8. CASE ReadyNodes(q) = {} /\ Finish(l, r)
  <2>1. objs' = [objs EXCEPT ![Root] = r] /\ pc' = [pc EXCEPT ![l] = "idle"]
    BY <1>3, <1>8 DEF Finish
  <2>2. q \in RunObject /\ Eases(o, q) BY <1>3, <1>4, RefreshedEases
  <2>3. Eases(q, r) /\ r.run # "paused" /\ (r.run = "waiting" => Held(r))
    BY <1>5, <2>2, RecomputedPlace
  <2>4. Eases(o, r) BY <2>2, <2>3, EasesOn
  <2>5. ASSUME Placed(r)', Idle' PROVE Parked(r)
    <3>1. ASSUME r.run = "running" PROVE Expired(r)
      <4>1. r.node = q.node BY <1>5, <2>2, <3>1, RecomputedRunning
      <4>2. \A n \in Nodes : q.node[n] # "running"
        BY <1>6, <2>5, <4>1, NoneRuns
      <4>3. Placed(o) BY <1>2, <1>3 DEF Steady
      <4>4. Placed(q)' BY <1>6, <2>2, <4>3, PlacedStays
      <4>5. Placed(q) BY <1>6, <4>4 DEF Placed, Flying, Moved, Nodes
      <4> QED BY <1>3, <1>4, <1>5, <1>8, <3>1, <4>2, <4>5, RecomputedParks
    <3> QED BY <2>3, <3>1 DEF Parked
  <2> QED BY <1>1, <1>2, <1>6, <2>1, <2>4, <2>5, LoopSteady
<1> QED BY <1>6, <1>7, <1>8

LEMMA EndTickSteady ==
  ASSUME SInv, WInv', crashes = 0, NEW l \in Loops, EndTick(l)
  PROVE  Steady(objs[Root])'
<1>1. pc[l] = "tick" /\ fly[l] = {} BY DEF EndTick
<1>2. PICK o : o = objs[Root] OBVIOUS
<1>3. o \in RunObject /\ of[l] = Root
  BY <1>1, <1>2, BusyLoop
<1>4. PICK p : p = Recomputed(o) OBVIOUS
<1>5. /\ UNCHANGED <<def, fly, aborted, starts>>
      /\ objs' = [objs EXCEPT ![Root] = p]
      /\ \/ canAcceptHumanInput(p.run) /\ pc' = [pc EXCEPT ![l] = "idle"]
         \/ pc' = [pc EXCEPT ![l] = "top"]
  BY <1>2, <1>3, <1>4 DEF EndTick, Finish
<1>6. Eases(o, p) /\ p.run # "paused" /\ (p.run = "waiting" => Held(p))
  BY <1>3, <1>4, RecomputedPlace
<1>7. Idle' => canAcceptHumanInput(p.run)
  <2>1. pc \in [Loops -> {"idle", "top", "tick"}] BY DEF SInv, WInv, TypeOK
  <2> QED BY <1>5, <2>1 DEF Idle
<1>8. Idle' => Parked(p) BY <1>7 DEF Parked, canAcceptHumanInput
<1> QED BY <1>1, <1>2, <1>5, <1>6, <1>8, LoopSteady

\* A node in flight settles in a calm state, or is cancelled with its run.
LEMMA SettleSteady ==
  ASSUME SInv, WInv', crashes = 0, Quiet, NEW l \in Loops, NEW n \in fly[l], NEW p,
         Settle(l, n, p), Eases(objs[Root], p), p.node[n] \notin {"running", "waiting_timer"}
  PROVE  Steady(objs[Root])'
<1>1. WInv /\ Steady(objs[Root]) BY DEF SInv
<1>2. pc[l] = "tick" /\ of[l] = Root /\ Root \in Loops
  <2>1. pc[l] = "tick" BY <1>1 DEF WInv, Control
  <2> QED BY <1>1, <2>1, OneObject
<1>3. /\ objs' = [objs EXCEPT ![Root] = p]
      /\ fly' = [fly EXCEPT ![l] = @ \ {n}]
      /\ UNCHANGED <<def, pc, aborted, starts>>
  BY <1>2 DEF Settle
<1>4. /\ p = objs'[Root]
      /\ fly'[l] = fly[l] \ {n}
      /\ \A m \in Loops \ {l} : fly'[m] = fly[m]
  BY <1>1, <1>2, <1>3 DEF WInv, TypeOK
<1>5. PICK o : o = objs[Root] OBVIOUS
<1>6. Placed(p)'
  <2>1. PICK X : X = {n} OBVIOUS
  <2>2. \A m \in X : p.node[m] \notin {"running", "waiting_timer"} BY <2>1
  <2>3. \A m \in Nodes : Flying(m) => m \in X \/ Flying(m)'
    BY <1>4, <2>1 DEF Flying
  <2>4. Placed(o) BY <1>1, <1>5 DEF Steady
  <2>5. def' = def /\ starts' = starts BY <1>3
  <2> HIDE <2>1
  <2> QED BY <1>5, <2>2, <2>3, <2>4, <2>5, PlacedKeeps
<1>7. \A m \in Loops \ {l} : ~Busy(m)'
  BY <1>1, <1>3, <1>4, NobodyBusy, StaysBusy
<1>8. \A m \in Loops : aborted'[m] => p.run = "cancelled"
  BY <1>1, <1>3, <1>5 DEF Steady, Eases
<1>9. ~Idle' /\ pc'[l] = "tick" BY <1>2, <1>3 DEF Idle
<1> QED BY <1>3, <1>4, <1>6, <1>7, <1>8, <1>9, SteadyStep

\* What a catch leaves behind is eased, when the loop's abort meant a cancellation.
LEMMA CaughtEases ==
  ASSUME NEW o \in RunObject, NEW n \in Nodes, NEW w \in BOOLEAN, NEW p,
         p = Caught(o, n, w), w => o.run = "cancelled",
         o.node[n] = "cancelled" => o.run = "cancelled"
  PROVE  Eases(o, p) /\ p.node[n] # "running"
<1>1. CaughtFrom(o, n, p) BY CaughtMoves
<1>2. /\ p.node[n] # "running"
      /\ p.node[n] = "cancelled" => w \/ o.node[n] = "cancelled"
  BY CaughtPlace
<1>3. {"ready", "failed"} \subseteq Calm BY DEF Calm, Seen
<1> QED BY <1>1, <1>2, <1>3 DEF CaughtFrom, Eases

LEMMA PutEases ==
  ASSUME NEW o \in RunObject, NEW n \in Nodes, NEW s, NEW p, p = Put(o, n, s),
         s \in {"completed", "failed"} \/ (s = "cancelled" /\ o.run = "cancelled")
  PROVE  Eases(o, p) /\ p.node[n] = s
<1>1. s \in NodeStates BY States
<1>2. p.run = o.run /\ p.node[n] = s /\ \A m \in Nodes \ {n} : p.node[m] = o.node[m]
  BY <1>1, PutFields
<1>3. {"completed", "failed"} \subseteq Calm BY DEF Calm, Seen
<1> QED BY <1>2, <1>3 DEF Eases

LEMMA ReturnsSteady ==
  ASSUME SInv, WInv', crashes = 0, NEW l \in Loops, NEW n \in Nodes, Returns(l, n)
  PROVE  Steady(objs[Root])'
<1>1. WInv /\ Steady(objs[Root]) BY DEF SInv
<1>2. Quiet /\ n \in fly[l] BY DEF Returns, TimerReturns, WorkReturns
<1>3. PICK o : o = objs[Root] OBVIOUS
<1>4. o \in RunObject /\ of[l] = Root
  BY <1>1, <1>2, <1>3, OneObject DEF WInv, Control
<1>5. PICK w : w = aborted[l] OBVIOUS
<1>6. /\ w \in BOOLEAN /\ (w => o.run = "cancelled")
      /\ o.node[n] = "cancelled" => o.run = "cancelled"
  BY <1>1, <1>3, <1>5 DEF Steady, Placed, WInv, TypeOK
<1>7. \E p : /\ Settle(l, n, p) /\ Eases(o, p)
             /\ p.node[n] \notin {"running", "waiting_timer"}
  <2>1. CASE TimerReturns(l, n)
    <3>1. PICK p : p = IF o.node[n] = "waiting_timer"
                       THEN Put(o, n, IF w THEN "cancelled" ELSE "completed")
                       ELSE Caught(o, n, w)
      OBVIOUS
    <3>2. Settle(l, n, p) BY <1>3, <1>4, <1>5, <2>1, <3>1 DEF TimerReturns
    <3>3. CASE o.node[n] = "waiting_timer"
      <4>1. PICK s : s = IF w THEN "cancelled" ELSE "completed" OBVIOUS
      <4>2. p = Put(o, n, s) BY <3>1, <3>3, <4>1
      <4>3. s = "completed" \/ (s = "cancelled" /\ o.run = "cancelled") BY <1>6, <4>1
      <4>4. Eases(o, p) /\ p.node[n] = s BY <1>4, <4>2, <4>3, PutEases
      <4> QED BY <3>2, <4>3, <4>4
    <3>4. CASE o.node[n] # "waiting_timer"
      <4>1. p = Caught(o, n, w) BY <3>1, <3>4
      <4>2. Eases(o, p) /\ p.node[n] # "running" BY <1>4, <1>6, <4>1, CaughtEases
      <4>3. CaughtFrom(o, n, p) BY <1>4, <1>6, <4>1, CaughtMoves
      <4>4. p.node[n] # "waiting_timer" BY <3>4, <4>3 DEF CaughtFrom
      <4> QED BY <3>2, <4>2, <4>4
    <3> QED BY <3>3, <3>4
  <2>2. ASSUME NEW ok \in BOOLEAN, WorkReturns(l, n, ok)
        PROVE  \E p : /\ Settle(l, n, p) /\ Eases(o, p)
                      /\ p.node[n] \notin {"running", "waiting_timer"}
    <3>1. PICK p : p = IF o.node[n] = "running"
                       THEN Put(o, n, IF ok THEN "completed" ELSE "failed")
                       ELSE Caught(o, n, w)
      OBVIOUS
    <3>2. Settle(l, n, p) BY <1>3, <1>4, <1>5, <2>2, <3>1 DEF WorkReturns
    <3>3. o.node[n] \in {"running", "cancelled"}
      BY <1>1, <1>2, <1>3, <2>2 DEF WInv, Lineage, Counted, Work, WorkReturns
    <3>4. CASE o.node[n] = "running"
      <4>1. PICK s : s = IF ok THEN "completed" ELSE "failed" OBVIOUS
      <4>2. p = Put(o, n, s) /\ s \in {"completed", "failed"} BY <3>1, <3>4, <4>1
      <4>3. Eases(o, p) /\ p.node[n] = s BY <1>4, <4>2, PutEases
      <4> QED BY <3>2, <4>2, <4>3
    <3>5. CASE o.node[n] = "cancelled"
      <4>1. p = Caught(o, n, w) BY <3>1, <3>5
      <4>2. Eases(o, p) /\ p.node[n] # "running" BY <1>4, <1>6, <4>1, CaughtEases
      <4>3. CaughtFrom(o, n, p) BY <1>4, <1>6, <4>1, CaughtMoves
      <4>4. p.node[n] # "waiting_timer" BY <3>5, <4>3 DEF CaughtFrom
      <4> QED BY <3>2, <4>2, <4>4
    <3> QED BY <3>3, <3>4, <3>5
  <2> QED BY <2>1, <2>2 DEF Returns
<1>8. PICK p : /\ Settle(l, n, p) /\ Eases(o, p)
               /\ p.node[n] \notin {"running", "waiting_timer"}
  BY <1>7
<1> QED BY <1>2, <1>3, <1>8, SettleSteady

LEMMA StartTickSteady ==
  ASSUME SInv, WInv', crashes = 0, NEW l \in Loops, StartTick(l)
  PROVE  Steady(objs[Root])'
<1>1. pc[l] = "top" /\ fly[l] = {}
  BY DEF StartTick, SInv, WInv, Control
<1>2. PICK o : o = objs[Root] OBVIOUS
<1>3. /\ o \in RunObject /\ of[l] = Root /\ Steady(objs[Root]) /\ Defined /\ WInv
      /\ Root \in Loops /\ \A m \in Loops \ {l} : ~Busy(m)
  BY <1>1, <1>2, BusyLoop, Facts
<1>4. PICK q, ready : q = Refreshed(o) /\ ready = ReadyNodes(q) OBVIOUS
<1>5. PICK taken :
        /\ objs' = [objs EXCEPT ![Root] = AllStarted(q, ready, taken).obj]
        /\ fly' = [fly EXCEPT ![l] = AllStarted(q, ready, taken).fly]
  BY <1>2, <1>3, <1>4, Zenon DEF StartTick
<1>6. /\ starts' = [n \in Nodes |-> starts[n] + (IF n \in ready THEN 1 ELSE 0)]
      /\ aborted' = [aborted EXCEPT ![l] = FALSE]
      /\ pc' = [pc EXCEPT ![l] = "tick"]
      /\ def' = def /\ q.run = "running"
  BY <1>2, <1>3, <1>4, Zenon DEF StartTick
<1>7. PICK p, f : p = AllStarted(q, ready, taken).obj /\ f = AllStarted(q, ready, taken).fly
  OBVIOUS
<1>8. /\ p = objs'[Root] /\ fly'[l] = f /\ pc'[l] = "tick" /\ ~aborted'[l]
      /\ \A m \in Loops \ {l} :
           pc'[m] = pc[m] /\ fly'[m] = fly[m] /\ aborted'[m] = aborted[m]
  BY <1>3, <1>5, <1>6, <1>7 DEF WInv, TypeOK
<1>9. /\ q \in RunObject /\ Eases(o, q) /\ q.run = o.run
      /\ ready \in SUBSET Nodes /\ \A n \in ready : q.node[n] = "ready"
  <2>1. q \in RunObject /\ Eases(o, q) /\ q.run = o.run
    BY <1>3, <1>4, RefreshedEases
  <2> QED BY <1>4, <2>1 DEF ReadyNodes
<1>10. \A n \in Nodes : Placement(n, q.node[n], p.node[n], ready, f)
  BY <1>3, <1>6, <1>7, <1>9, TickPlaces
<1>11. Placed(q)
  <2>1. PICK X : X = {} OBVIOUS
  <2>2. \A n \in Nodes : /\ o.node[n] \in Seen
                         /\ o.node[n] = "cancelled" => o.run = "cancelled"
                         /\ o.node[n] = "running" => Flying(n)
                         /\ o.node[n] = "waiting_timer" => Flying(n) \/ Moved(n)
    BY <1>2, <1>3 DEF Steady, Placed
  <2>3. ASSUME NEW n \in Nodes
        PROVE  /\ q.node[n] \in Seen
               /\ q.node[n] = "cancelled" => q.run = "cancelled"
               /\ q.node[n] = "running" => Flying(n)
               /\ q.node[n] = "waiting_timer" => Flying(n) \/ Moved(n)
    <3>1. CASE q.node[n] = o.node[n] BY <1>9, <2>2, <3>1
    <3>2. CASE q.node[n] # o.node[n] BY <1>9, <3>2 DEF Eases, Calm, Seen
    <3> QED BY <3>1, <3>2
  <2> QED BY <2>3 DEF Placed
<1>12. /\ \A n \in Nodes : Flying(n) \/ n \in f => Flying(n)'
       /\ \A n \in Nodes : Moved(n) \/ (\E m \in ready \ {n} : def.kind[m] \in Movers) =>
                             Moved(n)'
  <2>1. \A n \in Nodes : Flying(n) \/ n \in f => Flying(n)'
    BY <1>1, <1>8 DEF Flying
  <2>2. \A m \in Nodes : /\ starts[m] \in Nat
                         /\ starts'[m] = starts[m] + (IF m \in ready THEN 1 ELSE 0)
    BY <1>3, <1>6 DEF WInv, TypeOK
  <2>3. \A m \in Nodes : m \in ready \/ starts[m] > 0 => starts'[m] > 0 BY <2>2
  <2>4. Nodes' = Nodes /\ def'.kind = def.kind BY <1>6 DEF Nodes
  <2> QED BY <1>9, <2>1, <2>3, <2>4 DEF Moved
<1>13. ASSUME NEW n \in Nodes
       PROVE  /\ p.node[n] \in Seen
              /\ p.node[n] # "cancelled"
              /\ p.node[n] = "running" => Flying(n)'
              /\ p.node[n] = "waiting_timer" => Flying(n)' \/ Moved(n)'
  <2>1. Placement(n, q.node[n], p.node[n], ready, f) BY <1>10
  <2>2. /\ q.node[n] \in Seen
        /\ q.node[n] # "cancelled"
        /\ q.node[n] = "running" => Flying(n)
        /\ q.node[n] = "waiting_timer" => Flying(n) \/ Moved(n)
    BY <1>6, <1>11 DEF Placed
  <2>3. CASE p.node[n] = q.node[n] BY <1>12, <2>2, <2>3
  <2>4. CASE p.node[n] \in Calm BY <2>4 DEF Calm, Seen
  <2>5. CASE p.node[n] = "running" /\ n \in f BY <1>12, <2>5 DEF Seen
  <2>6. CASE /\ p.node[n] = "waiting_timer"
             /\ n \in f \/ \E m \in ready \ {n} : def.kind[m] \in Movers
    BY <1>12, <2>6 DEF Seen
  <2> QED BY <2>1, <2>3, <2>4, <2>5, <2>6 DEF Placement
<1>14. Placed(p)'
  <2>1. Nodes' = Nodes BY <1>6 DEF Nodes
  <2> QED BY <1>13, <2>1 DEF Placed
<1>15. \A m \in Loops \ {l} : ~Busy(m)'
  BY <1>3, <1>8, StaysBusy
<1>16. \A m \in Loops : ~aborted'[m]
  <2>1. \A m \in Loops : ~aborted[m]
    BY <1>2, <1>3, <1>6, <1>9 DEF Steady
  <2> QED BY <1>8, <2>1
<1>17. ~Idle' BY <1>8 DEF Idle
<1> QED BY <1>6, <1>8, <1>14, <1>15, <1>16, <1>17, SteadyStep

LEMMA InitSteady ==
  ASSUME Init
  PROVE  SInv
<1>1. WInv BY InitKeeps
<1>2. /\ Root \in Loops /\ objs[Root] \in RunObject /\ live = Root
  BY <1>1, LoopsAssumption, OneObject DEF Init, Root
<1>3. PICK o : o = objs[Root] OBVIOUS
<1>4. /\ o = NewRun
      /\ \A l \in Loops : pc[l] = "idle" /\ ~aborted[l]
  BY <1>2, <1>3 DEF Init
<1>5. o.run = "queued" /\ \A n \in Nodes : o.node[n] \in {"pending", "ready"}
  BY <1>4 DEF NewRun
<1>6. Placed(objs[Root]) BY <1>3, <1>5 DEF Placed, Seen
<1>7. Parked(objs[Root]) BY <1>3, <1>5 DEF Parked
<1> QED BY <1>1, <1>4, <1>6, <1>7 DEF SInv, Steady, Busy

LEMMA NextSteady ==
  ASSUME SInv, [Next]_vars
  PROVE  SInv'
<1>1. WInv /\ WInv' BY NextKeeps DEF SInv
<1> SUFFICES ASSUME crashes' = 0 PROVE Steady(objs[Root])'
  BY <1>1 DEF SInv
<1>2. CASE Crash
  BY <1>1, <1>2, BoundsAssumption DEF Crash, WInv, TypeOK
<1>3. CASE pauseRun
  BY <1>1, <1>3, pauseRunSteady DEF pauseRun
<1>4. CASE cancelRun
  <2>1. crashes = 0 BY <1>4, Zenon DEF cancelRun
  <2> QED BY <1>1, <1>4, <2>1, cancelRunSteady
<1>5. ASSUME NEW l \in Loops, Execute(l) \/ resumeRun(l) PROVE Steady(objs[Root])'
  <2>1. crashes = 0 BY <1>5 DEF Execute, resumeRun
  <2> QED BY <1>1, <1>5, <2>1, ExecuteSteady, resumeRunSteady
<1>6. ASSUME NEW l \in Loops, Internal(l) PROVE Steady(objs[Root])'
  <2>1. CASE StopAdvancing(l)
    <3>1. crashes = 0 BY <2>1 DEF StopAdvancing
    <3> QED BY <1>1, <2>1, <3>1, StopAdvancingSteady
  <2>2. CASE StartTick(l)
    <3>1. crashes = 0 BY <2>2, Zenon DEF StartTick
    <3> QED BY <1>1, <2>2, <3>1, StartTickSteady
  <2>3. CASE EndTick(l)
    <3>1. crashes = 0 BY <2>3 DEF EndTick
    <3> QED BY <1>1, <2>3, <3>1, EndTickSteady
  <2> QED BY <1>6, <2>1, <2>2, <2>3 DEF Internal
<1>7. ASSUME NEW l \in Loops, NEW n \in Nodes, Returns(l, n) PROVE Steady(objs[Root])'
  <2>1. crashes = 0 BY <1>7 DEF Returns, TimerReturns, WorkReturns, Settle
  <2> QED BY <1>1, <1>7, <2>1, ReturnsSteady
<1>8. ASSUME NEW l \in Loops, NEW n \in Nodes, NEW d \in Decisions,
             submitHumanDecision(l, n, d)
      PROVE  Steady(objs[Root])'
  <2>1. crashes = 0 BY <1>8, Zenon DEF submitHumanDecision
  <2> QED BY <1>1, <1>8, <2>1, submitHumanDecisionSteady
<1>9. CASE UNCHANGED vars
  BY <1>9, SteadyStays DEF vars, SInv
<1> QED BY <1>2, <1>3, <1>4, <1>5, <1>6, <1>7, <1>8, <1>9 DEF Next

\* While the daemon lives, every node that runs is in flight, every timer that waits
\* is in flight or found the run moved, one loop at most goes on by itself, and no
\* loop stops before it has looked at every node.
THEOREM WorkflowSteady == Spec => []SInv
BY InitSteady, NextSteady, PTL DEF Spec

\* A run whose loops have all stopped (advanceRun returned) is over or waits for
\* somebody, except behind an expired approval and for a timer that found its run
\* moved by a node of the same tick.
THEOREM WorkflowNeverStranded == Spec => []NeverStranded
<1>1. ASSUME SInv, Idle, crashes = 0
      PROVE  /\ stored.run \in {"running", "paused"} =>
                  \E n \in Nodes : stored.node[n] = "expired"
             /\ stored.run = "waiting" => \E n \in Nodes :
                  \/ stored.node[n] = "waiting_event"
                  \/ /\ stored.node[n] = "waiting_timer"
                     /\ \E m \in Nodes \ {n} : starts[m] > 0 /\ def.kind[m] \in Movers
  <2>1. WInv /\ Steady(objs[Root]) /\ Parked(objs[Root]) BY <1>1 DEF SInv, Steady
  <2>2. live # None => stored = objs[Root]
    BY <1>1, <2>1, OneObject DEF WInv, Rest
  <2>3. live = None => TerminalRun(stored.run) BY <1>1, <2>1, OneObject
  <2>4. CASE live = None BY <2>3, <2>4 DEF TerminalRun
  <2>5. CASE live # None
    <3>1. \A n \in Nodes : ~Flying(n) BY <1>1, <2>1 DEF WInv, Control, Idle, Flying
    <3>2. \A n \in Nodes : stored.node[n] = "waiting_timer" => Moved(n)
      BY <2>1, <2>2, <2>5, <3>1 DEF Steady, Placed
    <3> QED BY <2>1, <2>2, <2>5, <3>2 DEF Parked, Held, Expired, Moved
  <2> QED BY <2>4, <2>5
<1>2. SInv => NeverStranded BY <1>1 DEF NeverStranded
<1> QED BY <1>2, WorkflowSteady, PTL

=============================================================================
