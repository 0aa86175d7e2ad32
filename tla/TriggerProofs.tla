--------------------------- MODULE TriggerProofs ---------------------------
(***************************************************************************)
(* Theorems about Triggers, for any set of triggers, any number of ticks   *)
(* and any schedule.                                                       *)
(***************************************************************************)
EXTENDS Triggers, FiniteSetTheorems, SequenceTheorems, TLAPS

\* The fields of a row and of a tick, without the bounds of the instance.
Row == [id : Ids, kind : Kinds, enabled : BOOLEAN, last : Nat \cup {None}]
State == [at : Nat, paused : BOOLEAN, todo : Seq(Row)]

\* A table, or what is left of a snapshot of one, names a trigger once.
Distinct(rows) == \A i, j \in 1..Len(rows) : rows[i].id = rows[j].id => i = j

\* No fire is recorded later than at.
Past(rows, at) ==
  \A i \in 1..Len(rows) : rows[i].last \in Nat => rows[i].last <= at

\* A row remembers the fires of its trigger: none is in a later minute.
Remembers(r, fires) ==
  \A f \in fires : f[1] = r.id => r.last \in Nat /\ f[2] <= Minute(r.last)

Typed ==
  /\ clock \in Nat /\ faults \in Nat /\ paused \in BOOLEAN
  /\ table \in Seq(Row) /\ Distinct(table) /\ Past(table, clock)
  /\ tick \in [Ticks -> State]
  /\ \A k \in Ticks : /\ tick[k].at <= clock
                      /\ Distinct(tick[k].todo) /\ Past(tick[k].todo, tick[k].at)
  /\ fired \subseteq Ids \X Nat

\* What holds while ticks have not overlapped and nothing has failed: one tick
\* at most is under way, the table remembers every fire but the one in flight,
\* and so do the rows the tick has still before it.
Alone == \A k, j \in Ticks : Running(k) /\ Running(j) => k = j
InTable ==
  \A i \in 1..Len(table), f \in fired : f[1] = table[i].id =>
    \/ table[i].last \in Nat /\ f[2] <= Minute(table[i].last)
    \/ \E k \in Ticks : Running(k) /\ Firing(k).id = f[1] /\ f[2] <= Minute(tick[k].at)
Ahead ==
  \A k \in Ticks : Running(k) =>
    /\ Past(table, tick[k].at)
    /\ \A i \in 2..Len(tick[k].todo) : Remembers(tick[k].todo[i], fired)
Orderly == ~overlapped /\ faults = 0

\* What is being fired has its entry in the map; an entry may be there without.
InMap == \A k \in Ticks : Running(k) => Firing(k).id \in inflight

TInv == Typed /\ OneInFlight /\ InMap /\ (Orderly => Alone /\ InTable /\ Ahead)

-----------------------------------------------------------------------------
\* Min finds the least element of a set of numbers, finite or not: the
\* intervals 1..x are ordered as their ends are, and finite sets well-founded.
LEMMA Least ==
  ASSUME NEW S \in SUBSET Nat, S # {}
  PROVE  Min(S) \in S /\ \A y \in S : Min(S) <= y
<1> DEFINE T == {1..x : x \in S}
<1>1. T \subseteq FiniteSubsetsOf(Nat)
  <2>1. \A x \in S : 1..x \in SUBSET Nat /\ IsFiniteSet(1..x)
    BY FS_Interval
  <2> QED BY <2>1 DEF FiniteSubsetsOf
<1>2. \E A \in T : \A B \in T : <<B, A>> \notin StrictSubsetOrdering(Nat)
  <2>1. T # {} OBVIOUS
  <2>2. IsWellFoundedOn(StrictSubsetOrdering(Nat), FiniteSubsetsOf(Nat))
    BY FS_StrictSubsetOrderingWellFounded, Zenon
  <2> HIDE DEF T
  <2> QED BY <2>1, <2>2, <1>1, WFMin, Zenon
<1>3. PICK x \in S : \A y \in S : <<1..y, 1..x>> \notin StrictSubsetOrdering(Nat)
  BY <1>2
<1>4. ASSUME NEW y \in S, ~(x <= y) PROVE FALSE
  <2>1. 1..y \in SUBSET Nat /\ 1..x \in SUBSET Nat OBVIOUS
  <2>2. 1..y \subseteq 1..x BY <1>4
  <2>3. x \in 1..x /\ x \notin 1..y BY <1>4
  <2>4. 1..y # 1..x BY <2>3
  <2>5. <<1..y, 1..x>> \in StrictSubsetOrdering(Nat)
    BY <2>1, <2>2, <2>4 DEF StrictSubsetOrdering
  <2> QED BY <2>5, <1>3
<1>5. \A y \in S : x <= y BY <1>4
<1> QED BY <1>5 DEF Min

\* Minutes do not go back, and a minute later is another minute.
LEMMA Minutes ==
  ASSUME NEW a \in Nat, NEW b \in Nat, a <= b
  PROVE  /\ Minute(a) \in Nat
         /\ Minute(a) <= Minute(b)
         /\ b - a >= PerMinute => Minute(a) < Minute(b)
<1> USE TriggerAssumption DEF Minute
<1> DEFINE x == a \div PerMinute
           y == b \div PerMinute
<1>1. /\ x \in Nat /\ y \in Nat
      /\ x * PerMinute <= a /\ a < (x + 1) * PerMinute
      /\ y * PerMinute <= b /\ b < (y + 1) * PerMinute
  OBVIOUS
<1> HIDE DEF x, y
<1>2. ~(x <= y) => x * PerMinute >= (y + 1) * PerMinute
  BY <1>1
<1>3. ~(x < y) => (x + 1) * PerMinute >= (y + 1) * PerMinute
  BY <1>1
<1>4. x <= y BY <1>1, <1>2
<1>5. ASSUME b - a >= PerMinute PROVE x < y
  <2>1. (y + 1) * PerMinute = y * PerMinute + PerMinute
    BY <1>1
  <2>2. ~(x < y) => x = y
    BY <1>1, <1>4
  <2> QED BY <1>1, <1>5, <2>1, <2>2
<1> QED BY <1>1, <1>4, <1>5 DEF x, y

-----------------------------------------------------------------------------
\* The rows of a snapshot from some row on.
LastOf(rest, rows) ==
  \E m \in 1..Len(rows) :
    /\ Len(rest) = Len(rows) - m + 1
    /\ \A i \in 1..Len(rest) : rest[i] = rows[m + i - 1]

\* A tick that goes on is at the row that fires, with the rows behind it.
LEMMA GoesOn ==
  ASSUME NEW t \in State, NEW rows \in Seq(Row), NEW busy,
         NEW new, new = Onward(t, rows, busy), new # Idle
  PROVE  /\ new \in State /\ new.at = t.at /\ new.todo # <<>>
         /\ Head(new.todo) = new.todo[1]
         /\ Fires(t, new.todo[1], busy)
         /\ LastOf(new.todo, rows)
<1> DEFINE hits == {i \in DOMAIN rows : Fires(t, rows[i], busy)}
           m == Min(hits)
<1>1. hits # {} BY DEF Onward
<1>2. hits \in SUBSET Nat OBVIOUS
<1>3. m \in hits
  <2> HIDE DEF hits
  <2> QED BY <1>1, <1>2, Least
<1>4. new = [t EXCEPT !.todo = SubSeq(rows, m, Len(rows))]
  BY <1>1 DEF Onward
<1>5. m \in 1..Len(rows) /\ Fires(t, rows[m], busy)
  BY <1>3
<1> HIDE DEF m, hits
<1>6. DOMAIN rows = 1..Len(rows) /\ Len(rows) \in Nat
      /\ \A i \in 1..Len(rows) : rows[i] \in Row
  BY LenProperties, ElementOfSeq
<1>7. /\ SubSeq(rows, m, Len(rows)) \in Seq(Row)
      /\ Len(SubSeq(rows, m, Len(rows))) = Len(rows) - m + 1
      /\ \A i \in 1..(Len(rows) - m + 1) : SubSeq(rows, m, Len(rows))[i] = rows[m + i - 1]
  BY <1>5, <1>6, SubSeqProperties
<1>8. new \in State /\ new.at = t.at /\ new.todo = SubSeq(rows, m, Len(rows))
  <2> DEFINE rest == SubSeq(rows, m, Len(rows))
  <2>1. rest \in Seq(Row) BY <1>7
  <2>2. new = [t EXCEPT !.todo = rest] BY <1>4
  <2> HIDE DEF rest
  <2>3. new \in State /\ new.at = t.at /\ new.todo = rest
    BY <2>1, <2>2 DEF State
  <2> QED BY <2>3 DEF rest
<1>9. Len(new.todo) >= 1 /\ new.todo[1] = rows[m]
  BY <1>5, <1>6, <1>7, <1>8
<1>10. new.todo \in Seq(Row) BY <1>7, <1>8
<1>11. new.todo # <<>> /\ Head(new.todo) = new.todo[1]
  BY <1>9, <1>10, EmptySeq
<1>12. LastOf(new.todo, rows) BY <1>5, <1>7, <1>8 DEF LastOf
<1> QED BY <1>5, <1>8, <1>9, <1>11, <1>12

\* An idle tick.
LEMMA IdleTick == Idle \in State /\ Idle.todo = <<>> /\ Len(Idle.todo) = 0
BY DEF Idle, State

\* What a tick goes on with is typed, was ahead of it, and is not in the map.
LEMMA OnwardKeeps ==
  ASSUME NEW t \in State, NEW rows \in Seq(Row), NEW busy,
         Distinct(rows), Past(rows, t.at), t.at <= clock, clock \in Nat,
         fired \subseteq Ids \X Nat,
         NEW new, new = Onward(t, rows, busy)
  PROVE  /\ new \in State /\ new.at <= clock
         /\ Distinct(new.todo) /\ Past(new.todo, new.at)
         /\ Fired(new) \subseteq Ids \X Nat
         /\ fired \subseteq Fired(new)
         /\ new.todo # <<>> => /\ new.at = t.at
                              /\ Head(new.todo).id \in Ids \ busy
         /\ \A f \in Fired(new) \ fired :
              /\ new.todo # <<>>
              /\ f = <<Head(new.todo).id, Minute(new.at)>>
<1>1. CASE new = Idle
  <2>1. Fired(new) = fired BY <1>1 DEF Fired
  <2>2. new.at = 0 BY <1>1 DEF Idle
  <2> QED BY <1>1, <2>1, <2>2, IdleTick DEF Distinct, Past
<1>2. CASE new # Idle
  <2> DEFINE h == Head(new.todo)
  <2>1. /\ new \in State /\ new.at = t.at /\ new.todo # <<>> /\ h = new.todo[1]
        /\ Fires(t, new.todo[1], busy)
    BY <1>2, GoesOn
  <2>2. PICK m \in 1..Len(rows) :
          /\ Len(new.todo) = Len(rows) - m + 1
          /\ \A i \in 1..Len(new.todo) : new.todo[i] = rows[m + i - 1]
    <3>1. LastOf(new.todo, rows) BY <1>2, GoesOn
    <3> HIDE DEF h
    <3> QED BY <3>1 DEF LastOf
  <2>3. Len(rows) \in Nat /\ \A i \in 1..Len(rows) : rows[i] \in Row
    BY LenProperties, ElementOfSeq
  <2>4. \A i \in 1..Len(new.todo) : m + i - 1 \in 1..Len(rows)
    BY <2>2, <2>3
  <2>5. Distinct(new.todo)
    <3>1. SUFFICES ASSUME NEW i \in 1..Len(new.todo), NEW j \in 1..Len(new.todo),
                          new.todo[i].id = new.todo[j].id
                   PROVE  i = j
      BY DEF Distinct
    <3>2. rows[m + i - 1].id = rows[m + j - 1].id BY <3>1, <2>2
    <3>3. m + i - 1 = m + j - 1 BY <3>2, <2>4 DEF Distinct
    <3> QED BY <3>3, <2>2, <2>3
  <2>6. Past(new.todo, new.at)
    BY <2>1, <2>2, <2>4 DEF Past
  <2>7. h \in Row /\ h.id \in Ids
    <3>1. h = rows[m] BY <2>1, <2>2, <2>3
    <3> QED BY <3>1, <2>3 DEF Row
  <2>8. h.id \notin busy BY <2>1 DEF Fires
  <2>9. t.at \in Nat BY DEF State
  <2>10. Minute(new.at) \in Nat BY <2>1, <2>9, Minutes
  <2>11. Fired(new) \subseteq fired \cup {<<h.id, Minute(new.at)>>} /\ fired \subseteq Fired(new)
    BY DEF Fired
  <2> HIDE DEF h
  <2>12. Fired(new) \subseteq Ids \X Nat
    BY <2>7, <2>10, <2>11
  <2> QED BY <2>1, <2>5, <2>6, <2>7, <2>8, <2>11, <2>12 DEF h
<1> QED BY <1>1, <1>2

\* If the rows remember what their triggers have fired, what fires has not fired
\* in this minute, and the rows behind it remember this fire too.
LEMMA OnwardOnce ==
  ASSUME NEW t \in State, NEW rows \in Seq(Row), NEW busy,
         Distinct(rows), Past(rows, t.at), fired \subseteq Ids \X Nat,
         \A i \in 1..Len(rows) : Remembers(rows[i], fired),
         NEW new, new = Onward(t, rows, busy), new.todo # <<>>
  PROVE  /\ \A i \in 2..Len(new.todo) : Remembers(new.todo[i], Fired(new))
         /\ /\ Every >= PerMinute
            /\ Head(new.todo).kind # "watch"
            => <<Head(new.todo).id, Minute(new.at)>> \notin fired
<1> DEFINE h == Head(new.todo)
<1>1. new # Idle BY IdleTick
<1>2. /\ new \in State /\ new.at = t.at /\ new.todo # <<>> /\ h = new.todo[1]
      /\ Fires(t, new.todo[1], busy)
  BY <1>1, GoesOn
<1>3. PICK m \in 1..Len(rows) :
        /\ Len(new.todo) = Len(rows) - m + 1
        /\ \A i \in 1..Len(new.todo) : new.todo[i] = rows[m + i - 1]
  <2>1. LastOf(new.todo, rows) BY <1>1, GoesOn
  <2> HIDE DEF h
  <2> QED BY <2>1 DEF LastOf
<1>4. Len(rows) \in Nat /\ \A i \in 1..Len(rows) : rows[i] \in Row
  BY LenProperties, ElementOfSeq
<1>5. h = rows[m] BY <1>2, <1>3, <1>4
<1>6. ASSUME NEW i \in 2..Len(new.todo)
      PROVE  Remembers(new.todo[i], Fired(new))
  <2>1. m + i - 1 \in 1..Len(rows) /\ m + i - 1 # m /\ new.todo[i] = rows[m + i - 1]
    BY <1>3, <1>4
  <2>2. new.todo[i].id # h.id
    BY <2>1, <1>5 DEF Distinct
  <2>3. \A f \in Fired(new) : f \in fired \/ f = <<h.id, Minute(new.at)>>
    BY DEF Fired
  <2>4. Remembers(new.todo[i], fired) BY <2>1
  <2> HIDE DEF h
  <2> QED BY <2>2, <2>3, <2>4 DEF Remembers
<1>7. ASSUME Every >= PerMinute, h.kind # "watch",
             <<h.id, Minute(new.at)>> \in fired
      PROVE  FALSE
  <2>1. h.last \in Nat /\ Minute(new.at) <= Minute(h.last)
    <3>1. Remembers(h, fired) BY <1>5
    <3> QED BY <1>7, <3>1 DEF Remembers
  <2>2. h.last <= new.at BY <2>1, <1>2, <1>5 DEF Past
  <2>3. new.at \in Nat BY <1>2 DEF State
  <2>4. Minute(h.last) = Minute(new.at) /\ ~(new.at - h.last >= PerMinute)
    <3> DEFINE a == h.last
               b == new.at
    <3>1. a \in Nat /\ b \in Nat /\ a <= b /\ Minute(b) <= Minute(a)
      BY <2>1, <2>2, <2>3
    <3> HIDE DEF a, b
    <3>2. /\ Minute(a) \in Nat /\ Minute(b) \in Nat /\ Minute(a) <= Minute(b)
          /\ b - a >= PerMinute => Minute(a) < Minute(b)
      BY <3>1, Minutes
    <3>3. Minute(a) = Minute(b) /\ ~(b - a >= PerMinute)
      BY <3>1, <3>2
    <3> QED BY <3>3 DEF a, b
  <2>5. Due(h, new.at) BY <1>2 DEF Fires
  <2>6. h.last # None BY <2>1, TriggerAssumption
  <2>7. CASE h.kind = "cron" BY <2>4, <2>5, <2>6, <2>7 DEF Due
  <2>8. CASE h.kind = "interval"
    <3>1. new.at - h.last >= Every BY <2>5, <2>6, <2>8 DEF Due
    <3> QED BY <3>1, <2>1, <2>3, <2>4, <1>7, TriggerAssumption
  <2> QED BY <2>5, <2>7, <2>8, <1>7 DEF Due
<1> QED BY <1>6, <1>7

-----------------------------------------------------------------------------
\* A row of a table, and what is left of a snapshot without its first row.
LEMMA TableRow ==
  ASSUME NEW rows \in Seq(Row)
  PROVE  /\ Len(rows) \in Nat /\ DOMAIN rows = 1..Len(rows)
         /\ \A i \in 1..Len(rows) : rows[i] \in Row
         /\ rows # <<>> => /\ Head(rows) = rows[1] /\ Len(rows) >= 1
                           /\ Tail(rows) \in Seq(Row) /\ Len(Tail(rows)) = Len(rows) - 1
                           /\ \A i \in 1..Len(Tail(rows)) : Tail(rows)[i] = rows[i + 1]
<1>1. Len(rows) \in Nat /\ DOMAIN rows = 1..Len(rows)
      /\ \A i \in 1..Len(rows) : rows[i] \in Row
  BY LenProperties, ElementOfSeq
<1>2. ASSUME rows # <<>>
      PROVE  /\ Head(rows) = rows[1] /\ Len(rows) >= 1
             /\ Tail(rows) \in Seq(Row) /\ Len(Tail(rows)) = Len(rows) - 1
             /\ \A i \in 1..Len(Tail(rows)) : Tail(rows)[i] = rows[i + 1]
  BY <1>1, <1>2, EmptySeq, HeadTailProperties
<1> QED BY <1>1, <1>2

\* The tail of a snapshot is typed as the snapshot is.
LEMMA TailKeeps ==
  ASSUME NEW rows \in Seq(Row), rows # <<>>, Distinct(rows), NEW at, Past(rows, at)
  PROVE  Tail(rows) \in Seq(Row) /\ Distinct(Tail(rows)) /\ Past(Tail(rows), at)
<1>1. /\ Tail(rows) \in Seq(Row) /\ Len(rows) \in Nat /\ Len(Tail(rows)) = Len(rows) - 1
      /\ \A i \in 1..Len(Tail(rows)) : Tail(rows)[i] = rows[i + 1]
  BY TableRow
<1>2. Distinct(Tail(rows))
  <2>1. SUFFICES ASSUME NEW i \in 1..Len(Tail(rows)), NEW j \in 1..Len(Tail(rows)),
                        Tail(rows)[i].id = Tail(rows)[j].id
                 PROVE  i = j
    BY DEF Distinct
  <2>2. i + 1 \in 1..Len(rows) /\ j + 1 \in 1..Len(rows) BY <1>1
  <2>3. rows[i + 1].id = rows[j + 1].id BY <2>1, <1>1
  <2>4. i + 1 = j + 1 BY <2>2, <2>3 DEF Distinct
  <2> QED BY <2>4
<1>3. Past(Tail(rows), at)
  <2>1. \A i \in 1..Len(Tail(rows)) : i + 1 \in 1..Len(rows) BY <1>1
  <2> QED BY <1>1, <2>1 DEF Past
<1> QED BY <1>1, <1>2, <1>3

-----------------------------------------------------------------------------
\* The service starts over rows that have never fired.
LEMMA InitTInv == Init => TInv
<1> SUFFICES ASSUME Init PROVE TInv OBVIOUS
<1>0. PICK S \in SUBSET Ids : \E kind \in [S -> Kinds] :
        table = [i \in DOMAIN SetToSeq(S) |->
                   NewRow(SetToSeq(S)[i], kind[SetToSeq(S)[i]])]
  BY DEF Init
<1>1. PICK kind \in [S -> Kinds] :
        table = [i \in DOMAIN SetToSeq(S) |->
                   NewRow(SetToSeq(S)[i], kind[SetToSeq(S)[i]])]
  BY <1>0
<1> DEFINE q == SetToSeq(S)
           n == Cardinality(S)
<1>2. n \in Nat /\ q \in [1..n -> S] /\ \A i, j \in 1..n : q[i] = q[j] => i = j
  <2>1. IsFiniteSet(S) BY TriggerAssumption, FS_Subset
  <2>2. n \in Nat /\ ExistsBijection(1..n, S) BY <2>1, FS_CardinalityType
  <2>3. \E f \in [1..n -> S] : IsInjective(f)
    BY <2>2 DEF ExistsBijection, Bijection, Injection
  <2>4. q \in [1..n -> S] /\ IsInjective(q)
    BY <2>3 DEF SetToSeq
  <2> QED BY <2>2, <2>4 DEF IsInjective
<1> HIDE DEF q, n
<1>3. \A i \in 1..n : /\ NewRow(q[i], kind[q[i]]) \in Row
                      /\ NewRow(q[i], kind[q[i]]).id = q[i]
                      /\ NewRow(q[i], kind[q[i]]).last = None
  BY <1>2 DEF NewRow, Row
<1>4. table = [i \in 1..n |-> NewRow(q[i], kind[q[i]])]
  BY <1>1, <1>2 DEF q
<1>5. table \in Seq(Row) /\ Len(table) = n
  <2>1. table \in [1..n -> Row] BY <1>3, <1>4
  <2>2. table \in Seq(Row) BY <2>1, <1>2, SeqDef
  <2>3. DOMAIN table = 1..Len(table) /\ Len(table) \in Nat BY <2>2, LenProperties
  <2> QED BY <1>2, <2>1, <2>2, <2>3
<1>6. Distinct(table) BY <1>2, <1>3, <1>4, <1>5 DEF Distinct
<1>7. Past(table, clock) BY <1>3, <1>4, <1>5, TriggerAssumption DEF Past
<1>8. Typed
  <2>1. \A k \in Ticks : tick[k] = Idle BY DEF Init
  <2>2. Idle.at = 0 BY DEF Idle
  <2>3. Distinct(Idle.todo) /\ Past(Idle.todo, 0) BY IdleTick DEF Distinct, Past
  <2> QED BY <1>5, <1>6, <1>7, <2>1, <2>2, <2>3, IdleTick DEF Init, Typed
<1>9. \A k \in Ticks : ~Running(k) BY DEF Init, Running, Idle
<1> QED BY <1>8, <1>9 DEF TInv, OneInFlight, InMap, Alone, InTable, Ahead, Init

-----------------------------------------------------------------------------
\* A tick moves to a trigger that is not in the map, where those of the others are.
LEMMA MoveKeepsApart ==
  ASSUME OneInFlight, tick \in [Ticks -> State], NEW k \in Ticks, NEW new \in State,
         tick' = [tick EXCEPT ![k] = new],
         NEW busy, inflight' = Entered(new, busy),
         \A x \in Ticks \ {k} : Running(x) => Firing(x).id \in busy,
         new.todo # <<>> => Head(new.todo).id \notin busy
  PROVE  OneInFlight' /\ InMap'
<1>1. tick'[k] = new /\ \A x \in Ticks \ {k} : tick'[x] = tick[x]
  OBVIOUS
<1>2. \A x \in Ticks \ {k} : Running(x)' = Running(x) /\ Firing(x)' = Firing(x)
  BY <1>1 DEF Running, Firing
<1>3. ASSUME Running(k)'
      PROVE  Firing(k)' = Head(new.todo) /\ new.todo # <<>> /\ new # Idle
  BY <1>1, <1>3, IdleTick DEF Firing, Running
<1>4. OneInFlight'
  <2>1. SUFFICES ASSUME NEW i \in Ticks, NEW j \in Ticks,
                        Running(i)', Running(j)', Firing(i).id' = Firing(j).id', i # j
                 PROVE  FALSE
    BY DEF OneInFlight
  <2>2. CASE i # k /\ j # k BY <1>2, <2>1, <2>2 DEF OneInFlight
  <2>3. ASSUME NEW x \in Ticks \ {k}, Running(x)', Running(k)', Firing(x).id' = Firing(k).id'
        PROVE  FALSE
    <3>1. Firing(x).id \in busy BY <1>2, <2>3
    <3> QED BY <1>2, <1>3, <2>3, <3>1
  <2> QED BY <2>1, <2>2, <2>3
<1>5. InMap'
  <2>1. busy \subseteq inflight' BY DEF Entered
  <2>2. Running(k)' => Firing(k).id' \in inflight' BY <1>3 DEF Entered
  <2> QED BY <1>2, <2>1, <2>2 DEF InMap
<1> QED BY <1>4, <1>5

\* When a tick starts alone, every row remembers.
LEMMA StartRemembers ==
  ASSUME TInv, NEW k \in Ticks, StartTick(k), ~overlapped', faults = 0
  PROVE  /\ Orderly /\ \A j \in Ticks : ~Running(j)
         /\ \A i \in 1..Len(table) : Remembers(table[i], fired)
<1>1. Orderly /\ \A j \in Ticks : ~Running(j) BY DEF StartTick, Orderly
<1> QED BY <1>1 DEF TInv, InTable, Remembers

\* While one tick is under way, the rows ahead of it remember.
LEMMA TailRemembers ==
  ASSUME TInv, NEW k \in Ticks, Running(k), Orderly
  PROVE  \A i \in 1..Len(Tail(tick[k].todo)) : Remembers(Tail(tick[k].todo)[i], fired)
<1>1. tick[k].todo \in Seq(Row) /\ tick[k].todo # <<>>
  BY DEF TInv, Typed, State, Running
<1>2. /\ Len(tick[k].todo) \in Nat
      /\ Len(Tail(tick[k].todo)) = Len(tick[k].todo) - 1
      /\ \A i \in 1..Len(Tail(tick[k].todo)) : Tail(tick[k].todo)[i] = tick[k].todo[i + 1]
  BY <1>1, TableRow
<1>3. \A i \in 1..Len(Tail(tick[k].todo)) : i + 1 \in 2..Len(tick[k].todo)
  BY <1>2
<1> QED BY <1>2, <1>3 DEF TInv, Ahead

-----------------------------------------------------------------------------
\* StartTick: from the whole table.
LEMMA StartKeeps ==
  ASSUME TInv, NEW k \in Ticks, StartTick(k)
  PROVE  TInv'
<1> DEFINE t == Snapshot
           new == Onward(t, table, inflight)
<1>1. /\ tick' = [tick EXCEPT ![k] = new] /\ fired' = Fired(new)
      /\ inflight' = Entered(new, inflight)
      /\ clock' = clock /\ table' = table /\ faults' = faults /\ paused' = paused
      /\ overlapped' = (overlapped \/ \E j \in Ticks : Running(j))
  BY DEF StartTick, FirstFire
<1>2. t \in State /\ t.at = clock
  BY EmptySeq DEF State, TInv, Typed, Snapshot
<1> HIDE DEF t
<1>3. /\ new \in State /\ new.at <= clock
      /\ Distinct(new.todo) /\ Past(new.todo, new.at)
      /\ Fired(new) \subseteq Ids \X Nat /\ fired \subseteq Fired(new)
      /\ new.todo # <<>> => new.at = t.at /\ Head(new.todo).id \in Ids \ inflight
      /\ \A f \in Fired(new) \ fired :
           new.todo # <<>> /\ f = <<Head(new.todo).id, Minute(new.at)>>
  <2>1. table \in Seq(Row) /\ Distinct(table) /\ Past(table, t.at) /\ t.at <= clock
        /\ clock \in Nat /\ fired \subseteq Ids \X Nat
    BY <1>2 DEF TInv, Typed
  <2> HIDE DEF new
  <2>2. new = Onward(t, table, inflight) BY DEF new
  <2> QED BY <1>2, <2>1, <2>2, OnwardKeeps
<1>5. ASSUME Orderly', new.todo # <<>>
      PROVE  \A i \in 2..Len(new.todo) : Remembers(new.todo[i], Fired(new))
  <2>1. \A i \in 1..Len(table) : Remembers(table[i], fired)
    BY <1>1, <1>5, StartRemembers DEF Orderly
  <2>2. table \in Seq(Row) /\ Distinct(table) /\ Past(table, t.at)
        /\ fired \subseteq Ids \X Nat
    BY <1>2 DEF TInv, Typed
  <2> HIDE DEF new
  <2>3. new = Onward(t, table, inflight) BY DEF new
  <2> QED BY <1>2, <1>5, <2>1, <2>2, <2>3, OnwardOnce
<1> HIDE DEF new
<1>6. tick \in [Ticks -> State] BY DEF TInv, Typed
<1>7. tick'[k] = new /\ \A x \in Ticks \ {k} : tick'[x] = tick[x]
  BY <1>1, <1>6
<1>8. Typed'
  <2>1. tick' \in [Ticks -> State] BY <1>1, <1>3, <1>6
  <2>2. ASSUME NEW x \in Ticks
        PROVE  tick'[x].at <= clock /\ Distinct(tick'[x].todo)
               /\ Past(tick'[x].todo, tick'[x].at)
    BY <1>3, <1>7 DEF TInv, Typed
  <2> QED BY <1>1, <1>3, <2>1, <2>2 DEF TInv, Typed
<1>9. OneInFlight' /\ InMap'
  <2>1. OneInFlight /\ \A x \in Ticks \ {k} : Running(x) => Firing(x).id \in inflight
    BY DEF TInv, InMap
  <2> QED BY <1>1, <1>3, <1>6, <2>1, MoveKeepsApart
<1>10. ASSUME Orderly' PROVE Alone' /\ InTable' /\ Ahead'
  <2>1. /\ \A j \in Ticks : ~Running(j)
        /\ \A i \in 1..Len(table) : Remembers(table[i], fired)
    BY <1>1, <1>10, StartRemembers DEF Orderly
  <2>2. \A x \in Ticks : Running(x)' => x = k
    BY <1>7, <2>1 DEF Running
  <2>3. ASSUME NEW i \in 1..Len(table), NEW f \in fired', f[1] = table[i].id
        PROVE  \/ table[i].last \in Nat /\ f[2] <= Minute(table[i].last)
               \/ /\ Running(k)' /\ Firing(k).id' = f[1]
                  /\ f[2] <= Minute(tick'[k].at)
    <3>1. CASE f \in fired BY <2>1, <2>3, <3>1 DEF Remembers
    <3>2. CASE f \notin fired
      <4>1. new.todo # <<>> /\ f = <<Head(new.todo).id, Minute(new.at)>>
        BY <1>1, <1>3, <2>3, <3>2
      <4>2. Running(k)' /\ Firing(k)' = Head(new.todo)
        BY <1>7, <4>1 DEF Running, Firing
      <4>3. new.at \in Nat BY <1>3 DEF State
      <4>4. Minute(new.at) <= Minute(new.at) BY <4>3, Minutes
      <4> QED BY <1>7, <4>1, <4>2, <4>4
    <3> QED BY <3>1, <3>2
  <2>4. InTable'
    BY <1>1, <2>3 DEF InTable
  <2>5. Ahead'
    <3>1. SUFFICES ASSUME Running(k)'
                   PROVE  /\ Past(table, tick'[k].at)
                          /\ \A i \in 2..Len(tick'[k].todo) :
                               Remembers(tick'[k].todo[i], fired')
      BY <1>1, <2>2 DEF Ahead
    <3>2. new.todo # <<>> BY <1>7, <3>1 DEF Running
    <3>3. tick'[k].at = clock BY <1>2, <1>3, <1>7, <3>2
    <3> QED BY <1>1, <1>5, <1>7, <1>10, <3>2, <3>3 DEF TInv, Typed
  <2> QED BY <2>2, <2>4, <2>5 DEF Alone
<1> QED BY <1>8, <1>9, <1>10 DEF TInv

\* The fire that has ended is recorded: the rows stay the same but for one `last`.
LEMMA Recorded ==
  ASSUME NEW rows \in Seq(Row), rows = table, Distinct(table), NEW id, NEW at \in Nat
  PROVE  /\ RecordFire(id, at) \in Seq(Row)
         /\ Len(RecordFire(id, at)) = Len(table)
         /\ Distinct(RecordFire(id, at))
         /\ \A i \in 1..Len(table) :
              /\ RecordFire(id, at)[i].id = table[i].id
              /\ RecordFire(id, at)[i].last = IF table[i].id = id THEN at ELSE table[i].last
<1> DEFINE new == RecordFire(id, at)
           n == Len(table)
<1>1. n \in Nat /\ DOMAIN table = 1..n /\ \A i \in 1..n : table[i] \in Row
  BY TableRow
<1>2. new = [i \in 1..n |-> IF table[i].id = id THEN [table[i] EXCEPT !.last = at] ELSE table[i]]
  BY <1>1 DEF RecordFire
<1>3. \A i \in 1..n : /\ new[i] \in Row /\ new[i].id = table[i].id
                      /\ new[i].last = IF table[i].id = id THEN at ELSE table[i].last
  <2> HIDE DEF new, n
  <2> SUFFICES ASSUME NEW i \in 1..n
               PROVE  /\ new[i] \in Row /\ new[i].id = table[i].id
                      /\ new[i].last = IF table[i].id = id THEN at ELSE table[i].last
    OBVIOUS
  <2>1. table[i] \in Row BY <1>1
  <2>2. new[i] = IF table[i].id = id THEN [table[i] EXCEPT !.last = at] ELSE table[i]
    BY <1>2
  <2> QED BY <2>1, <2>2 DEF Row
<1> HIDE DEF new, n
<1>4. new \in [1..n -> Row] BY <1>2, <1>3
<1>5. new \in Seq(Row) BY <1>1, <1>4, SeqDef
<1>6. Len(new) = n
  <2>1. DOMAIN new = 1..Len(new) /\ Len(new) \in Nat BY <1>5, LenProperties
  <2> QED BY <1>1, <1>4, <2>1
<1>7. Distinct(new) BY <1>3, <1>6 DEF Distinct, n
<1> QED BY <1>3, <1>5, <1>6, <1>7 DEF new, n

\* EndFire: the fire is recorded, and the tick goes on with the rest of its rows.
LEMMA EndKeeps ==
  ASSUME TInv, NEW k \in Ticks, EndFire(k)
  PROVE  TInv'
<1> DEFINE t == tick[k]
           rest == Tail(tick[k].todo)
           busy == Ended(k)
           new == Onward(t, rest, busy)
           id == Firing(k).id
<1>1. /\ tick' = [tick EXCEPT ![k] = new] /\ fired' = Fired(new)
      /\ table' = RecordFire(id, t.at) /\ Running(k)
      /\ inflight' = Entered(new, busy)
      /\ clock' = clock /\ faults' = faults /\ paused' = paused
      /\ overlapped' = overlapped
  BY DEF EndFire, NextFire
<1>2. /\ tick \in [Ticks -> State] /\ t \in State /\ t.at \in Nat /\ t.at <= clock
      /\ t.todo \in Seq(Row) /\ t.todo # <<>>
      /\ Distinct(t.todo) /\ Past(t.todo, t.at)
      /\ clock \in Nat /\ fired \subseteq Ids \X Nat
  BY <1>1 DEF TInv, Typed, State, Running
<1>3. rest \in Seq(Row) /\ Distinct(rest) /\ Past(rest, t.at)
  BY <1>2, TailKeeps
<1>4. /\ new \in State /\ new.at <= clock
      /\ Distinct(new.todo) /\ Past(new.todo, new.at)
      /\ Fired(new) \subseteq Ids \X Nat /\ fired \subseteq Fired(new)
      /\ new.todo # <<>> => new.at = t.at /\ Head(new.todo).id \in Ids \ busy
      /\ \A f \in Fired(new) \ fired :
           new.todo # <<>> /\ f = <<Head(new.todo).id, Minute(new.at)>>
  <2> HIDE DEF new, t, rest, busy
  <2>1. new = Onward(t, rest, busy) BY DEF new
  <2> QED BY <1>2, <1>3, <2>1, OnwardKeeps
<1>5. ASSUME Orderly', new.todo # <<>>
      PROVE  \A i \in 2..Len(new.todo) : Remembers(new.todo[i], Fired(new))
  <2>1. \A i \in 1..Len(rest) : Remembers(rest[i], fired)
    BY <1>1, <1>5, TailRemembers DEF Orderly
  <2> HIDE DEF new, t, rest, busy
  <2>2. new = Onward(t, rest, busy) BY DEF new
  <2> QED BY <1>2, <1>3, <1>5, <2>1, <2>2, OnwardOnce
<1>6. /\ table \in Seq(Row) /\ Distinct(table) /\ Past(table, clock)
      /\ table' \in Seq(Row) /\ Distinct(table') /\ Len(table') = Len(table)
      /\ \A i \in 1..Len(table) :
           /\ table'[i].id = table[i].id
           /\ table'[i].last = IF table[i].id = id THEN t.at ELSE table[i].last
  <2>1. table \in Seq(Row) /\ Distinct(table) /\ Past(table, clock)
    BY DEF TInv, Typed
  <2> HIDE DEF id, t
  <2> QED BY <1>1, <1>2, <2>1, Recorded
<1> HIDE DEF new, rest, busy
<1>7. tick'[k] = new /\ \A x \in Ticks \ {k} : tick'[x] = tick[x]
  BY <1>1, <1>2
<1>8. Typed'
  <2>1. tick' \in [Ticks -> State] BY <1>1, <1>2, <1>4
  <2>2. ASSUME NEW x \in Ticks
        PROVE  tick'[x].at <= clock /\ Distinct(tick'[x].todo)
               /\ Past(tick'[x].todo, tick'[x].at)
    BY <1>4, <1>7 DEF TInv, Typed
  <2>3. Past(table', clock)
    BY <1>2, <1>6 DEF Past
  <2> QED BY <1>1, <1>4, <1>6, <2>1, <2>2, <2>3 DEF TInv, Typed
<1>9. OneInFlight' /\ InMap'
  <2>1. OneInFlight /\ \A x \in Ticks \ {k} : Running(x) => Firing(x).id \in busy
    BY <1>1 DEF TInv, InMap, OneInFlight, Ended, busy
  <2> QED BY <1>1, <1>2, <1>4, <2>1, MoveKeepsApart
<1>10. ASSUME Orderly' PROVE Alone' /\ InTable' /\ Ahead'
  <2>1. Orderly /\ Alone /\ InTable /\ Ahead
    BY <1>1, <1>10 DEF Orderly, TInv
  <2>2. \A x \in Ticks : Running(x)' => x = k
    BY <1>1, <1>7, <2>1 DEF Running, Alone
  <2>3. Past(table', t.at)
    BY <1>1, <1>2, <1>6, <2>1 DEF Past, Ahead
  <2>4. ASSUME NEW i \in 1..Len(table), NEW f \in fired', f[1] = table'[i].id
        PROVE  \/ table'[i].last \in Nat /\ f[2] <= Minute(table'[i].last)
               \/ /\ Running(k)' /\ Firing(k).id' = f[1]
                  /\ f[2] <= Minute(tick'[k].at)
    <3>1. CASE f \in fired
      <4>0. table[i] \in Row /\ f[2] \in Nat BY <1>2, <1>6, <3>1, TableRow
      <4>1. \/ table[i].last \in Nat /\ f[2] <= Minute(table[i].last)
            \/ f[1] = id /\ f[2] <= Minute(t.at)
        BY <1>1, <1>6, <2>1, <2>4, <3>1 DEF InTable, Alone
      <4>2. CASE table[i].id = id
        <5>1. table'[i].last = t.at BY <1>6, <4>2
        <5>2. table[i].last \in Nat => table[i].last <= t.at
          BY <1>1, <2>1 DEF Ahead, Past
        <5>3. table[i].last \in Nat => Minute(table[i].last) <= Minute(t.at)
                                      /\ Minute(table[i].last) \in Nat
          BY <1>2, <5>2, Minutes
        <5>4. Minute(t.at) \in Nat BY <1>2, Minutes
        <5> QED BY <1>2, <4>0, <4>1, <5>1, <5>3, <5>4
      <4>3. CASE table[i].id # id
        BY <1>6, <2>4, <4>1, <4>3
      <4> QED BY <4>2, <4>3
    <3>2. CASE f \notin fired
      <4>1. new.todo # <<>> /\ f = <<Head(new.todo).id, Minute(new.at)>>
        BY <1>1, <1>4, <2>4, <3>2
      <4>2. Running(k)' /\ Firing(k)' = Head(new.todo)
        BY <1>7, <4>1 DEF Running, Firing
      <4>3. new.at \in Nat BY <1>4 DEF State
      <4>4. Minute(new.at) <= Minute(new.at) BY <4>3, Minutes
      <4> QED BY <1>7, <4>1, <4>2, <4>4
    <3> QED BY <3>1, <3>2
  <2>5. InTable'
    BY <1>6, <2>4 DEF InTable
  <2>6. Ahead'
    <3>1. SUFFICES ASSUME Running(k)'
                   PROVE  /\ Past(table', tick'[k].at)
                          /\ \A i \in 2..Len(tick'[k].todo) :
                               Remembers(tick'[k].todo[i], fired')
      BY <2>2 DEF Ahead
    <3>2. new.todo # <<>> BY <1>7, <3>1 DEF Running
    <3>3. tick'[k].at = t.at BY <1>4, <1>7, <3>2
    <3> QED BY <1>1, <1>5, <1>7, <1>10, <2>3, <3>2, <3>3
  <2> QED BY <2>2, <2>5, <2>6 DEF Alone
<1> QED BY <1>8, <1>9, <1>10 DEF TInv

-----------------------------------------------------------------------------
\* An edit of the table while ticks stay where they are: every row is one of
\* before, or is new, has not fired and nothing fired under its name is remembered.
LEMMA EditKeeps ==
  ASSUME TInv, table' \in Seq(Row), Distinct(table'), paused' \in BOOLEAN,
         \A i \in 1..Len(table') :
           \/ \E j \in 1..Len(table) : /\ table'[i].id = table[j].id
                                       /\ table'[i].last = table[j].last
           \/ table'[i].last = None /\ \A f \in fired' : f[1] # table'[i].id,
         fired' \subseteq fired,
         UNCHANGED <<clock, tick, inflight, overlapped, faults>>
  PROVE  TInv'
<1>1. \A at \in Nat : Past(table, at) => Past(table', at)
  BY TriggerAssumption DEF Past
<1>2. Typed' BY <1>1 DEF TInv, Typed
<1>3. /\ \A k \in Ticks : Running(k)' = Running(k) /\ Firing(k)' = Firing(k)
      /\ Orderly' = Orderly /\ Alone' = Alone /\ OneInFlight' = OneInFlight
      /\ InMap' = InMap
  BY DEF Running, Firing, Orderly, Alone, OneInFlight, InMap
<1>4. ASSUME Orderly, InTable PROVE InTable'
  <2>1. SUFFICES ASSUME NEW i \in 1..Len(table'), NEW f \in fired', f[1] = table'[i].id
                 PROVE  \/ table'[i].last \in Nat /\ f[2] <= Minute(table'[i].last)
                        \/ \E k \in Ticks : /\ Running(k)' /\ Firing(k).id' = f[1]
                                            /\ f[2] <= Minute(tick'[k].at)
    BY DEF InTable
  <2>2. PICK j \in 1..Len(table) : /\ table'[i].id = table[j].id
                                   /\ table'[i].last = table[j].last
    BY <2>1
  <2>3. \/ table[j].last \in Nat /\ f[2] <= Minute(table[j].last)
        \/ \E k \in Ticks : Running(k) /\ Firing(k).id = f[1] /\ f[2] <= Minute(tick[k].at)
    BY <1>4, <2>1, <2>2 DEF InTable
  <2> QED BY <2>2, <2>3, <1>3
<1>5. ASSUME Ahead PROVE Ahead'
  <2>1. \A k \in Ticks : tick[k].at \in Nat BY DEF TInv, Typed, State
  <2> QED BY <1>1, <1>3, <1>5, <2>1 DEF Ahead, Remembers
<1> QED BY <1>2, <1>3, <1>4, <1>5 DEF TInv

\* The operator's edits are of that kind.
LEMMA CreateKeeps ==
  ASSUME TInv, NEW id \in Ids, NEW kind \in Kinds, Create(id, kind)
  PROVE  TInv'
<1> DEFINE r == NewRow(id, kind)
<1>1. /\ table' = Append(table, r) /\ fired' = {f \in fired : f[1] # id}
      /\ ~Here(id) /\ UNCHANGED <<clock, paused, tick, inflight, overlapped, faults>>
  BY DEF Create
<1>2. r \in Row /\ r.id = id /\ r.last = None BY DEF NewRow, Row
<1> HIDE DEF r
<1>3. /\ table \in Seq(Row) /\ Len(table) \in Nat /\ DOMAIN table = 1..Len(table)
      /\ Distinct(table)
  BY TableRow DEF TInv, Typed
<1>4. /\ table' \in Seq(Row) /\ Len(table') = Len(table) + 1
      /\ \A i \in 1..Len(table) : table'[i] = table[i]
      /\ table'[Len(table) + 1] = r
  BY <1>1, <1>2, <1>3, AppendProperties
<1>5. \A i \in 1..Len(table) : table[i].id # id BY <1>1, <1>3 DEF Here
<1>6. \A i \in 1..Len(table') : i \in 1..Len(table) \/ i = Len(table) + 1
  BY <1>3, <1>4
<1>7. Distinct(table')
  BY <1>2, <1>3, <1>4, <1>5, <1>6 DEF Distinct
<1>8. \A i \in 1..Len(table') :
        \/ \E j \in 1..Len(table) : /\ table'[i].id = table[j].id
                                    /\ table'[i].last = table[j].last
        \/ table'[i].last = None /\ \A f \in fired' : f[1] # table'[i].id
  BY <1>1, <1>2, <1>4, <1>6
<1>9. paused' \in BOOLEAN /\ fired' \subseteq fired BY <1>1 DEF TInv, Typed
<1> QED BY <1>1, <1>4, <1>7, <1>8, <1>9, EditKeeps

LEMMA EnableKeeps ==
  ASSUME TInv, NEW id \in Ids, NEW on \in BOOLEAN, SetEnabled(id, on)
  PROVE  TInv'
<1>1. /\ table' = [i \in DOMAIN table |->
                     IF table[i].id = id THEN [table[i] EXCEPT !.enabled = on] ELSE table[i]]
      /\ UNCHANGED <<clock, paused, tick, inflight, fired, overlapped, faults>>
  BY DEF SetEnabled
<1>2. /\ table \in Seq(Row) /\ Len(table) \in Nat /\ DOMAIN table = 1..Len(table)
      /\ Distinct(table) /\ \A i \in 1..Len(table) : table[i] \in Row
  BY TableRow DEF TInv, Typed
<1>3. \A i \in 1..Len(table) : /\ table'[i] \in Row /\ table'[i].id = table[i].id
                               /\ table'[i].last = table[i].last
  BY <1>1, <1>2 DEF Row
<1>4. table' \in [1..Len(table) -> Row] BY <1>1, <1>2, <1>3
<1>5. table' \in Seq(Row) /\ Len(table') = Len(table)
  <2>1. table' \in Seq(Row) BY <1>2, <1>4, SeqDef
  <2>2. DOMAIN table' = 1..Len(table') /\ Len(table') \in Nat BY <2>1, LenProperties
  <2> QED BY <1>2, <1>4, <2>1, <2>2
<1>6. Distinct(table') BY <1>2, <1>3, <1>5 DEF Distinct
<1>7. paused' \in BOOLEAN BY <1>1 DEF TInv, Typed
<1> QED BY <1>1, <1>3, <1>5, <1>6, <1>7, EditKeeps

LEMMA DeleteKeeps ==
  ASSUME TInv, NEW id \in Ids, Delete(id)
  PROVE  TInv'
<1>1. /\ \E i \in DOMAIN table : table[i].id = id /\ table' = RemoveAt(table, i)
      /\ UNCHANGED <<clock, paused, tick, inflight, fired, overlapped, faults>>
  BY DEF Delete
<1> DEFINE n == Len(table)
<1>2. /\ table \in Seq(Row) /\ n \in Nat /\ DOMAIN table = 1..n
      /\ Distinct(table) /\ \A i \in 1..n : table[i] \in Row
  BY TableRow DEF TInv, Typed
<1>3. PICK m \in 1..n : table' = SubSeq(table, 1, m - 1) \o SubSeq(table, m + 1, n)
  BY <1>1, <1>2 DEF RemoveAt
<1> HIDE DEF n
<1> DEFINE a == SubSeq(table, 1, m - 1)
           b == SubSeq(table, m + 1, n)
<1>4. a \in Seq(Row) /\ Len(a) = m - 1 /\ \A i \in 1..(m - 1) : a[i] = table[i]
  <2>1. \A i \in 1..(m - 1) : table[i] \in Row BY <1>2
  <2> QED BY <1>2, <2>1, SubSeqProperties
<1>5. b \in Seq(Row) /\ Len(b) = n - m /\ \A i \in 1..(n - m) : b[i] = table[m + i]
  <2>1. \A i \in (m + 1)..n : table[i] \in Row BY <1>2
  <2>2. /\ b \in Seq(Row) /\ Len(b) = IF m + 1 <= n THEN n - (m + 1) + 1 ELSE 0
        /\ \A i \in 1..(n - (m + 1) + 1) : b[i] = table[m + 1 + i - 1]
    BY <1>2, <2>1, SubSeqProperties
  <2> QED BY <1>2, <2>2
<1> HIDE DEF a, b
<1>6. /\ table' \in Seq(Row) /\ Len(table') = n - 1
      /\ \A i \in 1..(n - 1) : table'[i] = IF i <= m - 1 THEN a[i] ELSE b[i - (m - 1)]
  <2>1. table' = a \o b BY <1>3 DEF a, b
  <2> QED BY <1>2, <1>4, <1>5, <2>1, ConcatProperties
<1>7. \A i \in 1..(n - 1) : table'[i] = table[IF i < m THEN i ELSE i + 1]
  <2> SUFFICES ASSUME NEW i \in 1..(n - 1)
               PROVE  table'[i] = table[IF i < m THEN i ELSE i + 1]
    OBVIOUS
  <2>1. CASE i < m
    <3>1. i \in 1..(m - 1) /\ i <= m - 1 BY <1>2, <2>1
    <3> QED BY <1>4, <1>6, <2>1, <3>1
  <2>2. CASE ~(i < m)
    <3>1. i - (m - 1) \in 1..(n - m) /\ ~(i <= m - 1) /\ m + (i - (m - 1)) = i + 1
      BY <1>2, <2>2
    <3>2. table'[i] = b[i - (m - 1)] BY <1>6, <3>1
    <3>3. b[i - (m - 1)] = table[m + (i - (m - 1))] BY <1>5, <3>1
    <3> QED BY <2>2, <3>1, <3>2, <3>3
  <2> QED BY <2>1, <2>2
<1>8. Distinct(table')
  <2>1. SUFFICES ASSUME NEW i \in 1..(n - 1), NEW j \in 1..(n - 1),
                        table'[i].id = table'[j].id
                 PROVE  i = j
    BY <1>6 DEF Distinct
  <2> DEFINE x == IF i < m THEN i ELSE i + 1
             y == IF j < m THEN j ELSE j + 1
  <2>2. x \in 1..n /\ y \in 1..n /\ table[x].id = table[y].id
    BY <1>2, <1>7, <2>1
  <2>3. x = y BY <1>2, <2>2 DEF Distinct, n
  <2> QED BY <2>3
<1>9. \A i \in 1..Len(table') :
        \E j \in 1..n : table'[i].id = table[j].id /\ table'[i].last = table[j].last
  <2>1. SUFFICES ASSUME NEW i \in 1..(n - 1)
                 PROVE  \E j \in 1..n : table'[i] = table[j]
    BY <1>6
  <2>2. (IF i < m THEN i ELSE i + 1) \in 1..n BY <1>2
  <2> QED BY <1>7, <2>2
<1>10. paused' \in BOOLEAN BY <1>1 DEF TInv, Typed
<1> QED BY <1>1, <1>6, <1>8, <1>9, <1>10, EditKeeps DEF n

\* A fault ends the orderly part of a behaviour, and a tick, or all or none of them.
LEMMA FaultKeeps ==
  ASSUME TInv, NEW K \in SUBSET Ticks,
         tick' = [k \in Ticks |-> IF k \in K THEN Idle ELSE tick[k]],
         \A k \in Ticks \ K : Running(k) => Firing(k).id \in inflight',
         table' \in Seq(Row), Distinct(table'), Past(table', clock),
         faults' = faults + 1, UNCHANGED <<clock, paused, fired>>
  PROVE  TInv'
<1>1. Idle.at = 0 /\ Distinct(Idle.todo) /\ Past(Idle.todo, 0)
  BY IdleTick DEF Idle, Distinct, Past
<1>2. Typed' BY <1>1, IdleTick DEF TInv, Typed
<1>3. \A k \in Ticks : Running(k)' => k \notin K /\ Running(k) /\ Firing(k)' = Firing(k)
  BY IdleTick DEF Running, Firing
<1>4. OneInFlight' BY <1>3 DEF TInv, OneInFlight
<1>5. InMap' BY <1>3 DEF InMap
<1>6. ~Orderly' BY DEF TInv, Typed, Orderly
<1> QED BY <1>2, <1>4, <1>5, <1>6 DEF TInv

\* The audit write after the entry in the map fails: the other ticks are where they
\* were, and the entries of what they fire are in the map still.
LEMMA StartFailsKeeps ==
  ASSUME TInv, NEW k \in Ticks, StartFails(k)
  PROVE  TInv'
<1>1. /\ faults' = faults + 1 /\ UNCHANGED <<clock, paused, table, tick, fired>>
      /\ inflight \subseteq inflight'
  BY DEF StartFails, Entered
<1>2. PICK K \in SUBSET Ticks : K = {} OBVIOUS
<1>3. tick' = [j \in Ticks |-> IF j \in K THEN Idle ELSE tick[j]]
  BY <1>1, <1>2 DEF TInv, Typed
<1>4. \A j \in Ticks \ K : Running(j) => Firing(j).id \in inflight'
  BY <1>1 DEF TInv, InMap
<1>5. table' \in Seq(Row) /\ Distinct(table') /\ Past(table', clock)
  BY <1>1 DEF TInv, Typed
<1> QED BY <1>1, <1>3, <1>4, <1>5, FaultKeeps

LEMMA GoOnFailsKeeps ==
  ASSUME TInv, NEW k \in Ticks, GoOnFails(k)
  PROVE  TInv'
<1> DEFINE id == Firing(k).id
           at == tick[k].at
<1>1. /\ faults' = faults + 1 /\ UNCHANGED <<clock, paused, fired>> /\ Running(k)
      /\ tick' = [tick EXCEPT ![k] = Idle] /\ table' = RecordFire(id, at)
      /\ Ended(k) \subseteq inflight'
  BY DEF GoOnFails, Entered
<1>2. /\ table \in Seq(Row) /\ Distinct(table) /\ Past(table, clock)
      /\ at \in Nat /\ at <= clock /\ clock \in Nat
  BY DEF TInv, Typed, State
<1>3. tick' = [j \in Ticks |-> IF j \in {k} THEN Idle ELSE tick[j]]
  BY <1>1 DEF TInv, Typed
<1>4. \A j \in Ticks \ {k} : Running(j) => Firing(j).id \in inflight'
  BY <1>1 DEF TInv, InMap, OneInFlight, Ended
<1> HIDE DEF id, at
<1>5. /\ table' \in Seq(Row) /\ Distinct(table') /\ Len(table') = Len(table)
      /\ \A i \in 1..Len(table) :
           table'[i].last = IF table[i].id = id THEN at ELSE table[i].last
  BY <1>1, <1>2, Recorded
<1>6. Past(table', clock)
  BY <1>2, <1>5 DEF Past
<1> QED BY <1>1, <1>3, <1>4, <1>5, <1>6, FaultKeeps

LEMMA ElapseKeeps ==
  ASSUME TInv, NEW S, Elapse(S)
  PROVE  TInv'
<1>1. clock' = clock + 1 /\ UNCHANGED <<paused, table, tick, inflight, fired, overlapped, faults>>
  BY DEF Elapse
<1>2. Past(table, clock') BY <1>1, TableRow DEF Past, TInv, Typed, Row
<1>3. \A k \in Ticks : tick[k].at \in Nat /\ tick[k].at <= clock'
  BY <1>1 DEF TInv, Typed, State
<1>4. Typed' BY <1>1, <1>2, <1>3 DEF TInv, Typed
<1>5. /\ \A k \in Ticks : Running(k)' = Running(k) /\ Firing(k)' = Firing(k)
      /\ Orderly' = Orderly /\ OneInFlight' = OneInFlight /\ InMap' = InMap
      /\ Alone' = Alone /\ InTable' = InTable /\ Ahead' = Ahead
  BY <1>1 DEF Running, Firing, Orderly, OneInFlight, InMap, Alone, InTable, Ahead
<1> QED BY <1>4, <1>5 DEF TInv

LEMMA StepKeeps == TInv /\ [Next]_vars => TInv'
<1> SUFFICES ASSUME TInv, [Next]_vars PROVE TInv' OBVIOUS
<1>1. ASSUME NEW k \in Ticks, StartTick(k) PROVE TInv'
  BY <1>1, StartKeeps
<1>2. ASSUME NEW k \in Ticks, EndFire(k) PROVE TInv'
  BY <1>2, EndKeeps
<1>3. ASSUME NEW k \in Ticks, RecordFails(k) PROVE TInv'
  <2>1. tick' = [j \in Ticks |-> IF j \in {k} THEN Idle ELSE tick[j]]
    BY <1>3 DEF RecordFails, TInv, Typed
  <2>2. faults' = faults + 1 /\ UNCHANGED <<clock, paused, table, fired>>
    BY <1>3 DEF RecordFails
  <2>3. \A j \in Ticks \ {k} : Running(j) => Firing(j).id \in inflight'
    BY <1>3 DEF RecordFails, Ended, TInv, InMap, OneInFlight
  <2>4. table' \in Seq(Row) /\ Distinct(table') /\ Past(table', clock)
    BY <2>2 DEF TInv, Typed
  <2> QED BY <2>1, <2>2, <2>3, <2>4, FaultKeeps
<1>4. ASSUME NEW id \in Ids, NEW kind \in Kinds, Create(id, kind) PROVE TInv'
  BY <1>4, CreateKeeps
<1>5. ASSUME NEW id \in Ids, NEW on \in BOOLEAN, SetEnabled(id, on) PROVE TInv'
  BY <1>5, EnableKeeps
<1>6. ASSUME NEW id \in Ids, Delete(id) PROVE TInv'
  BY <1>6, DeleteKeeps
<1>7. ASSUME NEW S \in SUBSET Watched, Elapse(S) PROVE TInv'
  BY <1>7, ElapseKeeps
<1>8. CASE SetPaused
  <2>1. UNCHANGED <<clock, table, tick, inflight, fired, overlapped, faults>> /\ paused' \in BOOLEAN
    BY <1>8 DEF SetPaused, TInv, Typed
  <2> QED BY <2>1, EditKeeps DEF TInv, Typed
<1>9. CASE Crash
  <2>1. tick' = [j \in Ticks |-> IF j \in Ticks THEN Idle ELSE tick[j]]
    BY <1>9 DEF Crash
  <2>2. faults' = faults + 1 /\ UNCHANGED <<clock, paused, table, fired>>
    BY <1>9 DEF Crash
  <2>3. table' \in Seq(Row) /\ Distinct(table') /\ Past(table', clock)
    BY <2>2 DEF TInv, Typed
  <2> QED BY <2>1, <2>2, <2>3, FaultKeeps
<1>10. CASE UNCHANGED vars
  <2>1. UNCHANGED <<clock, table, tick, inflight, fired, overlapped, faults, paused>>
    BY <1>10 DEF vars
  <2>2. paused' \in BOOLEAN BY <2>1 DEF TInv, Typed
  <2> QED BY <2>1, <2>2, EditKeeps DEF TInv, Typed
<1>11. ASSUME NEW k \in Ticks, StartFails(k) PROVE TInv'
  BY <1>11, StartFailsKeeps
<1>12. ASSUME NEW k \in Ticks, GoOnFails(k) PROVE TInv'
  BY <1>12, GoOnFailsKeeps
<1> QED BY <1>1, <1>2, <1>3, <1>4, <1>5, <1>6, <1>7, <1>8, <1>9, <1>10, <1>11, <1>12 DEF Next

\* Under any number of overlapping ticks, edits, failing writes and restarts: what a
\* tick or the table says of a trigger has its type and stays in order.
THEOREM TriggerInvariant == Spec => []TInv
<1>1. Init => TInv BY InitTInv
<1>2. TInv /\ [Next]_vars => TInv' BY StepKeeps
<1> QED BY <1>1, <1>2, PTL DEF Spec

\* The in-flight map of the service (triggers.ts): no trigger is in flight twice,
\* however many ticks walk the table at once and whatever writes fail.
THEOREM TriggerOneInFlight == Spec => []OneInFlight
<1>1. TInv => OneInFlight BY DEF TInv
<1> QED BY <1>1, TriggerInvariant, PTL

\* "Once per occurrence" (cron.ts:95): whatever is created, deleted, paused or
\* edited during a tick, a schedule of whole minutes fires once in its minute, until
\* ticks overlap or something fails.
THEOREM TriggerOncePerOccurrence ==
  ASSUME Every >= PerMinute
  PROVE  Spec => OncePerOccurrence
<1> DEFINE Once(k, id) ==
      Starts(k, id) /\ Head(tick'[k].todo).kind # "watch"
        => <<id, Minute(tick'[k].at)>> \notin fired
<1>1. ASSUME TInv, [Next]_vars, ~overlapped', faults = 0, NEW k \in Ticks, NEW id \in Ids
      PROVE  Once(k, id)
  <2>1. /\ tick \in [Ticks -> State] /\ table \in Seq(Row) /\ Distinct(table)
        /\ Past(table, clock) /\ clock \in Nat /\ paused \in BOOLEAN
        /\ fired \subseteq Ids \X Nat
        /\ \A j \in Ticks : Distinct(tick[j].todo) /\ Past(tick[j].todo, tick[j].at)
    BY <1>1 DEF TInv, Typed
  <2>2. ASSUME StartTick(k) PROVE Once(k, id)
    <3> DEFINE t == Snapshot
               new == Onward(t, table, inflight)
    <3>1. tick'[k] = new BY <2>1, <2>2 DEF StartTick, FirstFire
    <3>2. t \in State /\ t.at = clock BY <2>1, EmptySeq DEF State, Snapshot
    <3>3. \A i \in 1..Len(table) : Remembers(table[i], fired)
      BY <1>1, <2>2, StartRemembers
    <3> HIDE DEF t
    <3>4. ASSUME new.todo # <<>>, Head(new.todo).kind # "watch"
          PROVE  <<Head(new.todo).id, Minute(new.at)>> \notin fired
      <4> HIDE DEF new
      <4>1. new = Onward(t, table, inflight) BY DEF new
      <4> QED BY <1>1, <2>1, <3>2, <3>3, <3>4, <4>1, OnwardOnce
    <3> HIDE DEF new
    <3> QED BY <3>1, <3>4 DEF Starts
  <2>3. ASSUME EndFire(k) PROVE Once(k, id)
    <3> DEFINE t == tick[k]
               rest == Tail(tick[k].todo)
               busy == Ended(k)
               new == Onward(t, rest, busy)
    <3>1. tick'[k] = new /\ Running(k) /\ Orderly
      BY <1>1, <2>1, <2>3 DEF EndFire, NextFire, Orderly
    <3>2. t \in State /\ t.todo \in Seq(Row) /\ t.todo # <<>>
      BY <2>1, <3>1 DEF State, Running
    <3>3. rest \in Seq(Row) /\ Distinct(rest) /\ Past(rest, t.at)
      BY <2>1, <3>2, TailKeeps
    <3>4. \A i \in 1..Len(rest) : Remembers(rest[i], fired)
      BY <1>1, <3>1, TailRemembers
    <3> HIDE DEF t, rest, busy
    <3>5. ASSUME new.todo # <<>>, Head(new.todo).kind # "watch"
          PROVE  <<Head(new.todo).id, Minute(new.at)>> \notin fired
      <4> HIDE DEF new
      <4>1. new = Onward(t, rest, busy) BY DEF new
      <4> QED BY <1>1, <2>1, <3>2, <3>3, <3>4, <3>5, <4>1, OnwardOnce
    <3> HIDE DEF new
    <3> QED BY <3>1, <3>5 DEF Starts
  <2>4. CASE tick'[k] = tick[k] \/ tick'[k] = Idle
    BY <2>4, IdleTick DEF Starts
  <2>5. ASSUME NEW j \in Ticks,
               \/ StartFails(j)
               \/ /\ j # k
                  /\ StartTick(j) \/ EndFire(j) \/ GoOnFails(j) \/ RecordFails(j)
        PROVE  tick'[k] = tick[k]
    BY <2>1, <2>5 DEF StartTick, StartFails, EndFire, GoOnFails, RecordFails
  <2>6. RecordFails(k) \/ GoOnFails(k) => tick'[k] = Idle
    BY <2>1 DEF RecordFails, GoOnFails
  <2>7. Crash => tick'[k] = Idle BY DEF Crash
  <2>8. \/ SetPaused \/ UNCHANGED vars
        \/ \E i \in Ids : \/ \E kind \in Kinds : Create(i, kind)
                          \/ \E on \in BOOLEAN : SetEnabled(i, on)
                          \/ Delete(i)
        \/ \E S \in SUBSET Watched : Elapse(S)
        => tick'[k] = tick[k]
    BY DEF SetPaused, vars, Create, SetEnabled, Delete, Elapse
  <2> HIDE DEF Once
  <2> QED BY <1>1, <2>2, <2>3, <2>4, <2>5, <2>6, <2>7, <2>8 DEF Next
<1>2. TInv /\ [Next]_vars =>
        [overlapped' \/ faults > 0 \/ \A k \in Ticks, id \in Ids : Once(k, id)]_vars
  <2> HIDE DEF Once
  <2>1. TInv => faults \in Nat BY DEF TInv, Typed
  <2> QED BY <1>1, <2>1
<1> QED BY <1>2, TriggerInvariant, PTL DEF Spec, OncePerOccurrence
=============================================================================
