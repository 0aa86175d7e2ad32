-------------------------- MODULE PartitionProofs --------------------------
(***************************************************************************)
(* For any tasks, weights, ceilings, estimates and uses, and however the   *)
(* partitions are cut: the ledger never charges a worker more than the     *)
(* provider did, and misses nothing but what is not settled yet, unless a  *)
(* process died or a step outlived the TTL in between; the spend is within *)
(* the root and each partition, up to one overshoot for each worker; and   *)
(* the partitions fit the root, unless one was lifted to the floor.        *)
(***************************************************************************)
EXTENDS Partitions, FiniteSetTheorems, TLAPS

\* The part of the type that charges depend on.
Typed ==
  /\ spent \in [Children -> Amount] /\ real \in [Children -> Amount]
  /\ since \in [Children -> Amount]
  /\ res \in [Res -> [child : Children \cup {None}, est : Amount]]
  /\ active \subseteq Res
  /\ open \in [Children -> Res \cup {None}]
  /\ lost \in BOOLEAN

\* A governor settles a row of its own, and one that has none has counted nothing.
OwnRow ==
  \A c \in Children : /\ open[c] # None => res[open[c]].child = c
                      /\ open[c] = None => since[c] = Zero

\* The row that a governor will settle is still active, so that the charge counts.
NothingLost == ~lost => \A c \in Children : open[c] # None => open[c] \in active

LInv == Typed /\ OwnRow /\ NothingLost /\ LedgerHonest

-----------------------------------------------------------------------------
(* Sums over finite sets: their recursion has a solution, and does not     *)
(* depend on the order in which the members are chosen.                    *)

\* Among finite sets there is a minimal one.
Minimal(A, T) == A \in T /\ \A B \in T : B \subseteq A => B = A

LEMMA SmallestSet ==
  ASSUME NEW S, IsFiniteSet(S), NEW T, T \subseteq SUBSET S, T # {}
  PROVE  \E A : Minimal(A, T)
<1>1. T \subseteq FiniteSubsetsOf(S)
  BY FS_Subset DEF FiniteSubsetsOf
<1>2. \E A \in T : \A B \in T : <<B, A>> \notin StrictSubsetOrdering(S)
  <2>1. IsWellFoundedOn(StrictSubsetOrdering(S), FiniteSubsetsOf(S))
    BY FS_StrictSubsetOrderingWellFounded, Zenon
  <2> QED BY <1>1, <2>1, WFMin, Zenon
<1>3. PICK A \in T : \A B \in T : <<B, A>> \notin StrictSubsetOrdering(S)
  BY <1>2
<1>4. ASSUME NEW B \in T, B \subseteq A, B # A PROVE FALSE
  <2>1. A \in SUBSET S /\ B \in SUBSET S
    OBVIOUS
  <2> QED BY <1>3, <1>4, <2>1 DEF StrictSubsetOrdering
<1> QED BY <1>3, <1>4 DEF Minimal

\* A set of numbers has a least element.
LEMMA SmallestNumber ==
  ASSUME NEW S \in SUBSET Nat, S # {}
  PROVE  \E x \in S : \A y \in S : x <= y
<1>1. PICK n : n \in S
  OBVIOUS
<1> DEFINE T == {0..x : x \in {y \in S : y <= n}}
<1>2. IsFiniteSet(0..n) /\ T \subseteq SUBSET (0..n) /\ T # {}
  <2>1. 0..n \in T
    BY <1>1
  <2>2. IsFiniteSet(0..n)
    BY <1>1, FS_Interval
  <2>3. \A x \in Nat : x <= n => 0..x \in SUBSET (0..n)
    BY <1>1
  <2>4. T \subseteq SUBSET (0..n)
    BY <2>3
  <2> QED BY <2>1, <2>2, <2>4
<1>3. PICK A : Minimal(A, T)
  <2> HIDE DEF T
  <2> QED BY <1>2, SmallestSet, Zenon
<1>4. PICK x \in S : x <= n /\ A = 0..x
  BY <1>3 DEF Minimal
<1>5. ASSUME NEW y \in S, ~(x <= y) PROVE FALSE
  <2>1. y \in Nat /\ x \in Nat /\ y < x /\ y <= n
    BY <1>1, <1>4, <1>5
  <2>2. 0..y \in T /\ 0..y \subseteq 0..x /\ x \in 0..x /\ x \notin 0..y
    BY <1>1, <2>1
  <2> QED BY <1>3, <1>4, <2>2 DEF Minimal
<1> QED BY <1>5

\* What a function on sets of indices says of the sum of f over one of them.
Pick(s) == CHOOSE x \in s : TRUE
SumAt(g, f, s) == IF s = {} THEN 0 ELSE f[Pick(s)] + g[s \ {Pick(s)}]
Sums(g, f, S) == g = [s \in SUBSET S |-> SumAt(g, f, s)]

LEMMA SumUnfolds ==
  ASSUME NEW f, NEW S
  PROVE  SumFunctionOnSet(f, S) = (CHOOSE g : Sums(g, f, S))[S]
BY DEF SumFunctionOnSet, FoldFunctionOnSet, MapThenFoldSet, Sums, SumAt, Pick

\* A solution for the sets of at most k members extends to one for k + 1.
SumsUpTo(g, f, S, k) ==
  g = [s \in {A \in SUBSET S : Cardinality(A) <= k} |-> SumAt(g, f, s)]

LEMMA SumsExtend ==
  ASSUME NEW f, NEW S, IsFiniteSet(S), NEW k \in Nat, NEW g, SumsUpTo(g, f, S, k)
  PROVE  \E h : SumsUpTo(h, f, S, k + 1)
<1> DEFINE L(j) == {A \in SUBSET S : Cardinality(A) <= j}
           h == [s \in L(k + 1) |-> IF s \in L(k) THEN g[s] ELSE SumAt(g, f, s)]
<1>1. ASSUME NEW s \in L(k + 1), s # {}
      PROVE  s \ {Pick(s)} \in L(k) /\ Pick(s) \in s
  <2>1. Pick(s) \in s
    BY <1>1 DEF Pick
  <2>2. IsFiniteSet(s) /\ Cardinality(s) \in Nat
    BY <1>1, FS_Subset, FS_CardinalityType
  <2>3. Cardinality(s \ {Pick(s)}) = Cardinality(s) - 1
    BY <2>1, <2>2, FS_RemoveElement
  <2> QED BY <1>1, <2>1, <2>2, <2>3
<1>2. \A s \in L(k) : s \in L(k + 1)
  <2>1. \A s \in L(k) : Cardinality(s) \in Nat
    BY FS_Subset, FS_CardinalityType
  <2> QED BY <2>1
<1>3. \A s \in L(k) : g[s] = SumAt(g, f, s)
  BY DEF SumsUpTo
<1> HIDE DEF L
<1>4. ASSUME NEW s \in L(k + 1) PROVE h[s] = SumAt(h, f, s)
  <2>1. h[s] = SumAt(g, f, s)
    BY <1>3, <1>4
  <2>2. s # {} => h[s \ {Pick(s)}] = g[s \ {Pick(s)}]
    BY <1>1, <1>2, <1>4
  <2> HIDE DEF h
  <2> QED BY <2>1, <2>2 DEF SumAt
<1>5. h = [s \in L(k + 1) |-> SumAt(h, f, s)]
  <2>1. h = [s \in L(k + 1) |-> h[s]]
    OBVIOUS
  <2> HIDE DEF h
  <2> QED BY <1>4, <2>1
<1> HIDE DEF h
<1> QED BY <1>5 DEF SumsUpTo, L

\* So there is one for all.
LEMMA SumsExist ==
  ASSUME NEW f, NEW S, IsFiniteSet(S)
  PROVE  \E g : Sums(g, f, S)
<1> DEFINE bad == {k \in Nat : ~ \E g : SumsUpTo(g, f, S, k)}
<1>1. ASSUME NEW k \in bad, \A j \in bad : k <= j PROVE FALSE
  <2>1. CASE k = 0
    <3> DEFINE L == {A \in SUBSET S : Cardinality(A) <= 0}
               g == [s \in L |-> 0]
    <3>1. \A s \in L : s = {}
      BY FS_Subset, FS_EmptySet, FS_CardinalityType
    <3>2. \A s \in L : SumAt(g, f, s) = 0
      BY <3>1 DEF SumAt
    <3>3. g = [s \in L |-> SumAt(g, f, s)]
      BY <3>2
    <3> HIDE DEF g
    <3> QED BY <1>1, <2>1, <3>3 DEF SumsUpTo
  <2>2. CASE k # 0
    <3>1. k - 1 \in Nat /\ k - 1 \notin bad /\ (k - 1) + 1 = k
      BY <1>1, <2>2
    <3>2. PICK g : SumsUpTo(g, f, S, k - 1)
      BY <3>1
    <3>3. \E h : SumsUpTo(h, f, S, (k - 1) + 1)
      BY <3>1, <3>2, SumsExtend
    <3> QED BY <1>1, <3>1, <3>3
  <2> QED BY <2>1, <2>2
<1>2. bad = {}
  <2>1. bad \in SUBSET Nat
    OBVIOUS
  <2> HIDE DEF bad
  <2> QED BY <1>1, <2>1, SmallestNumber
<1>3. Cardinality(S) \in Nat
  BY FS_CardinalityType
<1>4. PICK g : SumsUpTo(g, f, S, Cardinality(S))
  BY <1>2, <1>3
<1>5. {A \in SUBSET S : Cardinality(A) <= Cardinality(S)} = SUBSET S
  BY FS_Subset
<1> QED BY <1>4, <1>5 DEF SumsUpTo, Sums

\* Solutions for functions that agree on a set agree on the set.
LEMMA SumsAgree ==
  ASSUME NEW f, NEW e, NEW S, NEW T, IsFiniteSet(S), NEW g, NEW h,
         Sums(g, f, S), Sums(h, e, T),
         NEW s, s \subseteq S, s \subseteq T, \A x \in s : f[x] = e[x]
  PROVE  g[s] = h[s]
<1> DEFINE bad == {r \in SUBSET s : g[r] # h[r]}
<1>1. ASSUME NEW r \in bad, \A q \in bad : q \subseteq r => q = r PROVE FALSE
  <2>1. r \in SUBSET S /\ r \in SUBSET T /\ r \subseteq s
    OBVIOUS
  <2>2. g[r] = SumAt(g, f, r) /\ h[r] = SumAt(h, e, r)
    BY <2>1 DEF Sums
  <2>3. CASE r = {}
    BY <1>1, <2>2, <2>3 DEF SumAt
  <2>4. CASE r # {}
    <3>1. Pick(r) \in r
      BY <2>4 DEF Pick
    <3>2. r \ {Pick(r)} \notin bad /\ r \ {Pick(r)} \in SUBSET s
      BY <1>1, <2>1, <3>1
    <3>3. g[r \ {Pick(r)}] = h[r \ {Pick(r)}] /\ f[Pick(r)] = e[Pick(r)]
      BY <2>1, <3>1, <3>2
    <3> QED BY <1>1, <2>2, <2>4, <3>3 DEF SumAt
  <2> QED BY <2>3, <2>4
<1>2. bad = {}
  <2>1. IsFiniteSet(s)
    BY FS_Subset
  <2>2. bad \subseteq SUBSET s
    OBVIOUS
  <2> HIDE DEF bad
  <2>3. ASSUME bad # {} PROVE FALSE
    <3>1. PICK r : Minimal(r, bad)
      BY <2>1, <2>2, <2>3, SmallestSet, Zenon
    <3> QED BY <1>1, <3>1 DEF Minimal
  <2> QED BY <2>3
<1> QED BY <1>2

\* The recursion of sums, with whatever member is chosen, and what does not matter.
LEMMA SumSame ==
  ASSUME NEW f, NEW e, NEW S, IsFiniteSet(S), \A x \in S : f[x] = e[x]
  PROVE  SumFunctionOnSet(f, S) = SumFunctionOnSet(e, S)
<1>1. PICK g : g = (CHOOSE y : Sums(y, f, S)) /\ Sums(g, f, S)
  BY SumsExist
<1>2. PICK h : h = (CHOOSE y : Sums(y, e, S)) /\ Sums(h, e, S)
  BY SumsExist
<1>3. g[S] = h[S]
  BY <1>1, <1>2, SumsAgree
<1> QED BY <1>1, <1>2, <1>3, SumUnfolds

LEMMA SumEmpty == ASSUME NEW f PROVE SumFunctionOnSet(f, {}) = 0
<1>1. PICK g : g = (CHOOSE y : Sums(y, f, {})) /\ Sums(g, f, {})
  BY SumsExist, FS_EmptySet
<1> QED BY <1>1, SumUnfolds DEF Sums, SumAt

LEMMA SumPicks ==
  ASSUME NEW f, NEW S, IsFiniteSet(S), S # {}
  PROVE  /\ Pick(S) \in S
         /\ SumFunctionOnSet(f, S) = f[Pick(S)] + SumFunctionOnSet(f, S \ {Pick(S)})
<1> DEFINE T == S \ {Pick(S)}
<1>1. Pick(S) \in S
  BY DEF Pick
<1>2. PICK g : g = (CHOOSE y : Sums(y, f, S)) /\ Sums(g, f, S)
  BY SumsExist
<1>3. IsFiniteSet(T) /\ T \subseteq S
  BY FS_Subset
<1>4. PICK h : h = (CHOOSE y : Sums(y, f, T)) /\ Sums(h, f, T)
  BY <1>3, SumsExist
<1>5. g[T] = h[T]
  BY <1>2, <1>3, <1>4, SumsAgree
<1>6. g[S] = f[Pick(S)] + g[T]
  BY <1>2 DEF Sums, SumAt
<1> QED BY <1>1, <1>2, <1>4, <1>5, <1>6, SumUnfolds

Naturals(f, S) == \A x \in S : f[x] \in Nat

\* A sum of natural numbers is one.
LEMMA SumNat ==
  ASSUME NEW f, NEW S, IsFiniteSet(S), Naturals(f, S)
  PROVE  SumFunctionOnSet(f, S) \in Nat
<1> DEFINE bad == {s \in SUBSET S : SumFunctionOnSet(f, s) \notin Nat}
<1>1. ASSUME NEW s, Minimal(s, bad) PROVE FALSE
  <2>1. s \in bad /\ s \in SUBSET S /\ IsFiniteSet(s)
    BY <1>1, FS_Subset DEF Minimal
  <2>2. CASE s = {}
    BY <2>1, <2>2, SumEmpty
  <2>3. CASE s # {}
    <3>1. Pick(s) \in s /\ SumFunctionOnSet(f, s) = f[Pick(s)] + SumFunctionOnSet(f, s \ {Pick(s)})
      BY <2>1, <2>3, SumPicks
    <3>2. s \ {Pick(s)} \notin bad /\ s \ {Pick(s)} \in SUBSET S
      BY <1>1, <2>1, <3>1 DEF Minimal
    <3>3. f[Pick(s)] \in Nat /\ SumFunctionOnSet(f, s \ {Pick(s)}) \in Nat
      BY <2>1, <3>1, <3>2 DEF Naturals
    <3> QED BY <2>1, <3>1, <3>3
  <2> QED BY <2>2, <2>3
<1>2. bad \subseteq SUBSET S
  OBVIOUS
<1> HIDE DEF bad
<1>3. bad = {}
  <2>1. ASSUME bad # {} PROVE FALSE
    <3>1. PICK s : Minimal(s, bad)
      BY <1>2, <2>1, SmallestSet, Zenon
    <3> QED BY <1>1, <3>1
  <2> QED BY <2>1
<1> QED BY <1>3 DEF bad

\* Any member may be taken out of a sum first.
LEMMA SumRemove ==
  ASSUME NEW f, NEW S, IsFiniteSet(S), Naturals(f, S), NEW a \in S
  PROVE  /\ SumFunctionOnSet(f, S) = f[a] + SumFunctionOnSet(f, S \ {a})
         /\ SumFunctionOnSet(f, S) \in Nat /\ SumFunctionOnSet(f, S \ {a}) \in Nat
         /\ f[a] \in Nat
<1> DEFINE Out(s, x) == SumFunctionOnSet(f, s) = f[x] + SumFunctionOnSet(f, s \ {x})
           bad == {s \in SUBSET S : \E x \in s : ~Out(s, x)}
<1>0. ASSUME NEW s \in SUBSET S PROVE IsFiniteSet(s) /\ SumFunctionOnSet(f, s) \in Nat
  <2>1. IsFiniteSet(s) /\ Naturals(f, s)
    BY FS_Subset DEF Naturals
  <2> QED BY <2>1, SumNat
<1>1. ASSUME NEW s, Minimal(s, bad) PROVE FALSE
  <2>1. s \in SUBSET S /\ \E x \in s : ~Out(s, x)
    BY <1>1 DEF Minimal
  <2>2. PICK x \in s : ~Out(s, x)
    BY <2>1
  <2> DEFINE y == Pick(s)
  <2>3. IsFiniteSet(s) /\ s # {}
    BY <1>0, <2>1, <2>2
  <2>4. y \in s /\ Out(s, y)
    BY <2>3, SumPicks
  <2>5. x # y
    BY <2>2, <2>4
  <2>6. s \ {x} \notin bad /\ s \ {y} \notin bad /\ s \ {x} \in SUBSET S /\ s \ {y} \in SUBSET S
    <3>1. s \ {x} # s /\ s \ {y} # s /\ s \ {x} \subseteq s /\ s \ {y} \subseteq s
      BY <2>2, <2>4
    <3> HIDE DEF bad, y
    <3> QED BY <1>1, <2>1, <3>1 DEF Minimal
  <2>7. Out(s \ {y}, x) /\ Out(s \ {x}, y)
    <3>1. x \in s \ {y} /\ y \in s \ {x}
      BY <2>2, <2>4, <2>5
    <3> QED BY <2>6, <3>1
  <2>8. (s \ {y}) \ {x} = (s \ {x}) \ {y}
    OBVIOUS
  <2>9. /\ SumFunctionOnSet(f, s \ {x}) \in Nat /\ SumFunctionOnSet(f, (s \ {x}) \ {y}) \in Nat
        /\ f[x] \in Nat /\ f[y] \in Nat
    <3>1. s \ {x} \in SUBSET S /\ (s \ {x}) \ {y} \in SUBSET S /\ x \in S /\ y \in S
      BY <2>1, <2>2, <2>4
    <3> QED BY <1>0, <3>1 DEF Naturals
  <2> HIDE DEF y
  <2> QED BY <2>2, <2>4, <2>7, <2>8, <2>9
<1>2. bad \subseteq SUBSET S
  OBVIOUS
<1>3. bad = {}
  <2> HIDE DEF bad
  <2>1. ASSUME bad # {} PROVE FALSE
    <3>1. PICK s : Minimal(s, bad)
      BY <1>2, <2>1, SmallestSet, Zenon
    <3> QED BY <1>1, <3>1
  <2> QED BY <2>1
<1>4. Out(S, a)
  <2>1. S \notin bad
    BY <1>3
  <2> QED BY <2>1
<1>5. S \ {a} \in SUBSET S /\ S \in SUBSET S
  OBVIOUS
<1> QED BY <1>0, <1>4, <1>5 DEF Naturals

\* The sum of a greater function is greater, and more members make it greater.
LEMMA SumBelow ==
  ASSUME NEW f, NEW e, NEW S, IsFiniteSet(S), Naturals(f, S), Naturals(e, S),
         \A x \in S : f[x] <= e[x]
  PROVE  SumFunctionOnSet(f, S) <= SumFunctionOnSet(e, S)
<1> DEFINE bad == {s \in SUBSET S : ~(SumFunctionOnSet(f, s) <= SumFunctionOnSet(e, s))}
<1>1. ASSUME NEW s, Minimal(s, bad) PROVE FALSE
  <2>1. s \in bad /\ s \in SUBSET S /\ IsFiniteSet(s) /\ Naturals(f, s) /\ Naturals(e, s)
    BY <1>1, FS_Subset DEF Minimal, Naturals
  <2>2. CASE s = {}
    BY <2>1, <2>2, SumEmpty
  <2>3. CASE s # {}
    <3>1. PICK x : x \in s
      BY <2>3
    <3>2. s \ {x} \notin bad /\ s \ {x} \in SUBSET S /\ x \in S
      BY <1>1, <2>1, <3>1 DEF Minimal
    <3>3. /\ SumFunctionOnSet(f, s) = f[x] + SumFunctionOnSet(f, s \ {x})
          /\ SumFunctionOnSet(f, s \ {x}) \in Nat /\ f[x] \in Nat
      BY <2>1, <3>1, SumRemove
    <3>4. /\ SumFunctionOnSet(e, s) = e[x] + SumFunctionOnSet(e, s \ {x})
          /\ SumFunctionOnSet(e, s \ {x}) \in Nat /\ e[x] \in Nat
      BY <2>1, <3>1, SumRemove
    <3>5. f[x] <= e[x] /\ SumFunctionOnSet(f, s \ {x}) <= SumFunctionOnSet(e, s \ {x})
      BY <3>2
    <3>6. SumFunctionOnSet(f, s) <= SumFunctionOnSet(e, s)
      BY <3>3, <3>4, <3>5
    <3> QED BY <2>1, <3>6
  <2> QED BY <2>2, <2>3
<1>2. bad \subseteq SUBSET S
  OBVIOUS
<1>3. bad = {}
  <2> HIDE DEF bad
  <2>1. ASSUME bad # {} PROVE FALSE
    <3>1. PICK s : Minimal(s, bad)
      BY <1>2, <2>1, SmallestSet, Zenon
    <3> QED BY <1>1, <3>1
  <2> QED BY <2>1
<1> QED BY <1>3

\* Sums add up.
LEMMA SumPlus ==
  ASSUME NEW f, NEW e, NEW h, NEW S, IsFiniteSet(S), Naturals(f, S), Naturals(e, S),
         \A x \in S : h[x] = f[x] + e[x]
  PROVE  SumFunctionOnSet(h, S) = SumFunctionOnSet(f, S) + SumFunctionOnSet(e, S)
<1> DEFINE Adds(s) == SumFunctionOnSet(h, s) = SumFunctionOnSet(f, s) + SumFunctionOnSet(e, s)
           bad == {s \in SUBSET S : ~Adds(s)}
<1>1. ASSUME NEW s, Minimal(s, bad) PROVE FALSE
  <2>1. /\ s \in bad /\ s \in SUBSET S /\ IsFiniteSet(s)
        /\ Naturals(f, s) /\ Naturals(e, s) /\ Naturals(h, s)
    BY <1>1, FS_Subset DEF Minimal, Naturals
  <2>2. CASE s = {}
    BY <2>1, <2>2, SumEmpty
  <2>3. CASE s # {}
    <3>1. PICK x : x \in s
      BY <2>3
    <3>2. s \ {x} \notin bad /\ s \ {x} \in SUBSET S /\ x \in S
      BY <1>1, <2>1, <3>1 DEF Minimal
    <3>3. /\ SumFunctionOnSet(f, s) = f[x] + SumFunctionOnSet(f, s \ {x})
          /\ SumFunctionOnSet(f, s \ {x}) \in Nat /\ f[x] \in Nat
      BY <2>1, <3>1, SumRemove
    <3>4. /\ SumFunctionOnSet(e, s) = e[x] + SumFunctionOnSet(e, s \ {x})
          /\ SumFunctionOnSet(e, s \ {x}) \in Nat /\ e[x] \in Nat
      BY <2>1, <3>1, SumRemove
    <3>5. /\ SumFunctionOnSet(h, s) = h[x] + SumFunctionOnSet(h, s \ {x})
          /\ SumFunctionOnSet(h, s \ {x}) \in Nat
      BY <2>1, <3>1, SumRemove
    <3>6. h[x] = f[x] + e[x] /\ Adds(s \ {x})
      BY <3>2
    <3>7. Adds(s)
      BY <3>3, <3>4, <3>5, <3>6
    <3> QED BY <2>1, <3>7
  <2> QED BY <2>2, <2>3
<1>2. bad \subseteq SUBSET S
  OBVIOUS
<1>3. bad = {}
  <2> HIDE DEF bad
  <2>1. ASSUME bad # {} PROVE FALSE
    <3>1. PICK s : Minimal(s, bad)
      BY <1>2, <2>1, SmallestSet, Zenon
    <3> QED BY <1>1, <3>1
  <2> QED BY <2>1
<1>4. Adds(S)
  BY <1>3
<1> QED BY <1>4

\* A constant is summed as often as there are members.
LEMMA SumConstant ==
  ASSUME NEW f, NEW k \in Nat, NEW S, IsFiniteSet(S), \A x \in S : f[x] = k
  PROVE  SumFunctionOnSet(f, S) = Cardinality(S) * k
<1> DEFINE Is(s) == SumFunctionOnSet(f, s) = Cardinality(s) * k
           bad == {s \in SUBSET S : ~Is(s)}
<1>1. ASSUME NEW s, Minimal(s, bad) PROVE FALSE
  <2>1. s \in bad /\ s \in SUBSET S /\ IsFiniteSet(s) /\ Naturals(f, s)
    BY <1>1, FS_Subset DEF Minimal, Naturals
  <2>2. CASE s = {}
    <3>1. SumFunctionOnSet(f, s) = 0 /\ Cardinality(s) = 0
      BY <2>2, SumEmpty, FS_EmptySet
    <3> QED BY <2>1, <3>1
  <2>3. CASE s # {}
    <3>1. PICK x : x \in s
      BY <2>3
    <3>2. s \ {x} \notin bad /\ s \ {x} \in SUBSET S /\ x \in S
      BY <1>1, <2>1, <3>1 DEF Minimal
    <3>3. /\ SumFunctionOnSet(f, s) = f[x] + SumFunctionOnSet(f, s \ {x})
          /\ SumFunctionOnSet(f, s \ {x}) \in Nat /\ f[x] = k
      BY <2>1, <3>1, <3>2, SumRemove
    <3>4. Cardinality(s \ {x}) = Cardinality(s) - 1 /\ Cardinality(s) \in Nat
      BY <2>1, <3>1, FS_RemoveElement, FS_CardinalityType
    <3>5. SumFunctionOnSet(f, s \ {x}) = (Cardinality(s) - 1) * k
      BY <3>2, <3>4
    <3>6. Cardinality(s) * k = k + (Cardinality(s) - 1) * k
      BY <3>4
    <3> QED BY <2>1, <3>3, <3>5, <3>6
  <2> QED BY <2>2, <2>3
<1>2. bad \subseteq SUBSET S
  OBVIOUS
<1>3. bad = {}
  <2> HIDE DEF bad
  <2>1. ASSUME bad # {} PROVE FALSE
    <3>1. PICK s : Minimal(s, bad)
      BY <1>2, <2>1, SmallestSet, Zenon
    <3> QED BY <1>1, <3>1
  <2> QED BY <2>1
<1>4. Is(S)
  BY <1>3
<1> QED BY <1>4

\* What is not zero of f goes, by m, to different members of R with as much of e.
Into(m, f, s, e, q) ==
  /\ \A x \in s : f[x] = 0 \/ (m[x] \in q /\ f[x] <= e[m[x]])
  /\ \A x, y \in s : m[x] \in q /\ m[x] = m[y] => x = y

LEMMA SumInto ==
  ASSUME NEW m, NEW f, NEW e, NEW S, NEW R, IsFiniteSet(S), IsFiniteSet(R),
         Naturals(f, S), Naturals(e, R), Into(m, f, S, e, R)
  PROVE  SumFunctionOnSet(f, S) <= SumFunctionOnSet(e, R)
<1> DEFINE Fits(s, q) == SumFunctionOnSet(f, s) <= SumFunctionOnSet(e, q)
           bad == {s \in SUBSET S : \E q \in SUBSET R : Into(m, f, s, e, q) /\ ~Fits(s, q)}
<1>0. /\ \A s \in SUBSET S : IsFiniteSet(s) /\ Naturals(f, s)
      /\ \A q \in SUBSET R : IsFiniteSet(q) /\ Naturals(e, q)
  BY FS_Subset DEF Naturals
<1>1. ASSUME NEW s, Minimal(s, bad) PROVE FALSE
  <2>1. s \in SUBSET S /\ \E q \in SUBSET R : Into(m, f, s, e, q) /\ ~Fits(s, q)
    BY <1>1 DEF Minimal
  <2>2. PICK q \in SUBSET R : Into(m, f, s, e, q) /\ ~Fits(s, q)
    BY <2>1
  <2>3. SumFunctionOnSet(f, s) \in Nat /\ SumFunctionOnSet(e, q) \in Nat
    BY <1>0, <2>1, SumNat
  <2>4. CASE s = {}
    <3>1. SumFunctionOnSet(f, s) = 0
      BY <2>4, SumEmpty
    <3> QED BY <2>2, <2>3, <3>1
  <2>5. CASE s # {}
    <3>1. PICK x : x \in s
      BY <2>5
    <3>2. s \ {x} \notin bad /\ s \ {x} \in SUBSET S
      <4>1. s \ {x} # s /\ s \ {x} \subseteq s
        BY <3>1
      <4> HIDE DEF bad
      <4> QED BY <1>1, <2>1, <4>1 DEF Minimal
    <3>3. /\ SumFunctionOnSet(f, s) = f[x] + SumFunctionOnSet(f, s \ {x})
          /\ SumFunctionOnSet(f, s \ {x}) \in Nat /\ f[x] \in Nat
      BY <1>0, <2>1, <3>1, SumRemove
    <3>4. CASE f[x] = 0
      <4>1. Into(m, f, s \ {x}, e, q)
        BY <2>2 DEF Into
      <4>2. Fits(s \ {x}, q)
        BY <3>2, <4>1
      <4> QED BY <2>2, <2>3, <3>3, <3>4, <4>2
    <3>5. CASE f[x] # 0
      <4>1. m[x] \in q /\ f[x] <= e[m[x]]
        BY <2>2, <3>1, <3>5 DEF Into
      <4>2. q \ {m[x]} \in SUBSET R /\ Into(m, f, s \ {x}, e, q \ {m[x]})
        BY <2>2, <3>1, <4>1 DEF Into
      <4>3. Fits(s \ {x}, q \ {m[x]})
        BY <3>2, <4>2
      <4>4. /\ SumFunctionOnSet(e, q) = e[m[x]] + SumFunctionOnSet(e, q \ {m[x]})
            /\ SumFunctionOnSet(e, q \ {m[x]}) \in Nat /\ e[m[x]] \in Nat
        <5>1. PICK y \in q : y = m[x]
          BY <4>1
        <5>2. IsFiniteSet(q) /\ Naturals(e, q)
          BY <1>0
        <5>3. /\ SumFunctionOnSet(e, q) = e[y] + SumFunctionOnSet(e, q \ {y})
              /\ SumFunctionOnSet(e, q \ {y}) \in Nat /\ e[y] \in Nat
          BY <5>2, SumRemove
        <5> QED BY <5>1, <5>3
      <4> QED BY <2>2, <2>3, <3>3, <4>1, <4>3, <4>4
    <3> QED BY <3>4, <3>5
  <2> QED BY <2>4, <2>5
<1>2. bad \subseteq SUBSET S
  OBVIOUS
<1>3. bad = {}
  <2> HIDE DEF bad
  <2>1. ASSUME bad # {} PROVE FALSE
    <3>1. PICK s : Minimal(s, bad)
      BY <1>2, <2>1, SmallestSet, Zenon
    <3> QED BY <1>1, <3>1
  <2> QED BY <2>1
<1>4. Fits(S, R)
  BY <1>3
<1> QED BY <1>4

-----------------------------------------------------------------------------
\* Sums of amounts, dimension by dimension.
LEMMA PlusAmount ==
  ASSUME NEW x \in Amount, NEW y \in Amount
  PROVE  /\ Plus(x, y) \in Amount /\ \A d \in Dims : Plus(x, y)[d] = x[d] + y[d]
BY DEF Amount, Plus

\* The empty amount is one.
LEMMA ZeroAmount == Zero \in Amount /\ \A d \in Dims : Zero[d] = 0
BY DEF Amount, Zero

\* What commit() leaves: the charge of c moves into the ledger, unless its row was
\* swept, which only happens after something was lost.
LEMMA SettledLedger ==
  ASSUME LInv, NEW c \in Children
  PROVE  /\ SpentAfter(c) \in [Children -> Amount]
         /\ \A x \in Children \ {c} : SpentAfter(c)[x] = spent[x]
         /\ \A d \in Dims : /\ SpentAfter(c)[c][d] <= real[c][d]
                            /\ ~lost => SpentAfter(c)[c][d] = real[c][d]
<1>1. spent[c] \in Amount /\ since[c] \in Amount /\ real[c] \in Amount
  BY DEF LInv, Typed
<1>2. CASE Settles(c)
  <2>1. SpentAfter(c) = [spent EXCEPT ![c] = Plus(spent[c], since[c])]
    BY <1>2 DEF SpentAfter
  <2>2. Plus(spent[c], since[c]) \in Amount
    BY <1>1, PlusAmount
  <2>3. \A d \in Dims : Plus(spent[c], since[c])[d] = spent[c][d] + since[c][d]
    BY <1>1, PlusAmount
  <2>4. SpentAfter(c)[c] = Plus(spent[c], since[c])
    BY <2>1 DEF LInv, Typed
  <2> QED BY <2>1, <2>2, <2>3, <2>4 DEF LInv, Typed, LedgerHonest
<1>3. CASE ~Settles(c)
  <2>1. SpentAfter(c) = spent
    BY <1>3 DEF SpentAfter
  <2>2. \A d \in Dims : spent[c][d] \in Nat /\ since[c][d] \in Nat /\ real[c][d] \in Nat
    BY <1>1 DEF Amount
  <2>3. ~lost => \A d \in Dims : since[c][d] = 0
    <3>1. ~lost => open[c] = None
      BY <1>3 DEF LInv, NothingLost, Settles
    <3> QED BY <3>1, ZeroAmount DEF LInv, OwnRow
  <2> QED BY <2>1, <2>2, <2>3 DEF LInv, Typed, LedgerHonest
<1> QED BY <1>2, <1>3

\* The ledger is empty at first.
LEMMA InitLInv == Init => LInv
<1> SUFFICES ASSUME Init PROVE LInv
  OBVIOUS
<1>1. Zero \in Amount
  BY ZeroAmount
<1>2. Typed
  BY <1>1, PartitionAssumption DEF Init, Typed
<1>3. OwnRow /\ NothingLost
  BY DEF Init, OwnRow, NothingLost
<1>4. LedgerHonest
  BY ZeroAmount DEF Init, LedgerHonest
<1> QED BY <1>2, <1>3, <1>4 DEF LInv

-----------------------------------------------------------------------------
\* A settlement moves what was counted into the ledger, whichever rows it leaves
\* active, if a row taken from another worker is known to be lost.
LEMMA SettledKeeps ==
  ASSUME LInv, NEW c \in Children, Settled(c),
         active' \subseteq Res, lost' \in BOOLEAN, lost => lost', NothingLost'
  PROVE  LInv'
<1> USE PartitionAssumption
<1>1. /\ spent' = SpentAfter(c) /\ since' = [since EXCEPT ![c] = Zero]
      /\ open' = [open EXCEPT ![c] = None] /\ res' = res /\ real' = real
  BY DEF Settled
<1>2. Typed'
  BY <1>1, SettledLedger, ZeroAmount DEF LInv, Typed
<1>3. OwnRow'
  BY <1>1 DEF LInv, Typed, OwnRow
<1>4. LedgerHonest'
  <2> SUFFICES ASSUME NEW x \in Children, NEW d \in Dims
               PROVE  /\ spent'[x][d] + since'[x][d] <= real[x][d]
                      /\ ~lost => spent'[x][d] + since'[x][d] = real[x][d]
    BY <1>1 DEF LedgerHonest
  <2>1. CASE x = c
    <3>1. since'[x][d] = 0 /\ spent'[x][d] = SpentAfter(c)[c][d]
      BY <1>1, <2>1, ZeroAmount DEF LInv, Typed
    <3>2. SpentAfter(c)[c] \in Amount
      BY SettledLedger
    <3>3. SpentAfter(c)[c][d] \in Nat
      BY <3>2 DEF Amount
    <3> QED BY <2>1, <3>1, <3>3, SettledLedger
  <2>2. CASE x # c
    <3>1. since'[x] = since[x] /\ spent'[x] = spent[x]
      BY <1>1, <2>2, SettledLedger DEF LInv, Typed
    <3> QED BY <3>1 DEF LInv, LedgerHonest
  <2> QED BY <2>1, <2>2
<1> QED BY <1>2, <1>3, <1>4 DEF LInv

\* No two workers have the same row.
LEMMA RowsApart ==
  ASSUME LInv, NEW c \in Children, NEW x \in Children \ {c}, open[x] # None, ~lost
  PROVE  open[x] \in active /\ open[x] # open[c]
<1>1. open[x] \in active /\ res[open[x]].child = x
  BY DEF LInv, NothingLost, OwnRow
<1>2. open[c] # None => res[open[c]].child = c
  BY DEF LInv, OwnRow
<1> QED BY <1>1, <1>2

LEMMA SettleKeeps ==
  ASSUME LInv, NEW c \in Children, Settle(c)
  PROVE  LInv'
<1>1. /\ Settled(c) /\ active' = active \ {open[c]} /\ lost' = lost
      /\ open' = [open EXCEPT ![c] = None]
  BY DEF Settle, Settled
<1>2. NothingLost'
  <2> SUFFICES ASSUME ~lost, NEW x \in Children \ {c}, open[x] # None
               PROVE  open[x] \in active \ {open[c]}
    BY <1>1 DEF LInv, Typed, NothingLost
  <2> QED BY RowsApart
<1>3. active' \subseteq Res /\ lost' \in BOOLEAN
  BY <1>1 DEF LInv, Typed
<1> QED BY <1>1, <1>2, <1>3, SettledKeeps

\* A step that the ledger refuses is settled and swept for as one that it allows.
LEMMA RefuseKeeps ==
  ASSUME LInv, NEW c \in Children, NEW est \in Estimates, Refuse(c, est)
  PROVE  LInv'
<1>1. /\ Settled(c) /\ active' = InFlight(c)
      /\ lost' = (lost \/ \E x \in Children \ {c} : open[x] \in old)
      /\ open' = [open EXCEPT ![c] = None]
  BY DEF Refuse, Settled, Sweeps
<1>2. NothingLost'
  <2> SUFFICES ASSUME ~lost', NEW x \in Children \ {c}, open[x] # None
               PROVE  open[x] \in InFlight(c)
    BY <1>1 DEF LInv, Typed, NothingLost
  <2>1. ~lost /\ open[x] \notin old
    BY <1>1
  <2> QED BY <2>1, RowsApart DEF InFlight
<1>3. active' \subseteq Res /\ lost' \in BOOLEAN /\ (lost => lost')
  BY <1>1 DEF InFlight, LInv, Typed
<1> QED BY <1>1, <1>2, <1>3, SettledKeeps

\* A step that is allowed settles the one before it, and sweeps what is stale: a
\* row of another worker in there is a charge that will not be settled.
LEMMA AdmitKeeps ==
  ASSUME LInv, NEW c \in Children, NEW est \in Estimates, Admit(c, est)
  PROVE  LInv'
<1> USE PartitionAssumption
<1> DEFINE r == CHOOSE x \in Free : TRUE
<1>1. r \in Res /\ r \notin active /\ \A x \in Children : open[x] # r
  BY DEF Admit, Free
<1>2. /\ spent' = SpentAfter(c) /\ since' = [since EXCEPT ![c] = Zero]
      /\ res' = [res EXCEPT ![r] = [child |-> c, est |-> est]]
      /\ active' = InFlight(c) \cup {r} /\ open' = [open EXCEPT ![c] = r]
      /\ lost' = (lost \/ \E x \in Children \ {c} : open[x] \in old)
      /\ real' = real
  BY DEF Admit, Sweeps
<1>3. Typed'
  <2>1. active' \subseteq Res
    BY <1>1, <1>2 DEF InFlight, LInv, Typed
  <2>2. spent' \in [Children -> Amount] /\ since' \in [Children -> Amount]
    BY <1>2, SettledLedger, ZeroAmount DEF LInv, Typed
  <2>3. est \in Amount
    OBVIOUS
  <2> QED BY <1>1, <1>2, <2>1, <2>2, <2>3 DEF LInv, Typed
<1>4. OwnRow'
  BY <1>1, <1>2 DEF LInv, Typed, OwnRow
<1>5. NothingLost'
  <2> SUFFICES ASSUME ~lost', NEW x \in Children, open'[x] # None
               PROVE  open'[x] \in active'
    BY DEF NothingLost
  <2>1. CASE x = c
    BY <1>2, <2>1 DEF LInv, Typed
  <2>2. CASE x # c
    <3>1. ~lost /\ open'[x] = open[x] /\ open[x] \notin old
      BY <1>2, <2>2 DEF LInv, Typed
    <3>2. open[x] \in active /\ res[open[x]].child = x
      BY <3>1 DEF LInv, NothingLost, OwnRow
    <3>3. open[x] # open[c]
      BY <2>2, <3>1 DEF LInv, OwnRow
    <3> QED BY <1>2, <3>1, <3>2, <3>3 DEF InFlight
  <2> QED BY <2>1, <2>2
<1>6. LedgerHonest'
  <2> SUFFICES ASSUME NEW x \in Children, NEW d \in Dims
               PROVE  /\ spent'[x][d] + since'[x][d] <= real[x][d]
                      /\ ~lost => spent'[x][d] + since'[x][d] = real[x][d]
    BY <1>2 DEF LedgerHonest, LInv, Typed
  <2>1. CASE x = c
    <3>1. since'[x][d] = 0 /\ spent'[x][d] = SpentAfter(c)[c][d]
      BY <1>2, <2>1, ZeroAmount DEF LInv, Typed
    <3>2. SpentAfter(c)[c] \in Amount
      BY SettledLedger
    <3>3. SpentAfter(c)[c][d] \in Nat
      BY <3>2 DEF Amount
    <3> QED BY <2>1, <3>1, <3>3, SettledLedger
  <2>2. CASE x # c
    <3>1. since'[x] = since[x] /\ spent'[x] = spent[x]
      BY <1>2, <2>2, SettledLedger DEF LInv, Typed
    <3> QED BY <3>1 DEF LInv, LedgerHonest
  <2> QED BY <2>1, <2>2
<1> QED BY <1>3, <1>4, <1>5, <1>6 DEF LInv

\* What the provider charges is counted when it answers.
LEMMA AnswerKeeps ==
  ASSUME LInv, NEW c \in Children, NEW use \in Uses, Answer(c, use)
  PROVE  LInv'
<1>1. use \in Amount /\ real[c] \in Amount /\ spent[c] \in Amount
  BY PartitionAssumption DEF LInv, Typed
<1>2. /\ since[c] = Zero /\ open[c] # None
      /\ since' = [since EXCEPT ![c] = use]
      /\ real' = [real EXCEPT ![c] = Plus(real[c], use)]
      /\ UNCHANGED <<spent, res, active, open, lost>>
  BY DEF Answer, ledger
<1>3. Plus(real[c], use) \in Amount
  BY <1>1, PlusAmount
<1>4. Typed'
  BY <1>1, <1>2, <1>3 DEF LInv, Typed
<1>5. OwnRow' /\ NothingLost'
  BY <1>2 DEF LInv, Typed, OwnRow, NothingLost
<1>6. LedgerHonest'
  <2> SUFFICES ASSUME NEW x \in Children, NEW d \in Dims
               PROVE  /\ spent[x][d] + since'[x][d] <= real'[x][d]
                      /\ ~lost => spent[x][d] + since'[x][d] = real'[x][d]
    BY <1>2 DEF LedgerHonest
  <2>1. CASE x = c
    <3>1. since'[x][d] = use[d] /\ real'[x][d] = real[c][d] + use[d]
      BY <1>1, <1>2, <2>1, PlusAmount DEF LInv, Typed
    <3>2. spent[c][d] \in Nat /\ real[c][d] \in Nat /\ use[d] \in Nat
      BY <1>1 DEF Amount
    <3>3. spent[c][d] <= real[c][d] /\ (~lost => spent[c][d] = real[c][d])
      BY <1>2, <3>2, ZeroAmount DEF LInv, LedgerHonest
    <3> QED BY <2>1, <3>1, <3>2, <3>3
  <2>2. CASE x # c
    BY <1>2, <2>2 DEF LInv, Typed, LedgerHonest
  <2> QED BY <2>1, <2>2
<1> QED BY <1>4, <1>5, <1>6 DEF LInv

\* A crash that costs a charge is one that something was lost in.
LEMMA CrashKeeps ==
  ASSUME LInv, Crash
  PROVE  LInv'
<1> USE PartitionAssumption
<1>1. /\ open' = [c \in Children |-> None] /\ since' = [c \in Children |-> Zero]
      /\ lost' = (lost \/ \E c \in Children : since[c] # Zero)
      /\ UNCHANGED <<spent, res, active, real>>
  BY DEF Crash, ledger
<1>2. Typed'
  BY <1>1, ZeroAmount DEF LInv, Typed
<1>3. OwnRow' /\ NothingLost'
  BY <1>1 DEF OwnRow, NothingLost
<1>4. LedgerHonest'
  <2> SUFFICES ASSUME NEW x \in Children, NEW d \in Dims
               PROVE  /\ spent[x][d] + 0 <= real[x][d]
                      /\ ~lost' => spent[x][d] + 0 = real[x][d]
    BY <1>1, ZeroAmount DEF LedgerHonest
  <2>1. spent[x] \in Amount /\ since[x] \in Amount /\ real[x] \in Amount
    BY DEF LInv, Typed
  <2>2. spent[x][d] \in Nat /\ since[x][d] \in Nat /\ real[x][d] \in Nat
    BY <2>1 DEF Amount
  <2>3. ~lost' => since[x][d] = 0
    BY <1>1, ZeroAmount
  <2>4. /\ spent[x][d] + since[x][d] <= real[x][d]
        /\ ~lost => spent[x][d] + since[x][d] = real[x][d]
    BY DEF LInv, LedgerHonest
  <2>5. ~lost' => ~lost
    BY <1>1
  <2> QED BY <2>2, <2>3, <2>4, <2>5
<1> QED BY <1>2, <1>3, <1>4 DEF LInv

-----------------------------------------------------------------------------
\* Every step keeps the ledger honest; cutting partitions, finishing and the clock
\* do not touch a charge.
LEMMA StepKeeps == LInv /\ [Next]_vars => LInv'
<1> SUFFICES ASSUME LInv, [Next]_vars PROVE LInv'
  OBVIOUS
<1>1. ASSUME UNCHANGED <<spent, res, active, open, since, real, lost>> PROVE LInv'
  BY <1>1 DEF LInv, Typed, OwnRow, NothingLost, LedgerHonest
<1>2. ASSUME NEW top \in RootCaps, NEW S \in SUBSET Children, NEW tasks \in SetToSeqs(S),
             Fund(top, tasks)
      PROVE  LInv'
  BY <1>1, <1>2 DEF Fund
<1>3. ASSUME NEW c \in Children, Settle(c) PROVE LInv'
  BY <1>3, SettleKeeps
<1>4. ASSUME NEW c \in Children, NEW est \in Estimates, Admit(c, est) PROVE LInv'
  BY <1>4, AdmitKeeps
<1>10. ASSUME NEW c \in Children, NEW est \in Estimates, Refuse(c, est) PROVE LInv'
  BY <1>10, RefuseKeeps
<1>5. ASSUME NEW c \in Children, NEW use \in Uses, Answer(c, use) PROVE LInv'
  BY <1>5, AnswerKeeps
<1>6. ASSUME NEW r \in Res, Age(r) PROVE LInv'
  BY <1>1, <1>6 DEF Age
<1>7. CASE Finish
  BY <1>1, <1>7 DEF Finish, ledger
<1>8. CASE Crash
  BY <1>8, CrashKeeps
<1>9. CASE UNCHANGED vars
  BY <1>1, <1>9 DEF vars, ledger
<1> QED BY <1>2, <1>3, <1>4, <1>5, <1>6, <1>7, <1>8, <1>9, <1>10 DEF Next

\* The ledger never charges more than the provider did, and when nothing was lost
\* it misses only what a worker has counted and not settled.
THEOREM PartitionLedgerHonest == Spec => []LedgerHonest
<1>1. Init => LInv
  BY InitLInv
<1>2. LInv /\ [Next]_vars => LInv'
  BY StepKeeps
<1>3. LInv => LedgerHonest
  BY DEF LInv
<1> QED BY <1>1, <1>2, <1>3, PTL DEF Spec

-----------------------------------------------------------------------------
(* The envelope: what a step in flight was estimated at stands in for what *)
(* it will use, and a worker without one may have gone over by one step.   *)

Owed(c, d) == IF open[c] = None THEN 0 ELSE res[open[c]].est[d]
Spare(c) == IF open[c] = None THEN MaxOver ELSE 0
Load(c, d) == spent[c][d] + Owed(c, d)

\* A task is charged under a partition, and a partition is cut under a root.
Opened ==
  /\ root \in Amount \cup {None}
  /\ cap \in [Children -> Amount \cup {None}]
  /\ root = None => \A c \in Children : cap[c] = None
  /\ \A c \in Children : cap[c] = None => real[c] = Zero /\ open[c] = None

\* A worker has counted what its estimate and the bound allow.
Estimated == \A c \in Children, d \in Dims : since[c][d] + Spare(c) <= Owed(c, d) + MaxOver

\* What is settled or in flight is within the partition, and the root.
InCap ==
  ~lost => \A c \in Cut, d \in Dims :
    cap[c][d] > 0 => Load(c, d) <= cap[c][d] + Spare(c)

Loads(d) == SumFunction([c \in Children |-> Load(c, d)])
Spares == SumFunction([c \in Children |-> Spare(c)])
InRoot ==
  ~lost /\ root # None => \A d \in Dims : root[d] > 0 => Loads(d) <= root[d] + Spares

EInv == LInv /\ Opened /\ Estimated /\ InCap /\ InRoot

\* Numbers are natural.
LEMMA Quantities ==
  ASSUME LInv, NEW c \in Children, NEW d \in Dims
  PROVE  /\ spent[c][d] \in Nat /\ real[c][d] \in Nat /\ since[c][d] \in Nat
         /\ Owed(c, d) \in Nat /\ Spare(c) \in Nat /\ Load(c, d) \in Nat
<1>1. spent[c] \in Amount /\ real[c] \in Amount /\ since[c] \in Amount
  BY DEF LInv, Typed
<1>2. open[c] # None => res[open[c]].est \in Amount
  BY DEF LInv, Typed
<1>3. Owed(c, d) \in Nat
  BY <1>2 DEF Owed, Amount
<1>4. Spare(c) \in Nat
  BY PartitionAssumption DEF Spare
<1> QED BY <1>1, <1>3, <1>4 DEF Amount, Load

\* A worker's load may grow by what it saves: the root still bounds the sum.
LEMMA RootHolds ==
  ASSUME NEW f, NEW g, NEW p, NEW q, NEW n \in Nat,
         Naturals(f, Children), Naturals(g, Children),
         Naturals(p, Children), Naturals(q, Children),
         \A c \in Children : g[c] + p[c] <= f[c] + q[c],
         SumFunctionOnSet(f, Children) <= n + SumFunctionOnSet(p, Children)
  PROVE  SumFunctionOnSet(g, Children) <= n + SumFunctionOnSet(q, Children)
<1> DEFINE a == [c \in Children |-> g[c] + p[c]]
           b == [c \in Children |-> f[c] + q[c]]
<1>0. IsFiniteSet(Children)
  BY PartitionAssumption
<1>1. SumFunctionOnSet(a, Children) = SumFunctionOnSet(g, Children) + SumFunctionOnSet(p, Children)
  <2>1. \A c \in Children : a[c] = g[c] + p[c]
    OBVIOUS
  <2> HIDE DEF a
  <2> QED BY <1>0, <2>1, SumPlus
<1>2. SumFunctionOnSet(b, Children) = SumFunctionOnSet(f, Children) + SumFunctionOnSet(q, Children)
  <2>1. \A c \in Children : b[c] = f[c] + q[c]
    OBVIOUS
  <2> HIDE DEF b
  <2> QED BY <1>0, <2>1, SumPlus
<1>3. SumFunctionOnSet(a, Children) <= SumFunctionOnSet(b, Children)
  <2>1. Naturals(a, Children) /\ Naturals(b, Children) /\ \A c \in Children : a[c] <= b[c]
    BY DEF Naturals
  <2> HIDE DEF a, b
  <2> QED BY <1>0, <2>1, SumBelow
<1>4. /\ SumFunctionOnSet(f, Children) \in Nat /\ SumFunctionOnSet(g, Children) \in Nat
      /\ SumFunctionOnSet(p, Children) \in Nat /\ SumFunctionOnSet(q, Children) \in Nat
  BY <1>0, SumNat
<1> HIDE DEF a, b
<1> QED BY <1>1, <1>2, <1>3, <1>4

\* What the workers really used, from what they are charged and owe.
LEMMA EnvelopeHolds == EInv => WithinEnvelope
<1> SUFFICES ASSUME EInv, ~lost, root # None, NEW d \in Dims
             PROVE  /\ root[d] > 0 => Total(real, d) <= root[d] + Cardinality(Children) * MaxOver
                    /\ \A c \in Cut : cap[c][d] > 0 => real[c][d] <= cap[c][d] + MaxOver
  BY DEF WithinEnvelope
<1>1. LInv /\ Opened /\ Estimated /\ InCap /\ InRoot
  BY DEF EInv
<1>2. ASSUME NEW c \in Children
      PROVE  real[c][d] + Spare(c) <= Load(c, d) + MaxOver
  <2>1. real[c][d] = spent[c][d] + since[c][d]
    BY <1>1 DEF LInv, LedgerHonest
  <2>2. since[c][d] + Spare(c) <= Owed(c, d) + MaxOver
    BY <1>1 DEF Estimated
  <2> QED BY <1>1, <2>1, <2>2, Quantities, PartitionAssumption DEF Load
<1>3. ASSUME NEW c \in Cut, cap[c][d] > 0 PROVE real[c][d] <= cap[c][d] + MaxOver
  <2>1. c \in Children /\ cap[c] \in Amount
    BY <1>1 DEF Cut, Opened
  <2>2. Load(c, d) <= cap[c][d] + Spare(c)
    BY <1>1, <1>3 DEF InCap
  <2>3. cap[c][d] \in Nat
    BY <2>1 DEF Amount
  <2> QED BY <1>1, <1>2, <2>1, <2>2, <2>3, Quantities, PartitionAssumption
<1>4. ASSUME root[d] > 0
      PROVE  Total(real, d) <= root[d] + Cardinality(Children) * MaxOver
  <2> DEFINE r == [c \in Children |-> real[c][d]]
             l == [c \in Children |-> Load(c, d)]
             p == [c \in Children |-> Spare(c)]
             k == [c \in Children |-> MaxOver]
  <2>1. Naturals(r, Children) /\ Naturals(l, Children) /\ Naturals(p, Children) /\ Naturals(k, Children)
    BY <1>1, Quantities, PartitionAssumption DEF Naturals
  <2>2. \A c \in Children : r[c] + p[c] <= l[c] + k[c]
    BY <1>2
  <2>3. SumFunctionOnSet(l, Children) <= root[d] + SumFunctionOnSet(p, Children)
    BY <1>1, <1>4 DEF InRoot, Loads, Spares, SumFunction
  <2>4. root[d] \in Nat
    BY <1>1 DEF Opened, Amount
  <2>5. SumFunctionOnSet(k, Children) = Cardinality(Children) * MaxOver
    <3>1. \A c \in Children : k[c] = MaxOver
      OBVIOUS
    <3> HIDE DEF k
    <3> QED BY <3>1, SumConstant, PartitionAssumption
  <2>6. Total(real, d) = SumFunctionOnSet(r, Children)
    BY DEF Total, SumFunction
  <2>7. SumFunctionOnSet(r, Children) <= root[d] + SumFunctionOnSet(k, Children)
    <3> HIDE DEF r, l, p, k
    <3> QED BY <2>1, <2>2, <2>3, <2>4, RootHolds
  <2> QED BY <2>5, <2>6, <2>7
<1> QED BY <1>3, <1>4

\* A step that cuts nothing and admits nothing keeps to the envelope if no load
\* grows by more than the worker stops sparing.
Eased == \A c \in Children, d \in Dims : Load(c, d)' + Spare(c) <= Load(c, d) + Spare(c)'

LEMMA EasedKeeps ==
  ASSUME EInv, LInv', Opened', Estimated', root' = root, cap' = cap, lost => lost',
         ~lost' => Eased
  PROVE  EInv'
<1>1. LInv /\ Opened /\ InCap /\ InRoot
  BY DEF EInv
<1>2. ASSUME NEW c \in Children, NEW d \in Dims
      PROVE  /\ Load(c, d) \in Nat /\ Spare(c) \in Nat
             /\ Load(c, d)' \in Nat /\ Spare(c)' \in Nat
  <2>1. Load(c, d) \in Nat /\ Spare(c) \in Nat
    BY <1>1, Quantities
  <2>2. spent'[c] \in Amount /\ (open'[c] # None => res'[open'[c]].est \in Amount)
    BY DEF LInv, Typed
  <2>3. Load(c, d)' \in Nat /\ Spare(c)' \in Nat
    BY <2>2, PartitionAssumption DEF Load, Owed, Spare, Amount
  <2> QED BY <2>1, <2>3
<1>3. InCap'
  <2> SUFFICES ASSUME ~lost', NEW c \in Cut, NEW d \in Dims, cap[c][d] > 0
               PROVE  Load(c, d)' <= cap[c][d] + Spare(c)'
    BY DEF InCap, Cut
  <2>1. c \in Children /\ cap[c] \in Amount
    BY <1>1 DEF Cut, Opened
  <2>2. Load(c, d) <= cap[c][d] + Spare(c)
    BY <1>1 DEF InCap
  <2>3. Load(c, d)' + Spare(c) <= Load(c, d) + Spare(c)'
    BY <2>1 DEF Eased
  <2>4. cap[c][d] \in Nat
    BY <2>1 DEF Amount
  <2> QED BY <1>2, <2>1, <2>2, <2>3, <2>4
<1>4. InRoot'
  <2> SUFFICES ASSUME ~lost', root # None, NEW d \in Dims, root[d] > 0
               PROVE  Loads(d)' <= root[d] + Spares'
    BY DEF InRoot
  <2> DEFINE f == [c \in Children |-> Load(c, d)]
             g == [c \in Children |-> Load(c, d)']
             p == [c \in Children |-> Spare(c)]
             q == [c \in Children |-> Spare(c)']
  <2>1. /\ Naturals(f, Children) /\ Naturals(g, Children)
        /\ Naturals(p, Children) /\ Naturals(q, Children)
    BY <1>2 DEF Naturals
  <2>2. \A c \in Children : g[c] + p[c] <= f[c] + q[c]
    BY DEF Eased
  <2>3. SumFunctionOnSet(f, Children) <= root[d] + SumFunctionOnSet(p, Children)
    BY <1>1 DEF InRoot, Loads, Spares, SumFunction
  <2>4. root[d] \in Nat
    BY <1>1 DEF Opened, Amount
  <2>5. Loads(d)' = SumFunctionOnSet(g, Children) /\ Spares' = SumFunctionOnSet(q, Children)
    BY DEF Loads, Spares, SumFunction
  <2>6. SumFunctionOnSet(g, Children) <= root[d] + SumFunctionOnSet(q, Children)
    <3> HIDE DEF f, g, p, q
    <3> QED BY <2>1, <2>2, <2>3, <2>4, RootHolds
  <2> QED BY <2>5, <2>6
<1> QED BY <1>3, <1>4 DEF EInv

\* What is settled was owed, up to the bound that a settled worker spares.
LEMMA SettledHolds ==
  ASSUME EInv, NEW c \in Children, Settled(c), LInv', lost => lost'
  PROVE  EInv'
<1>1. LInv /\ Opened /\ Estimated
  BY DEF EInv
<1>3. /\ spent' = SpentAfter(c) /\ since' = [since EXCEPT ![c] = Zero]
      /\ open' = [open EXCEPT ![c] = None] /\ res' = res
      /\ root' = root /\ cap' = cap /\ real' = real
  BY DEF Settled
<1>4. Opened'
  BY <1>1, <1>3 DEF Opened, LInv, Typed
<1>5. ASSUME NEW x \in Children \ {c}, NEW d \in Dims
      PROVE  /\ Owed(x, d)' = Owed(x, d) /\ Spare(x)' = Spare(x)
             /\ spent'[x] = spent[x] /\ since'[x] = since[x]
  <2>1. open'[x] = open[x] /\ since'[x] = since[x]
    BY <1>1, <1>3 DEF LInv, Typed
  <2> QED BY <1>1, <1>3, <2>1, SettledLedger DEF Owed, Spare
<1>6. ASSUME NEW d \in Dims
      PROVE  Owed(c, d)' = 0 /\ Spare(c)' = MaxOver /\ since'[c][d] = 0
  <2>1. open'[c] = None /\ since'[c] = Zero
    BY <1>1, <1>3 DEF LInv, Typed
  <2> QED BY <1>3, <2>1, ZeroAmount DEF Owed, Spare
<1>7. Estimated'
  <2> SUFFICES ASSUME NEW x \in Children, NEW d \in Dims
               PROVE  since'[x][d] + Spare(x)' <= Owed(x, d)' + MaxOver
    BY DEF Estimated
  <2>1. CASE x = c
    BY <1>6, <2>1, PartitionAssumption
  <2>2. CASE x # c
    BY <1>1, <1>5, <2>2 DEF Estimated
  <2> QED BY <2>1, <2>2
<1>8. ~lost' => Eased
  <2> SUFFICES ASSUME ~lost, NEW x \in Children, NEW d \in Dims
               PROVE  Load(x, d)' + Spare(x) <= Load(x, d) + Spare(x)'
    BY DEF Eased
  <2>0. Load(x, d) \in Nat /\ Spare(x) \in Nat
    BY <1>1, Quantities
  <2>1. CASE x # c
    BY <1>5, <2>0, <2>1 DEF Load
  <2>2. CASE x = c
    <3>1. SpentAfter(c)[c][d] = real[c][d]
      BY <1>1, SettledLedger
    <3>2. real[c][d] = spent[c][d] + since[c][d]
      BY <1>1 DEF LInv, LedgerHonest
    <3>3. since[c][d] + Spare(c) <= Owed(c, d) + MaxOver
      BY <1>1 DEF Estimated
    <3>4. spent[c][d] \in Nat /\ since[c][d] \in Nat /\ Owed(c, d) \in Nat
      BY <1>1, Quantities
    <3>5. Load(c, d)' = spent[c][d] + since[c][d]
      BY <1>3, <1>6, <3>1, <3>2, <3>4 DEF Load
    <3> QED BY <1>6, <2>0, <2>2, <3>3, <3>4, <3>5, PartitionAssumption DEF Load
  <2> QED BY <2>1, <2>2
<1> QED BY <1>3, <1>4, <1>7, <1>8, EasedKeeps

\* An answer is within the estimate and the bound.
LEMMA AnswerHolds ==
  ASSUME EInv, NEW c \in Children, NEW use \in Uses, Answer(c, use)
  PROVE  EInv'
<1>1. LInv /\ Opened /\ Estimated
  BY DEF EInv
<1>2. LInv'
  BY <1>1, AnswerKeeps
<1>3. /\ open[c] # None /\ \A d \in Dims : use[d] <= res[open[c]].est[d] + MaxOver
      /\ since' = [since EXCEPT ![c] = use]
      /\ real' = [real EXCEPT ![c] = Plus(@, use)]
      /\ UNCHANGED <<root, cap, spent, res, open, lost>>
  BY DEF Answer, ledger
<1>4. Opened'
  BY <1>1, <1>3 DEF Opened, LInv, Typed
<1>5. \A x \in Children, d \in Dims :
        Owed(x, d)' = Owed(x, d) /\ Spare(x)' = Spare(x) /\ Load(x, d)' = Load(x, d)
  BY <1>3 DEF Owed, Spare, Load
<1>6. Estimated'
  <2> SUFFICES ASSUME NEW x \in Children, NEW d \in Dims
               PROVE  since'[x][d] + Spare(x) <= Owed(x, d) + MaxOver
    BY <1>5 DEF Estimated
  <2>1. CASE x = c
    <3>1. since'[c] = use /\ use \in Amount
      BY <1>1, <1>3, PartitionAssumption DEF LInv, Typed
    <3>2. use[d] \in Nat
      BY <3>1 DEF Amount
    <3> QED BY <1>3, <2>1, <3>1, <3>2 DEF Owed, Spare
  <2>2. CASE x # c
    BY <1>1, <1>3, <2>2 DEF Estimated, LInv, Typed
  <2> QED BY <2>1, <2>2
<1>7. ~lost' => Eased
  BY <1>1, <1>5, Quantities DEF Eased
<1> QED BY <1>2, <1>3, <1>4, <1>6, <1>7, EasedKeeps

\* A dead process owes nothing, and either it had counted nothing or it is lost.
LEMMA CrashHolds ==
  ASSUME EInv, Crash
  PROVE  EInv'
<1>1. LInv /\ Opened /\ Estimated
  BY DEF EInv
<1>2. LInv'
  BY <1>1, CrashKeeps
<1>3. /\ open' = [c \in Children |-> None] /\ since' = [c \in Children |-> Zero]
      /\ lost' = (lost \/ \E c \in Children : since[c] # Zero)
      /\ UNCHANGED <<root, cap, spent, res, real>>
  BY DEF Crash, ledger
<1>4. Opened'
  BY <1>1, <1>3 DEF Opened
<1>5. ASSUME NEW x \in Children, NEW d \in Dims
      PROVE  /\ Owed(x, d)' = 0 /\ Spare(x)' = MaxOver /\ Load(x, d)' = spent[x][d]
             /\ since'[x][d] = 0
  BY <1>1, <1>3, Quantities, ZeroAmount DEF Owed, Spare, Load
<1>6. Estimated'
  BY <1>5, PartitionAssumption DEF Estimated
<1>7. Eased
  <2> SUFFICES ASSUME NEW x \in Children, NEW d \in Dims
               PROVE  spent[x][d] + Spare(x) <= Load(x, d) + MaxOver
    BY <1>5 DEF Eased
  <2>1. Spare(x) <= MaxOver
    BY PartitionAssumption DEF Spare
  <2> QED BY <1>1, <2>1, Quantities, PartitionAssumption DEF Load
<1> QED BY <1>2, <1>3, <1>4, <1>6, <1>7, EasedKeeps

\* The other workers' steps in flight are all among the rows that the root is
\* checked against, each with a row of its own.
LEMMA OthersReserved ==
  ASSUME LInv, NEW c \in Children, NEW d \in Dims, ~lost,
         \A x \in Children \ {c} : open[x] \notin old
  PROVE  LET f == [x \in Children |-> Owed(x, d)]
         IN /\ SumFunctionOnSet(f, Children \ {c}) <= Reserved(InFlight(c), d)
            /\ SumFunctionOnSet(f, Children \ {c}) \in Nat
            /\ Reserved(InFlight(c), d) \in Nat
<1> DEFINE f == [x \in Children |-> Owed(x, d)]
           R == InFlight(c)
           e == [r \in R |-> res[r].est[d]]
           S == Children \ {c}
<1>1. IsFiniteSet(S) /\ IsFiniteSet(R) /\ R \subseteq Res
  <2>1. R \subseteq Res
    BY DEF InFlight, LInv, Typed
  <2> QED BY <2>1, PartitionAssumption, FS_Subset
<1>2. Naturals(f, S) /\ Naturals(e, R)
  <2>1. \A r \in R : res[r].est \in Amount
    BY <1>1 DEF LInv, Typed
  <2> QED BY <2>1, Quantities DEF Naturals, Amount
<1>3. ASSUME NEW x \in S, open[x] # None
      PROVE  open[x] \in R /\ f[x] = e[open[x]] /\ res[open[x]].child = x
  <2>1. open[x] \in active /\ open[x] \notin old /\ res[open[x]].child = x
    BY <1>3 DEF LInv, NothingLost, OwnRow
  <2>2. open[x] # open[c]
    BY <1>3, <2>1 DEF LInv, OwnRow
  <2>3. open[x] \in R
    BY <2>1, <2>2 DEF InFlight
  <2> QED BY <1>3, <2>1, <2>3 DEF Owed
<1>4. \A x \in S : open[x] = None => f[x] = 0
  BY DEF Owed
<1>5. Into(open, f, S, e, R)
  <2>1. \A x \in S : f[x] = 0 \/ (open[x] \in R /\ f[x] <= e[open[x]])
    BY <1>2, <1>3, <1>4 DEF Naturals
  <2>2. ASSUME NEW x \in S, NEW y \in S, open[x] \in R, open[x] = open[y] PROVE x = y
    <3>1. open[x] # None /\ open[y] # None
      BY <1>1, <2>2, PartitionAssumption
    <3>2. res[open[x]].child = x /\ res[open[y]].child = y
      BY <1>3, <3>1
    <3> QED BY <2>2, <3>2
  <2> HIDE DEF f, e, R, S
  <2> QED BY <2>1, <2>2 DEF Into
<1>6. Reserved(R, d) = SumFunctionOnSet(e, R)
  BY DEF Reserved, SumFunction
<1>7. SumFunctionOnSet(f, S) <= SumFunctionOnSet(e, R)
  <2> HIDE DEF f, e, R, S
  <2> QED BY <1>1, <1>2, <1>5, SumInto
<1>8. SumFunctionOnSet(f, S) \in Nat /\ SumFunctionOnSet(e, R) \in Nat
  <2> HIDE DEF f, e, R, S
  <2> QED BY <1>1, <1>2, SumNat
<1> QED BY <1>6, <1>7, <1>8

\* A step that is allowed leaves its worker nothing to spare, and fits.
LEMMA AdmitHolds ==
  ASSUME EInv, NEW c \in Children, NEW est \in Estimates, Admit(c, est)
  PROVE  EInv'
<1> DEFINE r == CHOOSE x \in Free : TRUE
<1>1. LInv /\ Opened /\ Estimated /\ InCap
  BY DEF EInv
<1>2. LInv'
  BY <1>1, AdmitKeeps
<1>3. r \in Res /\ \A x \in Children : open[x] # r
  BY DEF Admit, Free
<1>4. /\ spent' = SpentAfter(c) /\ since' = [since EXCEPT ![c] = Zero]
      /\ res' = [res EXCEPT ![r] = [child |-> c, est |-> est]]
      /\ open' = [open EXCEPT ![c] = r]
      /\ lost' = (lost \/ \E x \in Children \ {c} : open[x] \in old)
      /\ cap[c] # None /\ Admissible(c, est)
      /\ root' = root /\ cap' = cap /\ real' = real
  BY DEF Admit, Sweeps
<1> HIDE DEF r
<1>5. Opened'
  BY <1>1, <1>3, <1>4 DEF Opened, LInv, Typed
<1>6. est \in Amount /\ \A d \in Dims : est[d] \in Nat
  BY PartitionAssumption DEF Amount
<1>7. ASSUME NEW d \in Dims
      PROVE  Owed(c, d)' = est[d] /\ Spare(c)' = 0 /\ since'[c][d] = 0
  <2>1. open'[c] = r /\ r # None /\ res'[r].est = est /\ since'[c] = Zero
    BY <1>1, <1>3, <1>4, PartitionAssumption DEF LInv, Typed
  <2> QED BY <2>1, ZeroAmount DEF Owed, Spare
<1>8. ASSUME NEW x \in Children \ {c}, NEW d \in Dims
      PROVE  /\ Owed(x, d)' = Owed(x, d) /\ Spare(x)' = Spare(x)
             /\ spent'[x] = spent[x] /\ since'[x] = since[x]
  <2>1. open'[x] = open[x] /\ since'[x] = since[x]
    BY <1>1, <1>4 DEF LInv, Typed
  <2>2. open[x] # None => open[x] \in Res /\ open[x] # r
    BY <1>1, <1>3 DEF LInv, Typed
  <2>3. open[x] # None => res'[open[x]] = res[open[x]]
    BY <1>1, <1>4, <2>2 DEF LInv, Typed
  <2> QED BY <1>1, <1>4, <2>1, <2>3, SettledLedger DEF Owed, Spare
<1>9. Estimated'
  <2> SUFFICES ASSUME NEW x \in Children, NEW d \in Dims
               PROVE  since'[x][d] + Spare(x)' <= Owed(x, d)' + MaxOver
    BY DEF Estimated
  <2>1. CASE x = c
    BY <1>6, <1>7, <2>1, PartitionAssumption
  <2>2. CASE x # c
    BY <1>1, <1>8, <2>2 DEF Estimated
  <2> QED BY <2>1, <2>2
<1>10. SpentAfter(c)[c] \in Amount /\ \A d \in Dims : SpentAfter(c)[c][d] \in Nat
  BY <1>1, SettledLedger DEF Amount
<1>11. ASSUME NEW d \in Dims, cap[c][d] > 0
       PROVE  Load(c, d)' <= cap[c][d] + Spare(c)'
  <2> DEFINE mine == {y \in InFlight(c) : res[y].child = c}
             e == [y \in mine |-> res[y].est[d]]
  <2>1. cap[c] \in Amount
    BY <1>1, <1>4 DEF Opened
  <2>2. SpentAfter(c)[c][d] + Reserved(mine, d) + est[d] <= cap[c][d]
    <3>1. Within(cap[c][d], SpentAfter(c)[c][d] + Reserved(mine, d) + est[d])
      BY <1>4 DEF Admissible
    <3> QED BY <1>11, <2>1, <3>1 DEF Within, Amount
  <2>3. Reserved(mine, d) \in Nat
    <3>1. mine \subseteq Res
      BY <1>1 DEF InFlight, LInv, Typed
    <3>2. IsFiniteSet(mine)
      BY <3>1, PartitionAssumption, FS_Subset
    <3>3. Naturals(e, mine)
      BY <1>1, <3>1 DEF Naturals, LInv, Typed, Amount
    <3>4. SumFunctionOnSet(e, mine) \in Nat
      <4> HIDE DEF e, mine
      <4> QED BY <3>2, <3>3, SumNat
    <3> QED BY <3>4 DEF Reserved, SumFunction
  <2>4. cap[c][d] \in Nat
    BY <2>1 DEF Amount
  <2> HIDE DEF mine
  <2> QED BY <1>4, <1>6, <1>7, <1>10, <2>2, <2>3, <2>4 DEF Load
<1>12. InCap'
  <2> SUFFICES ASSUME ~lost', NEW x \in Cut, NEW d \in Dims, cap[x][d] > 0
               PROVE  Load(x, d)' <= cap[x][d] + Spare(x)'
    BY <1>4 DEF InCap, Cut
  <2>1. CASE x = c
    BY <1>11, <2>1
  <2>2. CASE x # c
    <3>1. x \in Children \ {c}
      BY <2>2 DEF Cut
    <3> QED BY <1>1, <1>4, <1>8, <3>1 DEF InCap, Load
  <2> QED BY <2>1, <2>2
<1>13. InRoot'
  <2> SUFFICES ASSUME ~lost', root # None, NEW d \in Dims, root[d] > 0
               PROVE  Loads(d)' <= root[d] + Spares'
    BY <1>4 DEF InRoot
  <2> DEFINE f == [x \in Children |-> Owed(x, d)]
             g == [x \in Children |-> Owed(x, d)']
             s == [x \in Children |-> SpentAfter(c)[x][d]]
             h == [x \in Children |-> Load(x, d)']
             q == [x \in Children |-> Spare(x)']
  <2>0. IsFiniteSet(Children)
    BY PartitionAssumption
  <2>1. Naturals(f, Children) /\ Naturals(g, Children) /\ Naturals(s, Children) /\ Naturals(q, Children)
    <3>1. Naturals(f, Children)
      BY <1>1, Quantities DEF Naturals
    <3>2. Naturals(g, Children) /\ Naturals(q, Children)
      BY <1>1, <1>6, <1>7, <1>8, Quantities DEF Naturals
    <3>3. Naturals(s, Children)
      BY <1>1, SettledLedger DEF Naturals, Amount
    <3> QED BY <3>1, <3>2, <3>3
  <2>2. SumFunctionOnSet(g, Children) = est[d] + SumFunctionOnSet(g, Children \ {c})
    <3>1. g[c] = est[d]
      BY <1>7
    <3> HIDE DEF g
    <3> QED BY <2>0, <2>1, <3>1, SumRemove
  <2>3. SumFunctionOnSet(g, Children \ {c}) = SumFunctionOnSet(f, Children \ {c})
    <3>1. \A x \in Children \ {c} : g[x] = f[x]
      BY <1>8
    <3>2. IsFiniteSet(Children \ {c})
      BY <2>0, FS_Subset
    <3> HIDE DEF f, g
    <3> QED BY <3>1, <3>2, SumSame
  <2>4. /\ SumFunctionOnSet(f, Children \ {c}) <= Reserved(InFlight(c), d)
        /\ SumFunctionOnSet(f, Children \ {c}) \in Nat /\ Reserved(InFlight(c), d) \in Nat
    <3>1. ~lost /\ \A x \in Children \ {c} : open[x] \notin old
      BY <1>4
    <3> QED BY <1>1, <3>1, OthersReserved
  <2>5. SumFunctionOnSet(h, Children) = SumFunctionOnSet(s, Children) + SumFunctionOnSet(g, Children)
    <3>1. \A x \in Children : h[x] = s[x] + g[x]
      BY <1>4 DEF Load
    <3> HIDE DEF h, s, g
    <3> QED BY <2>0, <2>1, <3>1, SumPlus
  <2>6. root[d] \in Nat
    BY <1>1 DEF Opened, Amount
  <2>7. SumFunctionOnSet(s, Children) + Reserved(InFlight(c), d) + est[d] <= root[d]
    <3>1. Within(root[d], Total(SpentAfter(c), d) + Reserved(InFlight(c), d) + est[d])
      BY <1>4 DEF Admissible
    <3>2. Total(SpentAfter(c), d) = SumFunctionOnSet(s, Children)
      BY DEF Total, SumFunction
    <3> HIDE DEF s
    <3> QED BY <2>6, <3>1, <3>2 DEF Within
  <2>8. /\ SumFunctionOnSet(s, Children) \in Nat /\ SumFunctionOnSet(q, Children) \in Nat
    <3> HIDE DEF s, q
    <3> QED BY <2>0, <2>1, SumNat
  <2>9. Loads(d)' = SumFunctionOnSet(h, Children) /\ Spares' = SumFunctionOnSet(q, Children)
    BY DEF Loads, Spares, SumFunction
  <2> HIDE DEF f, g, s, h, q
  <2> QED BY <1>6, <2>2, <2>3, <2>4, <2>5, <2>6, <2>7, <2>8, <2>9
<1> QED BY <1>2, <1>5, <1>9, <1>12, <1>13 DEF EInv

-----------------------------------------------------------------------------
(* How partitions are cut: one task after the other, none twice.           *)

\* The recursion of Slice is well-founded: some function satisfies it.
Start == [run |-> Zero, caps |-> cap]
Recurs(f, top, tasks, new, len) ==
  f = [i \in 0..len |-> IF i = 0 THEN Start ELSE CutNext(f[i - 1], top, new, tasks[i])]

LEMMA AfterExists ==
  ASSUME NEW top, NEW tasks, NEW new, NEW len \in Nat
  PROVE  \E f : Recurs(f, top, tasks, new, len)
<1> DEFINE E(prev, i) == CutNext(prev, top, new, tasks[i])
           Solves(f, k) == f = [i \in 0..k |-> IF i = 0 THEN Start ELSE E(f[i - 1], i)]
           bad == {k \in Nat : ~ \E f : Solves(f, k)}
<1> HIDE DEF E
<1>1. ASSUME NEW k \in bad, \A j \in bad : k <= j PROVE FALSE
  <2>1. CASE k = 0
    <3>1. Solves([i \in 0..0 |-> Start], 0)
      OBVIOUS
    <3> QED BY <2>1, <3>1
  <2>2. CASE k # 0
    <3>1. k - 1 \in Nat /\ k - 1 \notin bad
      BY <1>1, <2>2
    <3>2. PICK f : Solves(f, k - 1)
      BY <3>1
    <3> DEFINE g == [i \in 0..k |-> IF i = k THEN E(f[k - 1], k) ELSE f[i]]
    <3>3. \A i \in 0..k : g[i] = IF i = 0 THEN Start ELSE E(g[i - 1], i)
      <4>1. \A i \in 0..(k - 1) : f[i] = IF i = 0 THEN Start ELSE E(f[i - 1], i)
        BY <3>2
      <4>2. \A i \in 0..k : /\ i = k => g[i] = E(f[k - 1], k)
                            /\ i # k => i \in 0..(k - 1) /\ g[i] = f[i]
        BY <2>2
      <4> HIDE DEF g
      <4> TAKE i \in 0..k
      <4>3. CASE i = k
        <5>1. k - 1 \in 0..k /\ k - 1 # k
          BY <2>2
        <5>2. g[k - 1] = f[k - 1]
          BY <4>2, <5>1
        <5> QED BY <2>2, <4>2, <4>3, <5>2
      <4>4. CASE i # k /\ i # 0
        <5>1. i - 1 \in 0..k /\ i - 1 # k
          BY <4>4
        <5>2. g[i - 1] = f[i - 1]
          BY <4>2, <5>1
        <5> QED BY <4>1, <4>2, <4>4, <5>2
      <4>5. CASE i # k /\ i = 0
        BY <4>1, <4>2, <4>5
      <4> QED BY <4>3, <4>4, <4>5
    <3>4. Solves(g, k)
      <4>1. g = [i \in 0..k |-> g[i]]
        OBVIOUS
      <4> HIDE DEF g
      <4> QED BY <3>3, <4>1
    <3> HIDE DEF Solves
    <3> QED BY <1>1, <3>4
  <2> QED BY <2>1, <2>2
<1>2. bad = {}
  <2>1. bad \in SUBSET Nat
    OBVIOUS
  <2> HIDE DEF bad
  <2> QED BY <1>1, <2>1, SmallestNumber
<1>3. \E f : Solves(f, len)
  BY <1>2
<1> QED BY <1>3 DEF E, Recurs

\* Slice is the last of a sequence of cuts.
Uncut(tasks) == {c \in ToSet(tasks) : cap[c] = None}
Cuts(f, top, tasks, len) ==
  /\ f[0] = Start
  /\ \A i \in 1..len : f[i] = CutNext(f[i - 1], top, Uncut(tasks), tasks[i])

LEMMA SliceCuts ==
  ASSUME NEW top, NEW tasks, Len(tasks) \in Nat
  PROVE  \E f : Slice(top, tasks) = f[Len(tasks)].caps /\ Cuts(f, top, tasks, Len(tasks))
<1> DEFINE len == Len(tasks)
           after == CHOOSE f : Recurs(f, top, tasks, Uncut(tasks), len)
<1>1. Slice(top, tasks) = after[len].caps
  BY Zenon DEF Slice, Recurs, Uncut, Start
<1>2. Recurs(after, top, tasks, Uncut(tasks), len)
  BY AfterExists, Zenon
<1> HIDE DEF after, len
<1>3. \A i \in 0..len : after[i] = IF i = 0 THEN Start
                        ELSE CutNext(after[i - 1], top, Uncut(tasks), tasks[i])
  BY <1>2, Zenon DEF Recurs
<1>4. len \in Nat
  BY DEF len
<1>5. after[0] = Start
  <2>1. 0 \in 0..len
    BY <1>4
  <2> QED BY <1>3, <2>1
<1>6. \A i \in 1..len : after[i] = CutNext(after[i - 1], top, Uncut(tasks), tasks[i])
  <2>1. \A i \in 1..len : i \in 0..len /\ i # 0
    BY <1>4
  <2> QED BY <1>3, <2>1
<1> QED BY <1>1, <1>5, <1>6 DEF Cuts, len

\* A portion is an amount: the headroom may be below zero, but no share of that is
\* handed out.
LEMMA HeadroomIsInt ==
  ASSUME cap \in [Children -> Amount \cup {None}], NEW top \in Amount, NEW d \in Dims
  PROVE  /\ top[d] \in Nat /\ CapSum(cap, d) \in Nat /\ Headroom(top, d) \in Int
<1> DEFINE f == [c \in {x \in Children : cap[x] # None} |-> cap[c][d]]
           S == {x \in Children : cap[x] # None}
<1>1. IsFiniteSet(S) /\ Naturals(f, S)
  BY PartitionAssumption, FS_Subset DEF Naturals, Amount
<1>2. SumFunctionOnSet(f, S) \in Nat
  <2> HIDE DEF f, S
  <2> QED BY <1>1, SumNat
<1>3. CapSum(cap, d) \in Nat
  BY <1>2 DEF CapSum, SumFunction
<1>4. top[d] \in Nat
  BY DEF Amount
<1> QED BY <1>3, <1>4 DEF Headroom

LEMMA WeightsAdd ==
  ASSUME NEW new \in SUBSET Children
  PROVE  /\ SumFunction([x \in new |-> Weight[x]]) \in Nat
         /\ new # {} => SumFunction([x \in new |-> Weight[x]]) > 0
         /\ SumFunction([x \in new |-> Weight[x]]) = SumFunctionOnSet(Weight, new)
<1> DEFINE f == [x \in new |-> Weight[x]]
<1>1. IsFiniteSet(new) /\ Naturals(Weight, new) /\ \A x \in new : f[x] = Weight[x] /\ Weight[x] > 0
  BY PartitionAssumption, FS_Subset DEF Naturals
<1>2. SumFunctionOnSet(f, new) = SumFunctionOnSet(Weight, new)
  <2> HIDE DEF f
  <2> QED BY <1>1, SumSame
<1>3. SumFunctionOnSet(Weight, new) \in Nat
  BY <1>1, SumNat
<1>4. ASSUME new # {} PROVE SumFunctionOnSet(Weight, new) > 0
  <2>1. PICK x : x \in new
    BY <1>4
  <2>2. /\ SumFunctionOnSet(Weight, new) = Weight[x] + SumFunctionOnSet(Weight, new \ {x})
        /\ SumFunctionOnSet(Weight, new \ {x}) \in Nat /\ Weight[x] \in Nat
    BY <1>1, <2>1, SumRemove
  <2> QED BY <1>1, <2>1, <2>2
<1>5. SumFunction(f) = SumFunctionOnSet(f, new)
  BY DEF SumFunction
<1> QED BY <1>2, <1>3, <1>4, <1>5

LEMMA PortionAmount ==
  ASSUME cap \in [Children -> Amount \cup {None}], NEW top \in Amount,
         NEW new \in SUBSET Children, NEW c \in new, NEW run \in Amount
  PROVE  Portion(top, new, run, c) \in Amount
<1> SUFFICES ASSUME NEW d \in Dims PROVE Portion(top, new, run, c)[d] \in Nat
  BY DEF Portion, Amount
<1>1. Portion(top, new, run, c)[d] =
        CASE top[d] = 0 -> 0
          [] top[d] # 0 /\ Share(top, new, c, d) >= Floor[d] -> Share(top, new, c, d)
          [] top[d] # 0 /\ Lifted(top, new, run, c, d) -> Floor[d]
          [] OTHER -> Max({0, Headroom(top, d) - run[d]})
  BY DEF Portion
<1>2. Headroom(top, d) \in Int /\ Floor[d] \in Nat /\ run[d] \in Nat
  BY HeadroomIsInt, PartitionAssumption DEF Amount
<1>3. Share(top, new, c, d) \in Int
  <2> DEFINE w == SumFunction([x \in new |-> Weight[x]])
             h == Headroom(top, d) * Weight[c]
  <2>1. w \in Nat /\ w > 0
    BY WeightsAdd
  <2>2. h \in Int
    <3>1. Weight[c] \in Nat
      BY PartitionAssumption
    <3> QED BY <1>2, <3>1
  <2> HIDE DEF w, h
  <2>3. h \div w \in Int
    BY <2>1, <2>2
  <2> QED BY <2>3 DEF Share, w, h
<1>4. Max({0, Headroom(top, d) - run[d]}) \in Nat
  <2> DEFINE z == Headroom(top, d) - run[d]
  <2>1. z \in Int
    BY <1>2
  <2> HIDE DEF z
  <2>2. \E x \in {0, z} : \A y \in {0, z} : x >= y
    BY <2>1
  <2>3. Max({0, z}) \in {0, z} /\ \A y \in {0, z} : Max({0, z}) >= y
    BY <2>2 DEF Max
  <2>4. Max({0, z}) >= 0 /\ Max({0, z}) \in Int
    BY <2>1, <2>3
  <2> QED BY <2>4 DEF z
<1> HIDE DEF Share, Max
<1>5. CASE top[d] = 0
  BY <1>1, <1>5
<1>6. CASE top[d] # 0 /\ Share(top, new, c, d) >= Floor[d]
  <2>1. Portion(top, new, run, c)[d] = Share(top, new, c, d)
    BY <1>1, <1>2, <1>3, <1>6 DEF Lifted
  <2> QED BY <1>2, <1>3, <1>6, <2>1
<1>7. CASE top[d] # 0 /\ Lifted(top, new, run, c, d)
  <2>1. ~(Share(top, new, c, d) >= Floor[d])
    BY <1>2, <1>3, <1>7 DEF Lifted
  <2>2. Portion(top, new, run, c)[d] = Floor[d]
    BY <1>1, <1>7, <2>1
  <2> QED BY <1>2, <2>2
<1>8. CASE /\ top[d] # 0 /\ ~(Share(top, new, c, d) >= Floor[d])
           /\ ~Lifted(top, new, run, c, d)
  <2>1. Portion(top, new, run, c)[d] = Max({0, Headroom(top, d) - run[d]})
    BY <1>1, <1>8
  <2> QED BY <1>4, <2>1
<1> QED BY <1>5, <1>6, <1>7, <1>8

\* The tasks of a workflow, in any order.
LEMMA TasksOrdered ==
  ASSUME NEW S \in SUBSET Children, NEW tasks \in SetToSeqs(S)
  PROVE  /\ Len(tasks) \in Nat /\ DOMAIN tasks = 1..Len(tasks)
         /\ \A i \in 1..Len(tasks) : tasks[i] \in S
         /\ \A i, j \in 1..Len(tasks) : tasks[i] = tasks[j] => i = j
         /\ ToSet(tasks) \subseteq S
<1> DEFINE n == Cardinality(S)
<1>1. n \in Nat
  BY PartitionAssumption, FS_Subset, FS_CardinalityType
<1>2. tasks \in [1..n -> S] /\ \A i, j \in 1..n : i # j => tasks[i] # tasks[j]
  BY DEF SetToSeqs
<1> HIDE DEF n
<1>3. tasks \in Seq(S) /\ Len(tasks) = n
  BY <1>1, <1>2
<1> QED BY <1>1, <1>2, <1>3 DEF ToSet

\* Cutting gives a task without a partition one, or none, and leaves the others.
CutSoFar(acc, tasks) ==
  /\ acc.run \in Amount /\ acc.caps \in [Children -> Amount \cup {None}]
  /\ \A c \in Children : c \notin Uncut(tasks) => acc.caps[c] = cap[c]

LEMMA CutNextKeeps ==
  ASSUME cap \in [Children -> Amount \cup {None}], NEW top \in Amount, NEW tasks,
         Uncut(tasks) \subseteq Children, NEW c, NEW acc, CutSoFar(acc, tasks)
  PROVE  CutSoFar(CutNext(acc, top, Uncut(tasks), c), tasks)
<1> DEFINE new == Uncut(tasks)
           x == Portion(top, new, acc.run, c)
<1>1. CASE c \notin new \/ ~Affordable(top, new, acc.run, c)
  <2>1. CutNext(acc, top, new, c) = acc
    BY <1>1, Zenon DEF CutNext
  <2> QED BY <2>1
<1>2. CASE ~(c \notin new \/ ~Affordable(top, new, acc.run, c))
  <2>1. CutNext(acc, top, new, c) = [run |-> Plus(acc.run, x), caps |-> [acc.caps EXCEPT ![c] = x]]
    BY <1>2, Zenon DEF CutNext
  <2>2. x \in Amount /\ Plus(acc.run, x) \in Amount
    BY <1>2, PortionAmount, PlusAmount DEF CutSoFar
  <2> HIDE DEF x
  <2> QED BY <1>2, <2>1, <2>2 DEF CutSoFar
<1> QED BY <1>1, <1>2

LEMMA SliceKeeps ==
  ASSUME cap \in [Children -> Amount \cup {None}], NEW top \in Amount,
         NEW S \in SUBSET Children, NEW tasks \in SetToSeqs(S)
  PROVE  /\ Slice(top, tasks) \in [Children -> Amount \cup {None}]
         /\ \A c \in Children : cap[c] # None => Slice(top, tasks)[c] = cap[c]
<1> DEFINE len == Len(tasks)
<1>1. len \in Nat /\ Uncut(tasks) \subseteq Children
  BY TasksOrdered DEF Uncut
<1>2. PICK f : Slice(top, tasks) = f[len].caps /\ Cuts(f, top, tasks, len)
  BY <1>1, SliceCuts, Zenon
<1> HIDE DEF len
<1> DEFINE bad == {i \in 0..len : ~CutSoFar(f[i], tasks)}
<1>3. ASSUME NEW i \in bad, \A j \in bad : i <= j PROVE FALSE
  <2>1. CASE i = 0
    <3>1. CutSoFar(Start, tasks)
      BY ZeroAmount DEF CutSoFar, Start
    <3> QED BY <1>2, <2>1, <3>1 DEF Cuts
  <2>2. CASE i # 0
    <3>1. i - 1 \in 0..len /\ i \in 1..len /\ i - 1 \notin bad
      BY <1>1, <1>3, <2>2
    <3>2. CutSoFar(f[i - 1], tasks)
      BY <3>1
    <3>3. f[i] = CutNext(f[i - 1], top, Uncut(tasks), tasks[i])
      BY <1>2, <3>1 DEF Cuts
    <3>4. CutSoFar(f[i], tasks)
      BY <1>1, <3>2, <3>3, CutNextKeeps
    <3> QED BY <3>4
  <2> QED BY <2>1, <2>2
<1>4. bad = {}
  <2>1. bad \in SUBSET Nat
    OBVIOUS
  <2> HIDE DEF bad
  <2> QED BY <1>3, <2>1, SmallestNumber
<1>5. CutSoFar(f[len], tasks)
  <2>1. len \in 0..len
    BY <1>1
  <2> QED BY <1>4, <2>1
<1> QED BY <1>2, <1>5 DEF CutSoFar, Uncut

\* A new partition has nothing charged to it, nor has a new root.
LEMMA FundHolds ==
  ASSUME EInv, NEW top \in RootCaps, NEW S \in SUBSET Children,
         NEW tasks \in SetToSeqs(S), Fund(top, tasks)
  PROVE  EInv'
<1> DEFINE ceiling == IF root = None THEN top ELSE root
<1>1. LInv /\ Opened /\ Estimated /\ InCap /\ InRoot
  BY DEF EInv
<1>2. /\ root' = ceiling /\ cap' = Slice(ceiling, tasks)
      /\ UNCHANGED <<spent, res, active, old, open, since, real, lost>>
  BY DEF Fund
<1>3. ceiling \in Amount /\ ceiling # None
  BY <1>1, PartitionAssumption DEF Opened
<1>4. /\ cap' \in [Children -> Amount \cup {None}]
      /\ \A c \in Children : cap[c] # None => cap'[c] = cap[c]
  <2>1. cap \in [Children -> Amount \cup {None}]
    BY <1>1 DEF Opened
  <2> HIDE DEF ceiling
  <2> QED BY <1>2, <1>3, <2>1, SliceKeeps
<1> HIDE DEF ceiling
<1>5. LInv'
  BY <1>1, <1>2 DEF LInv, Typed, OwnRow, NothingLost, LedgerHonest
<1>6. Opened'
  BY <1>1, <1>2, <1>3, <1>4 DEF Opened
<1>7. \A c \in Children, d \in Dims :
        Owed(c, d)' = Owed(c, d) /\ Spare(c)' = Spare(c) /\ Load(c, d)' = Load(c, d)
  BY <1>2 DEF Owed, Spare, Load
<1>8. Estimated'
  BY <1>1, <1>2, <1>7 DEF Estimated
<1>9. ASSUME NEW c \in Children, NEW d \in Dims, cap[c] = None
      PROVE  Load(c, d) = 0
  <2>1. real[c][d] = 0 /\ Owed(c, d) = 0
    BY <1>1, <1>9, ZeroAmount DEF Opened, Owed
  <2>2. spent[c][d] + since[c][d] <= 0
    BY <1>1, <2>1 DEF LInv, LedgerHonest
  <2> QED BY <1>1, <2>1, <2>2, Quantities DEF Load
<1>10. InCap'
  <2> SUFFICES ASSUME ~lost, NEW c \in Children, cap'[c] # None, NEW d \in Dims, cap'[c][d] > 0
               PROVE  Load(c, d) <= cap'[c][d] + Spare(c)
    BY <1>2, <1>7 DEF InCap, Cut
  <2>1. CASE cap[c] = None
    <3>1. cap'[c] \in Amount
      BY <1>4
    <3>2. cap'[c][d] \in Nat
      BY <3>1 DEF Amount
    <3> QED BY <1>1, <1>9, <2>1, <3>2, Quantities
  <2>2. CASE cap[c] # None
    BY <1>1, <1>4, <2>2 DEF InCap, Cut
  <2> QED BY <2>1, <2>2
<1>11. InRoot'
  <2> SUFFICES ASSUME ~lost, NEW d \in Dims, ceiling[d] > 0
               PROVE  Loads(d)' <= ceiling[d] + Spares'
    BY <1>2 DEF InRoot
  <2>1. Loads(d)' = Loads(d) /\ Spares' = Spares
    BY <1>7 DEF Loads, Spares
  <2>2. CASE root # None
    BY <1>1, <2>1, <2>2 DEF InRoot, ceiling
  <2>3. CASE root = None
    <3> DEFINE f == [c \in Children |-> Load(c, d)]
               p == [c \in Children |-> Spare(c)]
    <3>1. \A c \in Children : f[c] = 0
      BY <1>1, <1>9, <2>3 DEF Opened
    <3>2. Naturals(p, Children)
      BY <1>1, Quantities DEF Naturals
    <3>3. SumFunctionOnSet(f, Children) = Cardinality(Children) * 0
      <4> HIDE DEF f
      <4> QED BY <3>1, SumConstant, PartitionAssumption
    <3>4. SumFunctionOnSet(p, Children) \in Nat
      <4> HIDE DEF p
      <4> QED BY <3>2, SumNat, PartitionAssumption
    <3>5. Loads(d) = SumFunctionOnSet(f, Children) /\ Spares = SumFunctionOnSet(p, Children)
      BY DEF Loads, Spares, SumFunction
    <3>6. ceiling[d] \in Nat /\ Cardinality(Children) \in Nat
      BY <1>3, FS_CardinalityType, PartitionAssumption DEF Amount
    <3> HIDE DEF f, p
    <3> QED BY <2>1, <3>3, <3>4, <3>5, <3>6
  <2> QED BY <2>2, <2>3
<1> QED BY <1>5, <1>6, <1>8, <1>10, <1>11 DEF EInv

\* The envelope is empty at first.
LEMMA InitHolds == Init => EInv
<1> SUFFICES ASSUME Init PROVE EInv
  OBVIOUS
<1>1. LInv
  BY InitLInv
<1>2. /\ root = None /\ cap = [c \in Children |-> None]
      /\ real = [c \in Children |-> Zero] /\ open = [c \in Children |-> None]
      /\ since = [c \in Children |-> Zero]
  BY DEF Init
<1>3. Opened /\ InCap /\ InRoot
  BY <1>2 DEF Opened, InCap, InRoot, Cut
<1>4. Estimated
  BY <1>2, ZeroAmount, PartitionAssumption DEF Estimated, Owed, Spare
<1> QED BY <1>1, <1>3, <1>4 DEF EInv

\* Every step stays within the envelope; finishing and the clock touch no load.
LEMMA StepHolds == EInv /\ [Next]_vars => EInv'
<1> SUFFICES ASSUME EInv, [Next]_vars PROVE EInv'
  OBVIOUS
<1>1. ASSUME UNCHANGED <<root, cap, spent, res, open, since, real, lost>>, LInv' PROVE EInv'
  <2>1. \A c \in Children, d \in Dims :
          Owed(c, d)' = Owed(c, d) /\ Spare(c)' = Spare(c) /\ Load(c, d)' = Load(c, d)
    BY <1>1 DEF Owed, Spare, Load
  <2>2. Opened' /\ Estimated'
    BY <1>1, <2>1 DEF EInv, Opened, Estimated
  <2>3. Eased
    BY <2>1, Quantities DEF Eased, EInv
  <2> QED BY <1>1, <2>2, <2>3, EasedKeeps
<1>2. LInv'
  BY StepKeeps DEF EInv
<1>3. ASSUME NEW top \in RootCaps, NEW S \in SUBSET Children, NEW tasks \in SetToSeqs(S),
             Fund(top, tasks)
      PROVE  EInv'
  BY <1>3, FundHolds
<1>4. ASSUME NEW c \in Children, Settle(c) PROVE EInv'
  BY <1>2, <1>4, SettledHolds DEF Settle
<1>11. ASSUME NEW c \in Children, NEW est \in Estimates, Refuse(c, est) PROVE EInv'
  BY <1>2, <1>11, SettledHolds DEF Refuse, Sweeps
<1>5. ASSUME NEW c \in Children, NEW est \in Estimates, Admit(c, est) PROVE EInv'
  BY <1>5, AdmitHolds
<1>6. ASSUME NEW c \in Children, NEW use \in Uses, Answer(c, use) PROVE EInv'
  BY <1>6, AnswerHolds
<1>7. ASSUME NEW r \in Res, Age(r) PROVE EInv'
  BY <1>1, <1>2, <1>7 DEF Age
<1>8. CASE Finish
  BY <1>1, <1>2, <1>8 DEF Finish, ledger
<1>9. CASE Crash
  BY <1>9, CrashHolds
<1>10. CASE UNCHANGED vars
  BY <1>1, <1>2, <1>10 DEF vars, ledger
<1> QED BY <1>3, <1>4, <1>5, <1>6, <1>7, <1>8, <1>9, <1>10, <1>11 DEF Next

\* A workflow spends at most its root envelope, and a worker its partition, and
\* what one step of each worker exceeds its estimate by: admit() checks the root
\* against all that is settled and all that is in flight.
THEOREM PartitionWithinEnvelope == Spec => []WithinEnvelope
<1>1. Init => EInv
  BY InitHolds
<1>2. EInv /\ [Next]_vars => EInv'
  BY StepHolds
<1>3. EInv => WithinEnvelope
  BY EnvelopeHolds
<1> QED BY <1>1, <1>2, <1>3, PTL DEF Spec

-----------------------------------------------------------------------------
(* What the partitions add up to: shares by weight are within the headroom *)
(* together, and a token share that is cut short is the last one.          *)

LEMMA DivBelow ==
  ASSUME NEW a \in Nat, NEW b \in Nat, b > 0
  PROVE  a \div b \in Nat /\ b * (a \div b) <= a
OBVIOUS

\* More members make a sum greater.
LEMMA SumGrows ==
  ASSUME NEW f, NEW S, NEW T \in SUBSET S, IsFiniteSet(S), Naturals(f, S)
  PROVE  /\ SumFunctionOnSet(f, T) <= SumFunctionOnSet(f, S)
         /\ SumFunctionOnSet(f, T) \in Nat /\ SumFunctionOnSet(f, S) \in Nat
<1> DEFINE m == [x \in T |-> x]
<1>1. IsFiniteSet(T) /\ Naturals(f, T)
  BY FS_Subset DEF Naturals
<1>2. Into(m, f, T, f, S)
  BY <1>1 DEF Into, Naturals
<1> HIDE DEF m
<1> QED BY <1>1, <1>2, SumInto, SumNat

\* The shares of tasks `new`, when the headroom h is not below zero.
Shares(top, new, d) == [x \in Children |-> Share(top, new, x, d)]

LEMMA SharesFit ==
  ASSUME cap \in [Children -> Amount \cup {None}], NEW top \in Amount, NEW d \in Dims,
         NEW new \in SUBSET Children, new # {}, Headroom(top, d) >= 0
  PROVE  /\ \A x \in Children : Share(top, new, x, d) \in Nat
         /\ SumFunctionOnSet(Shares(top, new, d), new) <= Headroom(top, d)
<1> DEFINE h == Headroom(top, d)
           W == SumFunctionOnSet(Weight, new)
           g == Shares(top, new, d)
<1>1. h \in Nat /\ W \in Nat /\ W > 0
  <2>1. Headroom(top, d) \in Int
    BY HeadroomIsInt
  <2>2. SumFunctionOnSet(Weight, new) \in Nat /\ SumFunctionOnSet(Weight, new) > 0
    BY WeightsAdd
  <2> QED BY <2>1, <2>2
<1>2. \A x \in Children : Weight[x] \in Nat /\ g[x] = (h * Weight[x]) \div W
  BY WeightsAdd, PartitionAssumption DEF Shares, Share
<1>0. \A x \in Children : g[x] = Share(top, new, x, d)
  BY DEF Shares
<1> HIDE DEF h, W, g
<1>3. \A x \in Children : g[x] \in Nat /\ W * g[x] <= h * Weight[x]
  <2> TAKE x \in Children
  <2>1. h * Weight[x] \in Nat
    BY <1>1, <1>2
  <2> QED BY <1>1, <1>2, <2>1, DivBelow
<1> DEFINE bad == {s \in SUBSET new :
                     ~(W * SumFunctionOnSet(g, s) <= h * SumFunctionOnSet(Weight, s))}
<1>4. \A s \in SUBSET new : /\ IsFiniteSet(s) /\ Naturals(g, s) /\ Naturals(Weight, s)
  <2>1. IsFiniteSet(new)
    BY PartitionAssumption, FS_Subset
  <2> QED BY <1>2, <1>3, <2>1, FS_Subset DEF Naturals
<1>5. ASSUME NEW s, Minimal(s, bad) PROVE FALSE
  <2>1. s \in bad /\ s \in SUBSET new
    BY <1>5 DEF Minimal
  <2>2. CASE s = {}
    <3>1. SumFunctionOnSet(g, s) = 0 /\ SumFunctionOnSet(Weight, s) = 0
      BY <2>2, SumEmpty
    <3> QED BY <1>1, <2>1, <3>1
  <2>3. CASE s # {}
    <3>1. PICK x : x \in s
      BY <2>3
    <3>2. s \ {x} \notin bad /\ s \ {x} \in SUBSET new
      <4>1. s \ {x} # s /\ s \ {x} \subseteq s
        BY <3>1
      <4> HIDE DEF bad
      <4> QED BY <1>5, <2>1, <4>1 DEF Minimal
    <3>3. PICK a, b \in Nat : /\ a = SumFunctionOnSet(g, s \ {x})
                              /\ b = SumFunctionOnSet(Weight, s \ {x})
      BY <1>4, <3>2, SumNat
    <3>4. /\ SumFunctionOnSet(g, s) = g[x] + a
          /\ SumFunctionOnSet(Weight, s) = Weight[x] + b
      BY <1>4, <2>1, <3>1, <3>3, SumRemove
    <3>5. W * a <= h * b
      BY <3>2, <3>3
    <3>6. x \in Children /\ g[x] \in Nat /\ Weight[x] \in Nat /\ W * g[x] <= h * Weight[x]
      BY <1>2, <1>3, <2>1, <3>1
    <3>7. W * (g[x] + a) = W * g[x] + W * a /\ h * (Weight[x] + b) = h * Weight[x] + h * b
      BY <1>1, <3>6
    <3>8. W * (g[x] + a) <= h * (Weight[x] + b)
      <4>1. W * g[x] \in Nat /\ W * a \in Nat /\ h * Weight[x] \in Nat /\ h * b \in Nat
        BY <1>1, <3>6
      <4> QED BY <3>5, <3>6, <3>7, <4>1
    <3> QED BY <2>1, <3>4, <3>8
  <2> QED BY <2>2, <2>3
<1>6. bad \subseteq SUBSET new
  OBVIOUS
<1>7. bad = {}
  <2> HIDE DEF bad
  <2>0. IsFiniteSet(new)
    BY <1>4
  <2>1. ASSUME bad # {} PROVE FALSE
    <3>1. PICK s : Minimal(s, bad)
      BY <1>6, <2>0, <2>1, SmallestSet, Zenon
    <3> QED BY <1>5, <3>1
  <2> QED BY <2>1
<1>8. W * SumFunctionOnSet(g, new) <= h * W
  <2>1. new \notin bad
    BY <1>7
  <2> QED BY <2>1 DEF W
<1>9. PICK t \in Nat : t = SumFunctionOnSet(g, new)
  BY <1>4, SumNat
<1>10. t <= h
  <2> SUFFICES ASSUME t >= h + 1 PROVE FALSE
    BY <1>1
  <2>1. W * (h + 1) <= W * t
    BY <1>1
  <2>2. W * (h + 1) = h * W + W
    BY <1>1
  <2>3. W * t <= h * W
    BY <1>8, <1>9
  <2>4. h * W \in Nat /\ W * t \in Nat
    BY <1>1
  <2> QED BY <1>1, <2>1, <2>2, <2>3, <2>4
<1> QED BY <1>0, <1>3, <1>9, <1>10 DEF h, g

\* A new partition adds what it is cut to.
LEMMA CapAdds ==
  ASSUME NEW caps \in [Children -> Amount \cup {None}], NEW c \in Children, caps[c] = None,
         NEW x \in Amount, NEW d \in Dims
  PROVE  CapSum([caps EXCEPT ![c] = x], d) = CapSum(caps, d) + x[d]
<1> DEFINE D == {y \in Children : caps[y] # None}
           f == [y \in D |-> caps[y][d]]
           wider == [caps EXCEPT ![c] = x]
           E == {y \in Children : wider[y] # None}
           g == [y \in E |-> wider[y][d]]
<1>1. c \in E /\ E \ {c} = D
  BY PartitionAssumption
<1>2. g[c] = x[d] /\ x[d] \in Nat
  BY <1>1 DEF Amount
<1>3. \A y \in D : g[y] = f[y]
  BY <1>1
<1>4. IsFiniteSet(D) /\ IsFiniteSet(E)
  BY PartitionAssumption, FS_Subset
<1>5. Naturals(g, E) /\ Naturals(f, D)
  BY <1>1 DEF Naturals, Amount
<1>6. CapSum(wider, d) = SumFunctionOnSet(g, E) /\ CapSum(caps, d) = SumFunctionOnSet(f, D)
  BY DEF CapSum, SumFunction
<1> HIDE DEF D, E, f, g, wider
<1>7. SumFunctionOnSet(g, E) = g[c] + SumFunctionOnSet(g, D)
  <2>1. SumFunctionOnSet(g, E) = g[c] + SumFunctionOnSet(g, E \ {c})
    BY <1>1, <1>4, <1>5, SumRemove
  <2>2. E \ {c} = D
    BY <1>1
  <2> QED BY <2>1, <2>2, Zenon
<1>8. SumFunctionOnSet(g, D) = SumFunctionOnSet(f, D)
  BY <1>3, <1>4, SumSame
<1>9. SumFunctionOnSet(f, D) \in Nat
  BY <1>4, <1>5, SumNat
<1>10. CapSum(wider, d) = CapSum(caps, d) + x[d]
  BY <1>2, <1>6, <1>7, <1>8, <1>9
<1> QED BY <1>10 DEF wider

\* What a portion is, in one dimension.
LEMMA PortionCases ==
  ASSUME cap \in [Children -> Amount \cup {None}], NEW top \in Amount, NEW d \in Dims,
         NEW new \in SUBSET Children, NEW c \in new, NEW run \in Amount,
         top[d] # 0, Headroom(top, d) >= 0
  PROVE  LET h == Headroom(top, d)
             s == Share(top, new, c, d)
             x == Portion(top, new, run, c)[d]
         IN \/ s >= Floor[d] /\ x = s
            \/ x = Floor[d]
            \/ /\ s < Floor[d] /\ run[d] + Floor[d] > h
               /\ x = IF run[d] <= h THEN h - run[d] ELSE 0
<1> DEFINE h == Headroom(top, d)
           s == Share(top, new, c, d)
           x == Portion(top, new, run, c)[d]
<1>1. x = CASE top[d] = 0 -> 0
            [] top[d] # 0 /\ s >= Floor[d] -> s
            [] top[d] # 0 /\ Lifted(top, new, run, c, d) -> Floor[d]
            [] OTHER -> Max({0, h - run[d]})
  BY DEF Portion
<1>2. h \in Nat /\ Floor[d] \in Nat /\ run[d] \in Nat /\ s \in Nat
  <2>1. new # {} /\ c \in Children
    OBVIOUS
  <2>2. Headroom(top, d) \in Int
    BY HeadroomIsInt
  <2>3. Share(top, new, c, d) \in Nat
    BY <2>1, SharesFit
  <2>4. Floor[d] \in Nat /\ run[d] \in Nat
    BY PartitionAssumption DEF Amount
  <2> QED BY <2>2, <2>3, <2>4
<1>3. Lifted(top, new, run, c, d) <=> s < Floor[d] /\ run[d] + Floor[d] <= h
  BY DEF Lifted
<1>4. Max({0, h - run[d]}) = IF run[d] <= h THEN h - run[d] ELSE 0
  <2> DEFINE z == h - run[d]
             y == IF run[d] <= h THEN h - run[d] ELSE 0
  <2>1. z \in Int /\ y \in {0, z} /\ y >= 0 /\ y >= z
    BY <1>2
  <2> HIDE DEF z, y
  <2>2. \E a \in {0, z} : \A b \in {0, z} : a >= b
    BY <2>1
  <2>3. Max({0, z}) \in {0, z} /\ \A b \in {0, z} : Max({0, z}) >= b
    BY <2>2 DEF Max
  <2>4. Max({0, z}) = y
    BY <2>1, <2>3
  <2> QED BY <2>4 DEF z, y
<1> HIDE DEF h, s, x
<1>5. CASE s >= Floor[d]
  <2>1. x = s
    BY <1>1, <1>2, <1>3, <1>5
  <2> QED BY <1>5, <2>1 DEF h, s, x
<1>6. CASE ~(s >= Floor[d]) /\ Lifted(top, new, run, c, d)
  <2>1. x = Floor[d]
    BY <1>1, <1>6
  <2> QED BY <2>1 DEF h, s, x
<1>7. CASE ~(s >= Floor[d]) /\ ~Lifted(top, new, run, c, d)
  <2>1. x = Max({0, h - run[d]})
    BY <1>1, <1>7
  <2>2. s < Floor[d] /\ run[d] + Floor[d] > h
    BY <1>2, <1>3, <1>7
  <2> QED BY <1>4, <2>1, <2>2 DEF h, s, x
<1> QED BY <1>5, <1>6, <1>7

\* The partitions so far: one was lifted to the floor, or they add up, to the shares
\* of the tasks seen, or to the whole headroom when what is left of it did not make
\* a floor; no later task then has a share of one.
Seen(tasks, i) == {c \in Uncut(tasks) : \E j \in 1..i : tasks[j] = c}
AtFloor(caps, d) == \E c \in Children : caps[c] # None /\ caps[c][d] = Floor[d]

AddsUp(acc, top, tasks, i, d) ==
  LET new == Uncut(tasks) IN
  /\ CapSum(acc.caps, d) = CapSum(cap, d) + acc.run[d]
  /\ \/ acc.run[d] <= SumFunctionOnSet(Shares(top, new, d), Seen(tasks, i))
     \/ /\ acc.run[d] = Headroom(top, d)
        /\ \A c \in new \ Seen(tasks, i) : Share(top, new, c, d) < Floor[d]

Fitting(acc, top, tasks, i, d) ==
  /\ CutSoFar(acc, tasks)
  /\ \A c \in Uncut(tasks) \ Seen(tasks, i) : acc.caps[c] = None
  /\ AtFloor(acc.caps, d) \/ AddsUp(acc, top, tasks, i, d)

LEMMA CutNextFits ==
  ASSUME cap \in [Children -> Amount \cup {None}], NEW top \in Amount, NEW d \in Dims,
         NEW tasks, Uncut(tasks) \subseteq Children, NEW i \in Nat, i > 0,
         \A j \in 1..(i - 1) : tasks[j] # tasks[i],
         top[d] # 0, Headroom(top, d) >= 0, NEW acc, Fitting(acc, top, tasks, i - 1, d)
  PROVE  Fitting(CutNext(acc, top, Uncut(tasks), tasks[i]), top, tasks, i, d)
<1> DEFINE new == Uncut(tasks)
           c == tasks[i]
           next == CutNext(acc, top, new, c)
           g == Shares(top, new, d)
           S == Seen(tasks, i)
           T == Seen(tasks, i - 1)
           h == Headroom(top, d)
<1>1. CutSoFar(next, tasks) /\ CutSoFar(acc, tasks)
  BY CutNextKeeps DEF Fitting
<1>2. S = T \cup ({c} \cap new) /\ c \notin T /\ S \subseteq new
  <2>1. \A x : (\E j \in 1..i : tasks[j] = x) <=> x = c \/ \E j \in 1..(i - 1) : tasks[j] = x
    OBVIOUS
  <2> QED BY <2>1 DEF Seen
<1>3. CASE c \notin new \/ ~Affordable(top, new, acc.run, c)
  <2>1. next = acc
    BY <1>3, Zenon DEF CutNext
  <2>2. AddsUp(acc, top, tasks, i - 1, d) => AddsUp(acc, top, tasks, i, d)
    <3>1. SumFunctionOnSet(g, T) <= SumFunctionOnSet(g, S) \/ new = {}
      <4>1. ASSUME new # {} PROVE SumFunctionOnSet(g, T) <= SumFunctionOnSet(g, S)
        <5>1. IsFiniteSet(S) /\ T \in SUBSET S
          BY <1>2, PartitionAssumption, FS_Subset
        <5>2. \A x \in Children : Share(top, new, x, d) \in Nat
          BY <4>1, SharesFit
        <5>3. Naturals(g, S)
          BY <1>2, <5>2 DEF Naturals, Shares
        <5> HIDE DEF g, S, T
        <5> QED BY <5>1, <5>3, SumGrows
      <4> QED BY <4>1
    <3>2. new = {} => S = T
      BY <1>2
    <3>3. ASSUME new # {}
          PROVE  SumFunctionOnSet(g, T) \in Nat /\ SumFunctionOnSet(g, S) \in Nat
      <4>1. IsFiniteSet(S) /\ IsFiniteSet(T)
        BY <1>2, PartitionAssumption, FS_Subset
      <4>2. \A x \in Children : Share(top, new, x, d) \in Nat
        BY <3>3, SharesFit
      <4>3. Naturals(g, S) /\ Naturals(g, T)
        BY <1>2, <4>2 DEF Naturals, Shares
      <4> HIDE DEF g, S, T
      <4> QED BY <4>1, <4>3, SumNat
    <3>4. acc.run[d] \in Nat
      BY <1>1 DEF CutSoFar, Amount
    <3>5. \A x \in new \ S : x \in new \ T
      BY <1>2
    <3> HIDE DEF S, T, g, h, new
    <3>6. ASSUME acc.run[d] <= SumFunctionOnSet(g, T)
          PROVE  acc.run[d] <= SumFunctionOnSet(g, S)
      <4>1. CASE new = {}
        BY <3>2, <3>6, <4>1
      <4>2. CASE new # {}
        BY <3>1, <3>3, <3>4, <3>6, <4>2
      <4> QED BY <4>1, <4>2
    <3> QED BY <3>5, <3>6 DEF AddsUp, S, T, g, h, new
  <2>3. \A x \in new \ S : acc.caps[x] = None
    BY <1>2 DEF Fitting
  <2> QED BY <1>1, <2>1, <2>2, <2>3 DEF Fitting
<1>4. CASE ~(c \notin new \/ ~Affordable(top, new, acc.run, c))
  <2> DEFINE x == Portion(top, new, acc.run, c)
             wider == [acc.caps EXCEPT ![c] = x]
  <2>1. next = [run |-> Plus(acc.run, x), caps |-> wider]
    BY <1>4, Zenon DEF CutNext
  <2>2. /\ c \in new /\ c \in Children /\ acc.run \in Amount
        /\ acc.caps \in [Children -> Amount \cup {None}]
    BY <1>1, <1>4 DEF CutSoFar
  <2>3. x \in Amount
    BY <2>2, PortionAmount
  <2>4. acc.caps[c] = None
    BY <1>2, <2>2 DEF Fitting
  <2> HIDE DEF x
  <2>5. next.run[d] = acc.run[d] + x[d] /\ next.caps = wider
    BY <2>1, <2>2, <2>3, PlusAmount
  <2>6. wider[c] = x /\ x # None /\ \A y \in Children \ {c} : wider[y] = acc.caps[y]
    BY <2>2, <2>3, PartitionAssumption
  <2>7. \A y \in new \ S : next.caps[y] = None
    BY <1>2, <2>2, <2>5, <2>6 DEF Fitting
  <2>8. AtFloor(acc.caps, d) => AtFloor(wider, d)
    BY <2>4, <2>6 DEF AtFloor
  <2>9. x[d] = Floor[d] => AtFloor(wider, d)
    BY <2>2, <2>6 DEF AtFloor
  <2>10. ASSUME AddsUp(acc, top, tasks, i - 1, d), x[d] # Floor[d]
         PROVE  AddsUp(next, top, tasks, i, d)
    <3>1. CapSum(next.caps, d) = CapSum(cap, d) + next.run[d]
      <4>1. CapSum(wider, d) = CapSum(acc.caps, d) + x[d]
        BY <2>2, <2>3, <2>4, CapAdds
      <4>2. CapSum(cap, d) \in Nat /\ acc.run[d] \in Nat /\ x[d] \in Nat
        BY <2>2, <2>3, HeadroomIsInt DEF Amount
      <4>3. CapSum(acc.caps, d) = CapSum(cap, d) + acc.run[d]
        BY <2>10 DEF AddsUp
      <4> HIDE DEF wider
      <4> QED BY <2>5, <4>1, <4>2, <4>3
    <3>2. /\ \A y \in Children : Share(top, new, y, d) \in Nat
          /\ SumFunctionOnSet(g, new) <= h
      BY <2>2, SharesFit
    <3>3. IsFiniteSet(new) /\ Naturals(g, new)
      BY <3>2, PartitionAssumption, FS_Subset DEF Naturals, Shares
    <3>4. /\ SumFunctionOnSet(g, S) = Share(top, new, c, d) + SumFunctionOnSet(g, T)
          /\ SumFunctionOnSet(g, T) \in Nat /\ SumFunctionOnSet(g, S) <= SumFunctionOnSet(g, new)
          /\ SumFunctionOnSet(g, S) \in Nat /\ SumFunctionOnSet(g, new) \in Nat
      <4>1. IsFiniteSet(S) /\ Naturals(g, S) /\ c \in S /\ S \ {c} = T /\ S \in SUBSET new
        BY <1>2, <2>2, <3>3, FS_Subset DEF Naturals
      <4>2. g[c] = Share(top, new, c, d)
        BY <2>2 DEF Shares
      <4> HIDE DEF g, S, T, new, c
      <4>3. SumFunctionOnSet(g, S) = g[c] + SumFunctionOnSet(g, S \ {c})
            /\ SumFunctionOnSet(g, S \ {c}) \in Nat
        BY <4>1, SumRemove
      <4>4. SumFunctionOnSet(g, S) <= SumFunctionOnSet(g, new)
            /\ SumFunctionOnSet(g, S) \in Nat /\ SumFunctionOnSet(g, new) \in Nat
        BY <3>3, <4>1, SumGrows
      <4>5. SumFunctionOnSet(g, S \ {c}) = SumFunctionOnSet(g, T)
        BY <4>1, Zenon
      <4> QED BY <4>2, <4>3, <4>4, <4>5
    <3>5. /\ acc.run[d] \in Nat /\ h \in Nat /\ Floor[d] \in Nat /\ x[d] \in Nat
          /\ Share(top, new, c, d) \in Nat
      <4>1. Headroom(top, d) \in Int
        BY HeadroomIsInt
      <4>2. Share(top, new, c, d) \in Nat
        BY <2>2, <3>2
      <4> QED BY <2>2, <2>3, <4>1, <4>2, PartitionAssumption DEF Amount
    <3>6. \/ acc.run[d] <= SumFunctionOnSet(g, T)
          \/ acc.run[d] = h /\ \A y \in new \ T : Share(top, new, y, d) < Floor[d]
      BY <2>10 DEF AddsUp
    <3>7. CASE Share(top, new, c, d) >= Floor[d] /\ x[d] = Share(top, new, c, d)
      <4>1. c \in new \ T
        BY <1>2, <2>2
      <4>2. acc.run[d] <= SumFunctionOnSet(g, T)
        BY <3>5, <3>6, <3>7, <4>1
      <4>3. next.run[d] <= SumFunctionOnSet(g, S)
        <5> HIDE DEF g, S, T, next
        <5> QED BY <2>5, <3>4, <3>5, <3>7, <4>2
      <4> QED BY <3>1, <4>3 DEF AddsUp
    <3>8. CASE /\ Share(top, new, c, d) < Floor[d] /\ acc.run[d] + Floor[d] > h
               /\ x[d] = IF acc.run[d] <= h THEN h - acc.run[d] ELSE 0
      <4>1. acc.run[d] <= h
        BY <3>2, <3>4, <3>5, <3>6
      <4>2. next.run[d] = h
        BY <2>5, <3>5, <3>8, <4>1
      <4>3. ASSUME NEW y \in new \ S, ~(Share(top, new, y, d) < Floor[d]) PROVE FALSE
        <5>1. y \in new \ T /\ y # c /\ y \in Children
          BY <1>2, <2>2
        <5>2. Share(top, new, y, d) \in Nat /\ g[y] = Share(top, new, y, d)
          BY <3>2, <5>1 DEF Shares
        <5>3. acc.run[d] <= SumFunctionOnSet(g, T)
          BY <3>6, <4>3, <5>1
        <5> DEFINE Q == T \cup {y}
        <5>4. Q \in SUBSET new /\ IsFiniteSet(Q) /\ Naturals(g, Q) /\ y \in Q /\ Q \ {y} = T
          BY <1>2, <3>3, <5>1, FS_Subset DEF Naturals
        <5> HIDE DEF g, S, T, new, Q, h
        <5>5. SumFunctionOnSet(g, Q) = g[y] + SumFunctionOnSet(g, Q \ {y})
          BY <5>4, SumRemove
        <5>6. SumFunctionOnSet(g, Q) <= SumFunctionOnSet(g, new) /\ SumFunctionOnSet(g, Q) \in Nat
          BY <3>3, <5>4, SumGrows
        <5>7. SumFunctionOnSet(g, Q \ {y}) = SumFunctionOnSet(g, T)
          BY <5>4, Zenon
        <5> QED BY <3>2, <3>4, <3>5, <3>8, <4>3, <5>2, <5>3, <5>5, <5>6, <5>7
      <4> QED BY <3>1, <4>2, <4>3 DEF AddsUp
    <3>9. \/ Share(top, new, c, d) >= Floor[d] /\ x[d] = Share(top, new, c, d)
          \/ x[d] = Floor[d]
          \/ /\ Share(top, new, c, d) < Floor[d] /\ acc.run[d] + Floor[d] > h
             /\ x[d] = IF acc.run[d] <= h THEN h - acc.run[d] ELSE 0
      BY <2>2, PortionCases DEF x
    <3> QED BY <2>10, <3>7, <3>8, <3>9
  <2> QED BY <1>1, <2>5, <2>7, <2>8, <2>9, <2>10 DEF Fitting
<1> QED BY <1>3, <1>4

\* The partitions that Slice cuts fit into the headroom, unless one was lifted.
LEMMA SliceFits ==
  ASSUME cap \in [Children -> Amount \cup {None}], NEW top \in Amount, NEW d \in Dims,
         NEW S \in SUBSET Children, NEW tasks \in SetToSeqs(S),
         top[d] # 0, CapSum(cap, d) <= top[d]
  PROVE  CapSum(Slice(top, tasks), d) <= top[d] \/ AtFloor(Slice(top, tasks), d)
<1> DEFINE len == Len(tasks)
           new == Uncut(tasks)
           g == Shares(top, new, d)
           h == Headroom(top, d)
<1>1. /\ len \in Nat /\ new \subseteq Children
      /\ \A i, j \in 1..len : tasks[i] = tasks[j] => i = j
  BY TasksOrdered DEF Uncut
<1>2. /\ top[d] \in Nat /\ CapSum(cap, d) \in Nat /\ h \in Nat
      /\ h = top[d] - CapSum(cap, d)
  <2>1. top[d] \in Nat /\ CapSum(cap, d) \in Nat
    BY HeadroomIsInt
  <2> QED BY <2>1 DEF Headroom
<1>3. PICK f : Slice(top, tasks) = f[len].caps /\ Cuts(f, top, tasks, len)
  BY <1>1, SliceCuts, Zenon
<1> HIDE DEF len, g, h
<1> DEFINE bad == {i \in 0..len : ~Fitting(f[i], top, tasks, i, d)}
<1>4. ASSUME NEW i \in bad, \A j \in bad : i <= j PROVE FALSE
  <2>1. CASE i = 0
    <3>1. CutSoFar(Start, tasks)
      BY ZeroAmount DEF CutSoFar, Start
    <3>2. \A c \in new : Start.caps[c] = None
      BY DEF Start, Uncut
    <3>3. Seen(tasks, 0) = {}
      BY DEF Seen
    <3>4. AddsUp(Start, top, tasks, 0, d)
      <4>1. Start.run[d] = 0 /\ Start.caps = cap
        BY ZeroAmount DEF Start
      <4>2. SumFunctionOnSet(Shares(top, Uncut(tasks), d), Seen(tasks, 0)) = 0
        BY <3>3, SumEmpty
      <4> QED BY <1>2, <4>1, <4>2 DEF AddsUp
    <3>5. f[0] = Start
      BY <1>3 DEF Cuts
    <3> QED BY <2>1, <3>1, <3>2, <3>4, <3>5 DEF Fitting
  <2>2. CASE i # 0
    <3>1. i - 1 \in 0..len /\ i \in 1..len /\ i - 1 \notin bad
      BY <1>1, <1>4, <2>2
    <3>2. Fitting(f[i - 1], top, tasks, i - 1, d)
      BY <3>1
    <3>3. f[i] = CutNext(f[i - 1], top, Uncut(tasks), tasks[i])
      BY <1>3, <3>1 DEF Cuts
    <3>4. \A j \in 1..(i - 1) : tasks[j] # tasks[i]
      BY <1>1, <3>1
    <3>5. Headroom(top, d) >= 0 /\ i \in Nat /\ i > 0 /\ Uncut(tasks) \subseteq Children
      BY <1>1, <1>2, <3>1 DEF h
    <3>6. Fitting(f[i], top, tasks, i, d)
      BY <3>2, <3>3, <3>4, <3>5, CutNextFits
    <3> QED BY <3>6
  <2> QED BY <2>1, <2>2
<1>5. bad = {}
  <2>1. bad \in SUBSET Nat
    OBVIOUS
  <2> HIDE DEF bad
  <2> QED BY <1>4, <2>1, SmallestNumber
<1>6. Fitting(f[len], top, tasks, len, d)
  <2>1. len \in 0..len
    BY <1>1
  <2> QED BY <1>5, <2>1
<1>7. ASSUME AddsUp(f[len], top, tasks, len, d) PROVE CapSum(f[len].caps, d) <= top[d]
  <2>1. CapSum(f[len].caps, d) = CapSum(cap, d) + f[len].run[d]
    BY <1>7 DEF AddsUp
  <2>2. f[len].run[d] \in Nat
    BY <1>6 DEF Fitting, CutSoFar, Amount
  <2>3. f[len].run[d] <= h
    <3>1. CASE f[len].run[d] = Headroom(top, d)
      BY <1>2, <3>1 DEF h
    <3>2. CASE f[len].run[d] <= SumFunctionOnSet(Shares(top, Uncut(tasks), d), Seen(tasks, len))
      <4>1. CASE new = {}
        <5>1. Seen(tasks, len) = {}
          BY <4>1 DEF Seen
        <5>2. SumFunctionOnSet(Shares(top, Uncut(tasks), d), Seen(tasks, len)) = 0
          BY <5>1, SumEmpty
        <5> QED BY <1>2, <2>2, <3>2, <5>2
      <4>2. CASE new # {}
        <5>1. /\ \A x \in Children : Share(top, new, x, d) \in Nat
              /\ SumFunctionOnSet(g, new) <= h
          BY <1>1, <1>2, <4>2, SharesFit DEF g, h
        <5>2. IsFiniteSet(new) /\ Naturals(g, new) /\ Seen(tasks, len) \in SUBSET new
          BY <1>1, <5>1, PartitionAssumption, FS_Subset DEF Naturals, Shares, Seen, g
        <5>3. /\ SumFunctionOnSet(g, Seen(tasks, len)) <= SumFunctionOnSet(g, new)
              /\ SumFunctionOnSet(g, Seen(tasks, len)) \in Nat
              /\ SumFunctionOnSet(g, new) \in Nat
          BY <5>2, SumGrows
        <5>4. f[len].run[d] <= SumFunctionOnSet(g, Seen(tasks, len))
          BY <3>2 DEF g
        <5> QED BY <1>2, <2>2, <5>1, <5>3, <5>4
      <4> QED BY <4>1, <4>2
    <3> QED BY <1>7, <3>1, <3>2 DEF AddsUp
  <2> QED BY <1>2, <2>1, <2>2, <2>3
<1> QED BY <1>3, <1>6, <1>7 DEF Fitting

\* Cutting is the only step that changes a cap, and it changes none that is there.
LEMMA StepFits == EInv /\ CapsFit /\ [Next]_vars => CapsFit'
<1> SUFFICES ASSUME EInv, CapsFit, [Next]_vars PROVE CapsFit'
  OBVIOUS
<1>1. ASSUME UNCHANGED <<root, cap>> PROVE CapsFit'
  BY <1>1 DEF CapsFit, CapSum, Cut
<1>2. ASSUME NEW top \in RootCaps, NEW S \in SUBSET Children, NEW tasks \in SetToSeqs(S),
             Fund(top, tasks)
      PROVE  CapsFit'
  <2> DEFINE ceiling == IF root = None THEN top ELSE root
  <2>1. root' = ceiling /\ cap' = Slice(ceiling, tasks)
    BY <1>2 DEF Fund
  <2>2. ceiling \in Amount /\ cap \in [Children -> Amount \cup {None}]
    BY PartitionAssumption DEF EInv, Opened
  <2> HIDE DEF ceiling
  <2>3. \A c \in Children : cap[c] # None => cap'[c] = cap[c]
    BY <2>1, <2>2, SliceKeeps
  <2> SUFFICES ASSUME NEW d \in Dims, ceiling[d] # 0
               PROVE  CapSum(cap', d) <= ceiling[d] \/ AtFloor(cap', d)
    BY <2>1 DEF CapsFit, CapSum, Cut, AtFloor
  <2>4. CapSum(cap, d) <= ceiling[d] \/ AtFloor(cap, d)
    <3>1. CASE root # None
      BY <3>1 DEF CapsFit, Cut, AtFloor, ceiling
    <3>2. CASE root = None
      <4> DEFINE D == {x \in Children : cap[x] # None}
                 f == [c \in D |-> cap[c][d]]
      <4>1. D = {}
        BY <3>2 DEF EInv, Opened
      <4>2. CapSum(cap, d) = SumFunctionOnSet(f, D)
        BY DEF CapSum, SumFunction
      <4>3. CapSum(cap, d) = 0
        <5> HIDE DEF D, f
        <5> QED BY <4>1, <4>2, SumEmpty
      <4> QED BY <2>2, <4>3 DEF Amount
    <3> QED BY <3>1, <3>2
  <2>5. AtFloor(cap, d) => AtFloor(cap', d)
    BY <2>3 DEF AtFloor
  <2> QED BY <2>1, <2>2, <2>4, <2>5, SliceFits
<1>3. ASSUME NEW c \in Children, Settle(c) PROVE CapsFit'
  BY <1>1, <1>3 DEF Settle, Settled
<1>10. ASSUME NEW c \in Children, NEW est \in Estimates, Refuse(c, est) PROVE CapsFit'
  BY <1>1, <1>10 DEF Refuse, Settled
<1>4. ASSUME NEW c \in Children, NEW est \in Estimates, Admit(c, est) PROVE CapsFit'
  BY <1>1, <1>4 DEF Admit
<1>5. ASSUME NEW c \in Children, NEW use \in Uses, Answer(c, use) PROVE CapsFit'
  BY <1>1, <1>5 DEF Answer, ledger
<1>6. ASSUME NEW r \in Res, Age(r) PROVE CapsFit'
  BY <1>1, <1>6 DEF Age
<1>7. CASE Finish
  BY <1>1, <1>7 DEF Finish, ledger
<1>8. CASE Crash
  BY <1>1, <1>8 DEF Crash, ledger
<1>9. CASE UNCHANGED vars
  BY <1>1, <1>9 DEF vars, ledger
<1> QED BY <1>2, <1>3, <1>4, <1>5, <1>6, <1>7, <1>8, <1>9, <1>10 DEF Next

\* The partitions of a root do not add up to more than it, unless one of them was
\* lifted to the floor.
THEOREM PartitionCapsFit == Spec => []CapsFit
<1>1. Init => EInv /\ CapsFit
  BY InitHolds DEF Init, CapsFit
<1>2. EInv /\ CapsFit /\ [Next]_vars => (EInv /\ CapsFit)'
  BY StepHolds, StepFits
<1> QED BY <1>1, <1>2, PTL DEF Spec

=============================================================================
