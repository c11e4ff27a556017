-------------------------- MODULE PlanStoreProofs --------------------------
(***************************************************************************)
(* PlanStore for every number of chats, handlers, plans and rows.          *)
(***************************************************************************)
EXTENDS PlanStore, FiniteSetTheorems, TLAPS

(***************************************************************************)
(* What the date arithmetic of PlanSchedule returns, for every table.      *)
(***************************************************************************)
\* A dinner table over the ids X whose rows show dishes of C.
Tables(X, C) == [X -> [week : Nat, day : Int, dish : C]]

\* A proper subset of a finite set has fewer elements.
LEMMA ProperSubsetIsSmaller ==
    ASSUME NEW S, IsFiniteSet(S), NEW T \in SUBSET S, T # S
    PROVE  Cardinality(T) \in Nat /\ Cardinality(T) < Cardinality(S)
<1>1. /\ IsFiniteSet(T) /\ Cardinality(T) <= Cardinality(S)
      /\ Cardinality(S) # Cardinality(T)
  BY FS_Subset
<1>2. Cardinality(T) \in Nat /\ Cardinality(S) \in Nat
  BY <1>1, FS_CardinalityType
<1> QED  BY <1>1, <1>2

\* The days of a series are numbered from 0 without gaps beyond the last
\* (weeks.go: generate_series and the identity of the rows it inserts).
LEMMA DayRankBound ==
    ASSUME NEW D, IsFiniteSet(D), D \subseteq Int, NEW d \in D
    PROVE  DayRank(D, d) \in Nat /\ DayRank(D, d) < Cardinality(D)
<1> DEFINE T == {c \in D : c < d}
<1>1. d \notin T /\ T \in SUBSET D
  OBVIOUS
<1> QED  BY <1>1, ProperSubsetIsSmaller DEF DayRank

\* Two days of a series never get the same number.
LEMMA DayRankInjective ==
    ASSUME NEW D, IsFiniteSet(D), D \subseteq Int, NEW c \in D, NEW d \in D, c < d
    PROVE  DayRank(D, c) < DayRank(D, d)
<1> DEFINE S == {b \in D : b < d}
           T == {b \in D : b < c}
<1>1. \A b \in D : b < c => b < d
  OBVIOUS
<1>2. T \in SUBSET S
  BY <1>1
<1>3. c \in S /\ c \notin T
  OBVIOUS
<1>4. IsFiniteSet(S)
  BY FS_Subset
<1> QED  BY <1>2, <1>3, <1>4, ProperSubsetIsSmaller DEF DayRank

\* Before is a strict total order on the dinners of a table.
LEMMA BeforeIsOrder ==
    ASSUME NEW X, X \subseteq Int, NEW C, NEW t \in Tables(X, C),
           NEW x \in X, NEW y \in X, NEW z \in X
    PROVE  /\ ~Before(t, x, x)
           /\ Before(t, x, y) /\ Before(t, y, z) => Before(t, x, z)
           /\ x # y => Before(t, x, y) \/ Before(t, y, x)
  BY DEF Before, Tables

\* row_number() - 1 numbers the dinners of a plan from 0, below their count.
LEMMA RankBound ==
    ASSUME NEW X, IsFiniteSet(X), X \subseteq Int, NEW C, NEW t \in Tables(X, C),
           NEW x \in X
    PROVE  Rank(t, x) \in Nat /\ Rank(t, x) < Cardinality(DinnersOf(t, t[x].week))
<1> DEFINE S == DinnersOf(t, t[x].week)
           T == {y \in DOMAIN t : t[y].week = t[x].week /\ Before(t, y, x)}
<1>1. DOMAIN t = X
  BY DEF Tables
<1>2. S \in SUBSET X /\ T \in SUBSET S /\ x \in S
  BY <1>1 DEF DinnersOf
<1>3. x \notin T
  BY BeforeIsOrder
<1>4. IsFiniteSet(S)
  BY <1>2, FS_Subset
<1> QED  BY <1>2, <1>3, <1>4, ProperSubsetIsSmaller DEF Rank

\* row_number() follows the order of the rows: no two dinners of a plan share
\* a number.
LEMMA RankFollowsOrder ==
    ASSUME NEW X, IsFiniteSet(X), X \subseteq Int, NEW C, NEW t \in Tables(X, C),
           NEW x \in X, NEW y \in X, t[x].week = t[y].week, Before(t, x, y)
    PROVE  Rank(t, x) < Rank(t, y)
<1> DEFINE S == {z \in DOMAIN t : t[z].week = t[y].week /\ Before(t, z, y)}
           T == {z \in DOMAIN t : t[z].week = t[x].week /\ Before(t, z, x)}
<1>1. DOMAIN t = X
  BY DEF Tables
<1>2. T \in SUBSET S
  BY <1>1, BeforeIsOrder
<1>3. x \in S /\ x \notin T
  BY <1>1, BeforeIsOrder
<1>4. IsFiniteSet(S)
  BY <1>1, FS_Subset
<1> QED  BY <1>2, <1>3, <1>4, ProperSubsetIsSmaller DEF Rank

(***************************************************************************)
(* What Pack, Truncate, AddSlots and CopyDinners have in common: u is the  *)
(* table t after dinners of plan w moved, went, or were added under the k  *)
(* ids from n on.  Rows of other plans stay, and no id changes its plan.   *)
(***************************************************************************)
Edits(X, C, t, u, w, n, k) ==
    /\ u \in Tables(X, C)
    /\ \A x \in X : t[x].week = w => u[x].week \in {0, w}
    /\ \A x \in X : t[x].week # w =>
         u[x] = t[x] \/ (n <= x /\ x < n + k /\ u[x].week \in {0, w})

\* One edit after the other is one edit.
LEMMA EditsCompose ==
    ASSUME NEW X, X \subseteq Int, NEW C, NEW t, NEW u, NEW v, NEW w \in Nat \ {0},
           NEW n \in Nat, NEW k \in Nat, NEW l \in Nat,
           Edits(X, C, t, u, w, n, k), Edits(X, C, u, v, w, n + k, l)
    PROVE  Edits(X, C, t, v, w, n, k + l)
<1>1. v \in Tables(X, C)
  BY DEF Edits
<1>2. ASSUME NEW x \in X, t[x].week = w
      PROVE  v[x].week \in {0, w}
  <2>1. u[x].week \in {0, w}
    BY <1>2 DEF Edits
  <2>2. CASE u[x].week = w
    BY <2>2 DEF Edits
  <2>3. CASE u[x].week = 0
    BY <2>3 DEF Edits
  <2> QED  BY <2>1, <2>2, <2>3
<1>3. ASSUME NEW x \in X, t[x].week # w
      PROVE  v[x] = t[x] \/ (n <= x /\ x < n + (k + l) /\ v[x].week \in {0, w})
  <2>1. CASE u[x] = t[x]
    <3>1. v[x] = u[x] \/ (n + k <= x /\ x < (n + k) + l /\ v[x].week \in {0, w})
      BY <1>3, <2>1 DEF Edits
    <3> QED  BY <2>1, <3>1
  <2>2. CASE u[x] # t[x]
    <3>1. n <= x /\ x < n + k /\ u[x].week \in {0, w}
      BY <1>3, <2>2 DEF Edits
    <3>2. x \in Int /\ x < n + (k + l)
      BY <3>1
    <3>3. CASE u[x].week = w
      BY <3>1, <3>2, <3>3 DEF Edits
    <3>4. CASE u[x].week = 0
      <4>1. v[x] = u[x] \/ (x < (n + k) + l /\ v[x].week \in {0, w})
        BY <3>4 DEF Edits
      <4> QED  BY <3>1, <3>2, <3>4, <4>1
    <3> QED  BY <3>1, <3>3, <3>4
  <2> QED  BY <2>1, <2>2
<1> QED  BY <1>1, <1>2, <1>3 DEF Edits

\* Packing moves the dinners of one plan and nothing else (weeks.go
\* handlePatchWeek, the UPDATE from the numbered rows).
LEMMA PackEdits ==
    ASSUME NEW X, IsFiniteSet(X), X \subseteq Int, NEW C, NEW t \in Tables(X, C),
           NEW w, NEW s \in Int, NEW n \in Nat
    PROVE  Edits(X, C, t, Pack(t, w, s), w, n, 0)
<1>1. ASSUME NEW x \in X PROVE Rank(t, x) \in Nat
  BY RankBound
<1>2. DOMAIN t = X
  BY DEF Tables
<1> QED  BY <1>1, <1>2 DEF Pack, Tables, Edits

\* Truncating removes rows of one plan and changes none.
LEMMA TruncateEdits ==
    ASSUME NEW X, X \subseteq Int, NEW C, NoContent \in C, NEW t \in Tables(X, C),
           NEW w, NEW e \in Int, NEW n \in Nat
    PROVE  Edits(X, C, t, Truncate(t, w, e), w, n, 0)
  BY DEF Truncate, Tables, NoDinner, Edits

\* Empty slots get new rows of one plan, under the next ids and no others.
LEMMA AddSlotsEdits ==
    ASSUME NEW X, X \subseteq Int, NEW C, NoContent \in C, NEW t \in Tables(X, C),
           NEW w \in Nat, NEW D, IsFiniteSet(D), D \subseteq Int, NEW n \in Nat
    PROVE  Edits(X, C, t, AddSlots(t, w, D, n), w, n, Cardinality(D))
<1> DEFINE u == AddSlots(t, w, D, n)
<1>1. ASSUME NEW d \in D
      PROVE  DayRank(D, d) \in Nat /\ DayRank(D, d) < Cardinality(D)
  BY DayRankBound
<1>2. Cardinality(D) \in Nat
  BY FS_CardinalityType
<1>3. DOMAIN t = X
  BY DEF Tables
<1>4. ASSUME NEW x \in X, NEW d \in D, x = n + DayRank(D, d)
      PROVE  /\ u[x] \in [week : Nat, day : Int, dish : C]
             /\ n <= x /\ x < n + Cardinality(D)
             /\ u[x].week = w
  <2> DEFINE z == CHOOSE b \in D : x = n + DayRank(D, b)
  <2>1. z \in Int
    BY <1>4
  <2>2. u[x] = [week |-> w, day |-> z, dish |-> NoContent]
    BY <1>3, <1>4 DEF AddSlots
  <2>3. n <= x /\ x < n + Cardinality(D)
    BY <1>1, <1>2, <1>4
  <2> HIDE DEF z, u
  <2> QED  BY <2>1, <2>2, <2>3
<1>5. ASSUME NEW x \in X, ~ \E d \in D : x = n + DayRank(D, d)
      PROVE  u[x] = t[x]
  BY <1>3, <1>5 DEF AddSlots
<1>6. \A x \in X : t[x] \in [week : Nat, day : Int, dish : C]
  BY DEF Tables
<1>7. u = [x \in X |-> u[x]]
  BY <1>3 DEF AddSlots
<1> HIDE DEF u
<1>8. \A x \in X : u[x] \in [week : Nat, day : Int, dish : C]
  BY <1>4, <1>5, <1>6
<1>9. u \in Tables(X, C)
  BY <1>7, <1>8 DEF Tables
<1>10. \A x \in X : u[x] = t[x]
                    \/ (n <= x /\ x < n + Cardinality(D) /\ u[x].week = w)
  BY <1>4, <1>5
<1> QED  BY <1>9, <1>10 DEF Edits, u

\* The copies of a clone get new rows of the new plan, under the next ids and
\* no others; the source keeps its rows.
LEMMA CopyDinnersEdits ==
    ASSUME NEW X, IsFiniteSet(X), X \subseteq Int, NEW C, NEW t \in Tables(X, C),
           NEW v, NEW w \in Nat, NEW s \in Int, NEW n \in Nat
    PROVE  /\ Cardinality(DinnersOf(t, v)) \in Nat
           /\ Edits(X, C, t, CopyDinners(t, v, w, s, n), w,
                    n, Cardinality(DinnersOf(t, v)))
<1> DEFINE S == DinnersOf(t, v)
           u == CopyDinners(t, v, w, s, n)
<1>1. DOMAIN t = X
  BY DEF Tables
<1>2. S \in SUBSET X /\ \A y \in S : t[y].week = v
  BY <1>1 DEF DinnersOf
<1>3. ASSUME NEW y \in S
      PROVE  Rank(t, y) \in Nat /\ Rank(t, y) < Cardinality(S)
  BY <1>2, RankBound
<1>4. IsFiniteSet(S)
  BY <1>2, FS_Subset
<1>5. Cardinality(S) \in Nat
  BY <1>4, FS_CardinalityType
<1>6. ASSUME NEW x \in X, NEW y \in S, x = n + Rank(t, y)
      PROVE  /\ u[x] \in [week : Nat, day : Int, dish : C]
             /\ n <= x /\ x < n + Cardinality(S)
             /\ u[x].week = w
  <2> DEFINE z == CHOOSE b \in S : x = n + Rank(t, b)
  <2>1. z \in X
    BY <1>2, <1>6
  <2>2. t[z].dish \in C
    BY <2>1 DEF Tables
  <2>3. u[x] = [week |-> w, day |-> s + (x - n), dish |-> t[z].dish]
    BY <1>1, <1>6 DEF CopyDinners
  <2>4. n <= x /\ x < n + Cardinality(S)
    BY <1>3, <1>5, <1>6
  <2>5. s + (x - n) \in Int
    OBVIOUS
  <2> HIDE DEF z, u, S
  <2> QED  BY <2>2, <2>3, <2>4, <2>5
<1>7. ASSUME NEW x \in X, ~ \E y \in S : x = n + Rank(t, y)
      PROVE  u[x] = t[x]
  BY <1>1, <1>7 DEF CopyDinners
<1>8. \A x \in X : t[x] \in [week : Nat, day : Int, dish : C]
  BY DEF Tables
<1>9. u = [x \in X |-> u[x]]
  BY <1>1 DEF CopyDinners
<1> HIDE DEF u, S
<1>10. \A x \in X : u[x] \in [week : Nat, day : Int, dish : C]
  BY <1>6, <1>7, <1>8
<1>11. u \in Tables(X, C)
  BY <1>9, <1>10 DEF Tables
<1>12. \A x \in X : u[x] = t[x]
                    \/ (n <= x /\ x < n + Cardinality(S) /\ u[x].week = w)
  BY <1>6, <1>7
<1>13. Edits(X, C, t, u, w, n, Cardinality(S))
  BY <1>11, <1>12 DEF Edits
<1> QED  BY <1>5, <1>13 DEF u, S

\* The side effects of a PATCH on plan w: rows of w move, or go away; new rows
\* of w appear under the next ids; no other row changes (weeks.go
\* handlePatchWeek).
LEMMA PatchDinnersEdits ==
    ASSUME NEW X, IsFiniteSet(X), X \subseteq Int, NEW C, NoContent \in C,
           NEW t \in Tables(X, C), NEW w \in Nat \ {0}, NEW n \in Nat,
           NEW s \in Int, NEW e \in Int, NEW b \in Int,
           NEW p, p.start = s, p.end = e, p.base = b,
           NEW added, added = IF e > b THEN e - b ELSE 0
    PROVE  added \in Nat /\ Edits(X, C, t, PatchDinners(t, w, p, n), w, n, added)
<1> DEFINE packed == IF p.moved THEN Pack(t, w, s) ELSE t
           D == (b + 1)..e
<1>1. added \in Nat
  OBVIOUS
<1>2. Edits(X, C, t, packed, w, n, 0) /\ packed \in Tables(X, C)
  <2>1. Edits(X, C, t, Pack(t, w, s), w, n, 0)
    BY PackEdits
  <2>2. Edits(X, C, t, t, w, n, 0)
    BY DEF Edits
  <2>3. Edits(X, C, t, packed, w, n, 0)
    BY <2>1, <2>2
  <2> HIDE DEF packed
  <2> QED  BY <2>3 DEF Edits
<1>3. PatchDinners(t, w, p, n) =
        CASE e < b -> Truncate(packed, w, e)
          [] e > b -> AddSlots(packed, w, D, n)
          [] OTHER -> packed
  BY Zenon DEF PatchDinners
<1> HIDE DEF packed
<1>4. CASE e < b
  <2>1. n + 0 \in Nat /\ 0 \in Nat
    OBVIOUS
  <2>2. Edits(X, C, packed, Truncate(packed, w, e), w, n + 0, 0)
    BY <1>2, <2>1, TruncateEdits
  <2>3. Edits(X, C, t, Truncate(packed, w, e), w, n, 0 + 0)
    BY <1>2, <2>1, <2>2, EditsCompose
  <2>4. PatchDinners(t, w, p, n) = Truncate(packed, w, e)
    BY <1>3, <1>4
  <2>5. added = 0 + 0
    BY <1>4
  <2> QED  BY <1>1, <2>3, <2>4, <2>5
<1>5. CASE e > b
  <2>1. IsFiniteSet(D) /\ D \subseteq Int /\ Cardinality(D) = added
    <3>1. b + 1 \in Int
      OBVIOUS
    <3>2. /\ IsFiniteSet(D)
          /\ Cardinality(D) = IF b + 1 > e THEN 0 ELSE e - (b + 1) + 1
      BY <3>1, FS_Interval
    <3> QED  BY <1>5, <3>2
  <2>2. PatchDinners(t, w, p, n) = AddSlots(packed, w, D, n)
    BY <1>3, <1>5
  <2> HIDE DEF D
  <2>3. Edits(X, C, packed, AddSlots(packed, w, D, n), w, n, Cardinality(D))
    BY <1>2, <2>1, AddSlotsEdits
  <2>4. n + 0 = n /\ 0 + added = added
    BY <1>1
  <2>5. Edits(X, C, packed, AddSlots(packed, w, D, n), w, n + 0, added)
    BY <2>1, <2>3, <2>4
  <2>6. Edits(X, C, t, AddSlots(packed, w, D, n), w, n, 0 + added)
    BY <1>1, <1>2, <2>5, EditsCompose
  <2> QED  BY <1>1, <2>2, <2>4, <2>6
<1>6. CASE e = b
  <2>1. PatchDinners(t, w, p, n) = packed /\ added = 0
    BY <1>3, <1>6
  <2> QED  BY <1>1, <1>2, <2>1
<1> QED  BY <1>4, <1>5, <1>6

\* What a clone leaves in the table: new rows of the new plan w under the next
\* ids, and every other row as it was (weeks.go handleCloneWeek).
LEMMA CloneDinnersEdits ==
    ASSUME NEW X, IsFiniteSet(X), X \subseteq Int, NEW C, NoContent \in C,
           NEW t \in Tables(X, C), NEW v \in Nat, NEW w \in Nat \ {0},
           NEW s \in Int, NEW e \in Int, NEW n \in Nat,
           NEW copied, copied = CopyDinners(t, v, w, s, n),
           NEW k, k = Cardinality(DinnersOf(t, v)),
           NEW gaps, gaps = UncoveredDays(copied, w, s, e)
    PROVE  Edits(X, C, t, AddSlots(copied, w, gaps, n + k), w,
                 n, k + Cardinality(gaps))
<1>1. k \in Nat /\ Edits(X, C, t, copied, w, n, k)
  BY CopyDinnersEdits
<1>2. gaps \in SUBSET (s..e)
  BY DEF UncoveredDays
<1>3. IsFiniteSet(gaps) /\ gaps \subseteq Int
  <2>1. IsFiniteSet(s..e)
    BY FS_Interval
  <2>2. IsFiniteSet(gaps)
    BY <1>2, <2>1, FS_Subset
  <2> QED  BY <1>2, <2>2
<1>4. Cardinality(gaps) \in Nat
  BY <1>3, FS_CardinalityType
<1>5. n + k \in Nat /\ copied \in Tables(X, C)
  BY <1>1 DEF Edits
<1>6. Edits(X, C, copied, AddSlots(copied, w, gaps, n + k), w,
            n + k, Cardinality(gaps))
  BY <1>3, <1>5, AddSlotsEdits
<1> QED  BY <1>1, <1>4, <1>6, EditsCompose

(***************************************************************************)
(* The inductive invariant.                                                *)
(***************************************************************************)

Dishes == Contents \cup {NoContent}

\* A plan that exists has a status of the CHECK constraint.
KnownStatuses == \A w \in WeekIds : weeks[w] # NoWeek => weeks[w].status \in Statuses

\* What an operation in flight holds is an id that was handed out, and a clone
\* has a source.
PendingRows ==
    \A p \in Procs :
      /\ pending[p].op \in DinnerOps =>
           pending[p].row \in DinnerIds /\ pending[p].row < nextDinner
      /\ pending[p].op \in ExceptionOps =>
           pending[p].row \in ExceptionIds /\ pending[p].row < nextException
      /\ pending[p].op = "clone" =>
           /\ pending[p].week \in WeekIds
           /\ pending[p].row \in WeekIds /\ pending[p].row < nextWeek

\* The inductive invariant.
IInv == TypeOK /\ NoOrphans /\ PendingInScope /\ KnownStatuses /\ PendingRows

\* The step edits dinners of plan w only, and numbers what it adds.
EditsPlan(w) ==
    /\ nextDinner' \in Nat /\ nextDinner' - nextDinner \in Nat
    /\ Edits(DinnerIds, Dishes, dinners, dinners', w, nextDinner,
             nextDinner' - nextDinner)

\* The bounds make the dinner ids a finite set of integers, and a plan id is
\* never 0, the value that stands for "no plan" (wkctx.go WithWeekID).
LEMMA DinnerIdsFinite ==
    /\ IsFiniteSet(DinnerIds) /\ DinnerIds \subseteq Int
    /\ WeekIds \subseteq Nat \ {0}
<1>1. MaxDinner \in Nat /\ MaxWeek \in Nat
  BY ConstantsAssumption
<1>2. IsFiniteSet(1..MaxDinner)
  BY <1>1, FS_Interval
<1> QED  BY <1>1, <1>2 DEF DinnerIds, WeekIds

\* The typed dinner table is one of the tables these lemmas are about.
LEMMA DinnersAreATable ==
    ASSUME TypeOK
    PROVE  dinners \in Tables(DinnerIds, Dishes) /\ NoContent \in Dishes
  BY DEF TypeOK, Tables, Dishes

\* PATCH: packing, sliding, truncating and extending edit the patched plan.
LEMMA CommitPatchEdits ==
    ASSUME IInv, NEW h \in Handlers, NEW s \in Days \cup {NoDate},
           NEW e \in Days \cup {NoDate}, NEW st \in Statuses \cup {"none"},
           CommitPatch(h, s, e, st)
    PROVE  pending[h].week \in WeekIds /\ EditsPlan(pending[h].week)
<1> DEFINE w == pending[h].week
           p == PatchDates(pending[h], s, e)
           added == IF p.end > p.base THEN p.end - p.base ELSE 0
<1>1. w \in WeekIds /\ w \in Nat \ {0}
  BY DinnerIdsFinite DEF CommitPatch, Exists
<1>2. pending[h].start \in Int /\ pending[h].end \in Int
  BY DEF IInv, TypeOK, Procs
<1>3. s \in Int /\ e \in Int
  BY ConstantsAssumption DEF NoDate
<1>4. p.start \in Int /\ p.end \in Int /\ p.base \in Int
  BY <1>2, <1>3 DEF PatchDates
<1>5. nextDinner \in Nat
  BY DEF IInv, TypeOK
<1>6. dinners' = PatchDinners(dinners, w, p, nextDinner)
      /\ nextDinner' = nextDinner + added
  BY DEF CommitPatch
<1> HIDE DEF w, p
<1>7. added \in Nat
      /\ Edits(DinnerIds, Dishes, dinners, dinners', w, nextDinner, added)
  <2>1. /\ IsFiniteSet(DinnerIds) /\ DinnerIds \subseteq Int
        /\ dinners \in Tables(DinnerIds, Dishes) /\ NoContent \in Dishes
    BY DinnerIdsFinite, DinnersAreATable DEF IInv
  <2>2. PICK a \in Int, b \in Int, c \in Int :
          p.start = a /\ p.end = b /\ p.base = c
    BY <1>4
  <2>3. added = IF b > c THEN b - c ELSE 0
    BY <2>2
  <2> HIDE DEF added
  <2>4. added \in Nat
        /\ Edits(DinnerIds, Dishes, dinners,
                 PatchDinners(dinners, w, p, nextDinner), w, nextDinner, added)
    BY <1>1, <1>5, <2>1, <2>2, <2>3, PatchDinnersEdits
  <2> QED  BY <1>6, <2>4
<1>8. nextDinner' \in Nat /\ nextDinner' - nextDinner = added
  BY <1>5, <1>6, <1>7
<1> QED  BY <1>1, <1>7, <1>8 DEF EditsPlan, w

\* A clone edits the plan it creates: the source keeps its rows.
LEMMA CommitCloneEdits ==
    ASSUME IInv, NEW h \in Handlers, CommitClone(h)
    PROVE  pending[h].row \in WeekIds /\ EditsPlan(pending[h].row)
<1> DEFINE v == pending[h].week
           w == pending[h].row
           s == pending[h].start
           e == pending[h].end
           k == Cardinality(DinnersOf(dinners, v))
           copied == CopyDinners(dinners, v, w, s, nextDinner)
           gaps == UncoveredDays(copied, w, s, e)
<1>1. w \in WeekIds /\ w \in Nat \ {0}
  BY DinnerIdsFinite DEF CommitClone, IInv, PendingRows, Procs
<1>2. s \in Int /\ e \in Int /\ v \in Nat
  BY DEF IInv, TypeOK, Procs
<1>3. nextDinner \in Nat
  BY DEF IInv, TypeOK
<1>4. /\ dinners' = AddSlots(copied, w, gaps, nextDinner + k)
      /\ nextDinner' = nextDinner + k + Cardinality(gaps)
  BY DEF CommitClone
<1>5. /\ IsFiniteSet(DinnerIds) /\ DinnerIds \subseteq Int
      /\ dinners \in Tables(DinnerIds, Dishes) /\ NoContent \in Dishes
  BY DinnerIdsFinite, DinnersAreATable DEF IInv
<1>6. copied = CopyDinners(dinners, v, w, s, nextDinner)
      /\ k = Cardinality(DinnersOf(dinners, v))
      /\ gaps = UncoveredDays(copied, w, s, e)
  OBVIOUS
<1> HIDE DEF v, w, s, e, k, copied, gaps
<1>7. Edits(DinnerIds, Dishes, dinners,
            AddSlots(copied, w, gaps, nextDinner + k), w,
            nextDinner, k + Cardinality(gaps))
  BY <1>1, <1>2, <1>3, <1>5, <1>6, CloneDinnersEdits
<1>8. k \in Nat /\ Cardinality(gaps) \in Nat
  <2>1. DinnersOf(dinners, v) \in SUBSET DinnerIds /\ gaps \in SUBSET (s..e)
    BY <1>5, <1>6 DEF DinnersOf, Tables, UncoveredDays
  <2>2. IsFiniteSet(DinnersOf(dinners, v)) /\ IsFiniteSet(s..e)
    BY <1>2, <1>5, <2>1, FS_Subset, FS_Interval
  <2>3. IsFiniteSet(gaps)
    BY <2>1, <2>2, FS_Subset
  <2> QED  BY <1>6, <2>2, <2>3, FS_CardinalityType
<1>9. nextDinner' \in Nat /\ nextDinner' - nextDinner = k + Cardinality(gaps)
  BY <1>3, <1>4, <1>8
<1> QED  BY <1>1, <1>4, <1>7, <1>8, <1>9 DEF EditsPlan, w

\* add_dinner adds one row to the plan it was checked for.
LEMMA AddDinnerEdits ==
    ASSUME IInv, NEW c \in Chats, NEW day \in Days, NEW dish \in Contents,
           AddDinner(c, day, dish)
    PROVE  pending[c].week \in WeekIds /\ EditsPlan(pending[c].week)
<1> DEFINE w == pending[c].week
           row == [week |-> w, day |-> day, dish |-> dish]
<1>1. w \in WeekIds /\ w \in Nat \ {0}
  BY DinnerIdsFinite DEF AddDinner, Exists
<1>2. nextDinner \in Nat /\ nextDinner' = nextDinner + 1
  BY DEF AddDinner, IInv, TypeOK
<1>3. dinners' = [dinners EXCEPT ![nextDinner] = row]
  BY DEF AddDinner
<1>4. row \in [week : Nat, day : Int, dish : Dishes]
  BY <1>1, ConstantsAssumption DEF Dishes
<1>5. dinners \in [DinnerIds -> [week : Nat, day : Int, dish : Dishes]]
  BY DEF IInv, TypeOK, Dishes
<1>6. row.week = w
  OBVIOUS
<1> HIDE DEF row, w
<1>7. dinners' \in [DinnerIds -> [week : Nat, day : Int, dish : Dishes]]
  BY <1>3, <1>4, <1>5
<1>8. \A x \in DinnerIds :
        dinners'[x] = dinners[x] \/ (x = nextDinner /\ dinners'[x].week = w)
  BY <1>3, <1>5, <1>6
<1>9. nextDinner' \in Nat /\ nextDinner' - nextDinner = 1
  BY <1>2
<1>10. Edits(DinnerIds, Dishes, dinners, dinners', w, nextDinner, 1)
  BY <1>2, <1>7, <1>8 DEF Edits, Tables
<1> QED  BY <1>1, <1>9, <1>10 DEF EditsPlan, w

\* update_dinner repoints one row of a plan.
LEMMA UpdateDinnerEdits ==
    ASSUME IInv, NEW c \in Chats, NEW dish \in Contents, UpdateDinner(c, dish),
           NEW w \in Nat, w = dinners[pending[c].row].week
    PROVE  EditsPlan(w)
<1> DEFINE x == pending[c].row
<1>1. x \in DinnerIds
  BY DEF UpdateDinner, IInv, PendingRows, DinnerOps, Procs
<1>2. dinners \in [DinnerIds -> [week : Nat, day : Int, dish : Dishes]]
  BY DEF IInv, TypeOK, Dishes
<1>3. dinners' = [dinners EXCEPT ![x] = [dinners[x] EXCEPT !.dish = dish]]
  BY DEF UpdateDinner
<1>4. dish \in Dishes
  BY DEF Dishes
<1> HIDE DEF x
<1>5. dinners' \in [DinnerIds -> [week : Nat, day : Int, dish : Dishes]]
  BY <1>1, <1>2, <1>3, <1>4
<1>6. \A y \in DinnerIds :
        /\ y # x => dinners'[y] = dinners[y]
        /\ dinners'[y].week = dinners[y].week
  BY <1>1, <1>2, <1>3
<1>7. nextDinner' \in Nat /\ nextDinner' - nextDinner = 0
  BY DEF UpdateDinner, ids, IInv, TypeOK
<1>8. w = dinners[x].week
  BY DEF x
<1>9. Edits(DinnerIds, Dishes, dinners, dinners', w, nextDinner, 0)
  BY <1>5, <1>6, <1>8 DEF Edits, Tables
<1> QED  BY <1>7, <1>9 DEF EditsPlan

\* Deleting a plan removes its rows and no others.
LEMMA DeleteWeekEdits ==
    ASSUME IInv, NEW w \in WeekIds, DeleteWeek(w)
    PROVE  EditsPlan(w) /\ \A x \in DinnerIds : dinners'[x].week # w
<1>1. dinners \in [DinnerIds -> [week : Nat, day : Int, dish : Dishes]]
  BY DEF IInv, TypeOK, Dishes
<1>2. dinners' = [x \in DinnerIds |->
                    IF dinners[x].week = w THEN NoDinner ELSE dinners[x]]
  BY DEF DeleteWeek
<1>3. NoDinner \in [week : Nat, day : Int, dish : Dishes] /\ NoDinner.week = 0
  BY DEF NoDinner, Dishes
<1>4. w \in Nat \ {0}
  BY DinnerIdsFinite
<1>5. dinners' \in [DinnerIds -> [week : Nat, day : Int, dish : Dishes]]
  BY <1>1, <1>2, <1>3
<1>6. \A x \in DinnerIds :
        IF dinners[x].week = w THEN dinners'[x].week = 0
        ELSE dinners'[x] = dinners[x]
  BY <1>2, <1>3
<1>7. nextDinner' \in Nat /\ nextDinner' - nextDinner = 0
  BY DEF DeleteWeek, ids, IInv, TypeOK
<1>8. Edits(DinnerIds, Dishes, dinners, dinners', w, nextDinner, 0)
  BY <1>5, <1>6 DEF Edits, Tables
<1> QED  BY <1>4, <1>6, <1>7, <1>8 DEF EditsPlan

\* The dinner table after a step: well typed, its new rows numbered from the
\* sequence, its old rows in their plans or gone.
DinnersKept ==
    /\ dinners' \in [DinnerIds -> [week : Nat, day : Int, dish : Dishes]]
    /\ nextDinner' \in Nat /\ nextDinner <= nextDinner'
    /\ \A x \in DinnerIds : x >= nextDinner' => dinners'[x] = NoDinner
    /\ \A x \in DinnerIds :
         x < nextDinner => dinners'[x].week \in {0, dinners[x].week}

\* An edit of one plan (a handler's or a tool's writes to week_dinners) leaves
\* a well-typed table in which rows keep their plan.
LEMMA EditsKeepDinners ==
    ASSUME IInv, NEW w \in Nat \ {0}, EditsPlan(w)
    PROVE  DinnersKept
<1> DEFINE k == nextDinner' - nextDinner
<1>1. nextDinner \in Nat /\ nextDinner' \in Nat /\ k \in Nat
  BY DEF IInv, TypeOK, EditsPlan
<1>2. /\ dinners' \in Tables(DinnerIds, Dishes)
      /\ \A x \in DinnerIds : dinners[x].week = w => dinners'[x].week \in {0, w}
      /\ \A x \in DinnerIds : dinners[x].week # w =>
           dinners'[x] = dinners[x]
           \/ (nextDinner <= x /\ x < nextDinner + k /\ dinners'[x].week \in {0, w})
  BY DEF EditsPlan, Edits
<1>3. nextDinner + k = nextDinner' /\ nextDinner <= nextDinner'
  <2>1. \A a, b \in Nat : b - a \in Nat => a + (b - a) = b /\ a <= b
    OBVIOUS
  <2> QED  BY <1>1, <2>1
<1> HIDE DEF k
<1>4. ASSUME NEW x \in DinnerIds, x >= nextDinner'
      PROVE  dinners'[x] = NoDinner
  <2>1. x \in Int /\ x >= nextDinner
    BY <1>1, <1>3, <1>4, DinnerIdsFinite
  <2>2. dinners[x] = NoDinner
    BY <2>1 DEF IInv, TypeOK
  <2>3. dinners[x].week # w
    BY <2>2 DEF NoDinner
  <2>4. ~(x < nextDinner + k)
    BY <1>1, <1>3, <1>4, <2>1
  <2> QED  BY <1>2, <2>2, <2>3, <2>4
<1>5. ASSUME NEW x \in DinnerIds, x < nextDinner
      PROVE  dinners'[x].week \in {0, dinners[x].week}
  <2>1. x \in Int /\ ~(nextDinner <= x)
    BY <1>1, <1>5, DinnerIdsFinite
  <2> QED  BY <1>2, <2>1
<1> QED  BY <1>1, <1>3, <1>2, <1>4, <1>5 DEF DinnersKept, Tables

\* A step that does not write week_dinners keeps it that way.
LEMMA FrameKeepsDinners ==
    ASSUME IInv, UNCHANGED <<dinners, nextDinner>>
    PROVE  DinnersKept
  BY DinnerIdsFinite DEF IInv, TypeOK, DinnersKept, Dishes

\* delete_dinner removes one row; a row that is gone stays gone.
LEMMA DeleteDinnerKeepsDinners ==
    ASSUME IInv, NEW c \in Chats, DeleteDinner(c)
    PROVE  DinnersKept
<1> DEFINE x == pending[c].row
<1>1. x \in DinnerIds
  BY DEF DeleteDinner, IInv, PendingRows, DinnerOps, Procs
<1>2. dinners \in [DinnerIds -> [week : Nat, day : Int, dish : Dishes]]
  BY DEF IInv, TypeOK, Dishes
<1>3. dinners' = [dinners EXCEPT ![x] = NoDinner]
  BY DEF DeleteDinner
<1>4. NoDinner \in [week : Nat, day : Int, dish : Dishes] /\ NoDinner.week = 0
  BY DEF NoDinner, Dishes
<1>5. /\ nextDinner \in Nat /\ nextDinner' = nextDinner
      /\ \A y \in DinnerIds : y >= nextDinner => dinners[y] = NoDinner
  BY DEF DeleteDinner, ids, IInv, TypeOK
<1> HIDE DEF x
<1>6. \A y \in DinnerIds : dinners'[y] \in {dinners[y], NoDinner}
  BY <1>1, <1>2, <1>3
<1>7. dinners' \in [DinnerIds -> [week : Nat, day : Int, dish : Dishes]]
  BY <1>1, <1>2, <1>3, <1>4
<1> QED  BY <1>4, <1>5, <1>6, <1>7 DEF DinnersKept

\* The steps that leave the dinner table alone.
OtherSteps ==
    \/ UNCHANGED vars
    \/ \E s \in Days, e \in Days : CreateWeek(s, e)
    \/ \E x \in DinnerIds, r \in Ratings : SetDinnerRating(x, r)
    \/ \E x \in DinnerIds : ClearDinnerRating(x)
    \/ \E h \in Handlers :
         \/ \E w \in WeekIds : ReadPatch(h, w) \/ UpdateRetrospective(h, w)
         \/ \E w \in WeekIds, s \in Days \cup {NoDate} : BeginClone(h, w, s)
         \/ InsertRetrospective(h)
    \/ \E c \in Chats :
         \/ AgentCheck(c)
         \/ \E text \in Contents : AddException(c, text) \/ UpdateException(c, text)
         \/ DeleteException(c)
         \/ \E w \in 0..MaxWeek, s \in Days \cup {NoDate}, e \in Days \cup {NoDate},
               st \in Statuses \cup {"none"} : AgentUpdateWeek(c, w, s, e, st)
         \/ \E w \in 0..MaxWeek, R \in SUBSET DinnerIds :
              \E f \in [R -> Ratings] : RecordRetrospective(c, w, f)
    \/ \E p \in Procs : Abandon(p)

\* None of those handlers and tools writes week_dinners.
LEMMA OtherStepsLeaveDinners ==
    ASSUME OtherSteps
    PROVE  UNCHANGED <<dinners, nextDinner>>
<1>1. CASE UNCHANGED vars
  BY <1>1 DEF vars, rows, ids
<1>2. CASE \E s \in Days, e \in Days : CreateWeek(s, e)
  BY <1>2 DEF CreateWeek
<1>3. CASE \/ \E x \in DinnerIds, r \in Ratings : SetDinnerRating(x, r)
           \/ \E x \in DinnerIds : ClearDinnerRating(x)
  BY <1>3 DEF SetDinnerRating, ClearDinnerRating, ids
<1>4. ASSUME NEW h \in Handlers,
             \/ \E w \in WeekIds : ReadPatch(h, w) \/ UpdateRetrospective(h, w)
             \/ \E w \in WeekIds, s \in Days \cup {NoDate} : BeginClone(h, w, s)
             \/ InsertRetrospective(h)
      PROVE  UNCHANGED <<dinners, nextDinner>>
  BY <1>4 DEF ReadPatch, UpdateRetrospective, BeginClone, InsertRetrospective,
     rows, ids
<1>5. ASSUME NEW c \in Chats, AgentCheck(c)
      PROVE  UNCHANGED <<dinners, nextDinner>>
  BY <1>5 DEF AgentCheck, StartTurn, CheckAddDinner, CheckAddException,
     CheckDinner, CheckException, rows, ids
<1>6. ASSUME NEW c \in Chats, NEW text \in Contents,
             AddException(c, text) \/ UpdateException(c, text)
      PROVE  UNCHANGED <<dinners, nextDinner>>
  BY <1>6 DEF AddException, UpdateException, ids
<1>7. ASSUME NEW c \in Chats, DeleteException(c)
      PROVE  UNCHANGED <<dinners, nextDinner>>
  BY <1>7 DEF DeleteException, ids
<1>8. ASSUME NEW c \in Chats, NEW w \in 0..MaxWeek, NEW s \in Days \cup {NoDate},
             NEW e \in Days \cup {NoDate}, NEW st \in Statuses \cup {"none"},
             AgentUpdateWeek(c, w, s, e, st)
      PROVE  UNCHANGED <<dinners, nextDinner>>
  BY <1>8 DEF AgentUpdateWeek, ids
<1>9. ASSUME NEW c \in Chats, NEW w \in 0..MaxWeek, NEW R \in SUBSET DinnerIds,
             NEW f \in [R -> Ratings], RecordRetrospective(c, w, f)
      PROVE  UNCHANGED <<dinners, nextDinner>>
  BY <1>9 DEF RecordRetrospective, ids
<1>10. CASE \E p \in Procs : Abandon(p)
  BY <1>10 DEF Abandon, rows, ids
<1> QED
  BY <1>1, <1>2, <1>3, <1>4, <1>5, <1>6, <1>7, <1>8, <1>9, <1>10 DEF OtherSteps

\* Every step leaves a well-typed dinner table in which rows keep their plan.
LEMMA StepKeepsDinners ==
    ASSUME IInv, [Next]_vars
    PROVE  DinnersKept
<1>1. CASE OtherSteps
  BY <1>1, OtherStepsLeaveDinners, FrameKeepsDinners
<1>2. ASSUME NEW w \in WeekIds, DeleteWeek(w)
      PROVE  DinnersKept
  BY <1>2, DeleteWeekEdits, EditsKeepDinners, DinnerIdsFinite
<1>3. ASSUME NEW h \in Handlers, NEW s \in Days \cup {NoDate},
             NEW e \in Days \cup {NoDate}, NEW st \in Statuses \cup {"none"},
             CommitPatch(h, s, e, st)
      PROVE  DinnersKept
  BY <1>3, CommitPatchEdits, EditsKeepDinners, DinnerIdsFinite
<1>4. ASSUME NEW h \in Handlers, CommitClone(h)
      PROVE  DinnersKept
  BY <1>4, CommitCloneEdits, EditsKeepDinners, DinnerIdsFinite
<1>5. ASSUME NEW c \in Chats, NEW day \in Days, NEW dish \in Contents,
             AddDinner(c, day, dish)
      PROVE  DinnersKept
  BY <1>5, AddDinnerEdits, EditsKeepDinners, DinnerIdsFinite
<1>6. ASSUME NEW c \in Chats, NEW dish \in Contents, UpdateDinner(c, dish)
      PROVE  DinnersKept
  <2>1. pending[c].row \in DinnerIds
    BY <1>6 DEF UpdateDinner, IInv, PendingRows, DinnerOps, Procs
  <2>2. dinners[pending[c].row].week \in Nat \ {0}
    BY <1>6, <2>1 DEF UpdateDinner, IInv, TypeOK
  <2> QED  BY <1>6, <2>2, UpdateDinnerEdits, EditsKeepDinners
<1>7. ASSUME NEW c \in Chats, DeleteDinner(c)
      PROVE  DinnersKept
  BY <1>7, DeleteDinnerKeepsDinners
<1> QED
  BY <1>1, <1>2, <1>3, <1>4, <1>5, <1>6, <1>7
     DEF Next, HandlerStep, AgentWrite, OtherSteps

(***************************************************************************)
(* The other tables, one invariant each.                                   *)
(***************************************************************************)
Requests == [op : Ops, week : Nat, row : Nat, start : Int, end : Int]

WeeksOK ==
    /\ weeks \in [WeekIds -> [start : Int, end : Int, status : Statuses \cup {"none"}]]
    /\ nextWeek \in Nat \ {0}
    /\ \A w \in WeekIds : w >= nextWeek => weeks[w] = NoWeek
    /\ KnownStatuses

ExceptionsOK ==
    /\ exceptions \in [ExceptionIds -> [week : Nat, text : Contents \cup {NoContent}]]
    /\ nextException \in Nat \ {0}
    /\ \A x \in ExceptionIds : x >= nextException => exceptions[x] = NoException

NotesOK ==
    /\ rating \in [DinnerIds -> Ratings \cup {"none"}]
    /\ retros \in [WeekIds -> Nat]

PendingOK == pending \in [Procs -> Requests] /\ PendingRows

\* An id that was handed out stays handed out.
IdsGrow ==
    /\ nextWeek \in Nat /\ nextWeek' \in Nat /\ nextWeek <= nextWeek'
    /\ nextDinner \in Nat /\ nextDinner' \in Nat /\ nextDinner <= nextDinner'
    /\ nextException \in Nat /\ nextException' \in Nat
    /\ nextException <= nextException'

\* The invariant gives each table its own.
LEMMA IInvParts ==
    ASSUME IInv
    PROVE  WeeksOK /\ ExceptionsOK /\ NotesOK /\ PendingOK /\ bound \in [Chats -> Nat]
  BY DEF IInv, TypeOK, WeeksOK, ExceptionsOK, NotesOK, PendingOK, Requests

\* A statement that does not write weeks leaves its table as it was.
LEMMA WeeksFrame ==
    ASSUME WeeksOK, UNCHANGED <<weeks, nextWeek>>
    PROVE  WeeksOK'
  BY DEF WeeksOK, KnownStatuses

\* A statement that does not write week_exceptions leaves its table as it was.
LEMMA ExceptionsFrame ==
    ASSUME ExceptionsOK, UNCHANGED <<exceptions, nextException>>
    PROVE  ExceptionsOK'
  BY DEF ExceptionsOK

\* A statement that writes neither dish_ratings nor retrospectives leaves both
\* as they were.
LEMMA NotesFrame ==
    ASSUME NotesOK, UNCHANGED <<rating, retros>>
    PROVE  NotesOK'
  BY DEF NotesOK

\* The row of a plan that does not exist is typed.
LEMMA WeekEmpty == NoWeek \in [start : Int, end : Int, status : Statuses \cup {"none"}]
  BY DEF NoWeek

\* A new row under the next id keeps the table of plans typed.
LEMMA CreateWeekKeeps ==
    ASSUME WeeksOK, NEW s \in Int, NEW e \in Int,
           nextWeek \in WeekIds,
           weeks' = [weeks EXCEPT ![nextWeek] =
                       [start |-> s, end |-> e, status |-> "draft"]],
           nextWeek' = nextWeek + 1
    PROVE  WeeksOK'
  BY ConstantsAssumption, DinnerIdsFinite DEF WeeksOK, KnownStatuses

\* ... and when an existing plan's row is written.
LEMMA WriteWeekKeeps ==
    ASSUME WeeksOK, NEW w \in WeekIds, w < nextWeek,
           NEW row \in [start : Int, end : Int, status : Statuses] \cup {NoWeek},
           weeks' = [weeks EXCEPT ![w] = row], nextWeek' = nextWeek
    PROVE  WeeksOK'
<1>1. row \in [start : Int, end : Int, status : Statuses \cup {"none"}]
  BY WeekEmpty
<1>2. weeks' \in [WeekIds -> [start : Int, end : Int, status : Statuses \cup {"none"}]]
  BY <1>1 DEF WeeksOK
<1>3. \A v \in WeekIds : v >= nextWeek' => weeks'[v] = NoWeek
  BY DinnerIdsFinite DEF WeeksOK
<1>4. KnownStatuses'
  BY DEF WeeksOK, KnownStatuses
<1> QED  BY <1>2, <1>3, <1>4 DEF WeeksOK

\* What is in flight stays grounded while other processes take ids.
LEMMA PendingFrame ==
    ASSUME PendingOK, IdsGrow, UNCHANGED pending
    PROVE  PendingOK'
  BY DinnerIdsFinite DEF PendingOK, PendingRows, IdsGrow, Requests, WeekIds,
     DinnerIds, ExceptionIds

\* What a request may hold when it is put in flight.
Grounded(r) ==
    /\ r.op \in DinnerOps => r.row \in DinnerIds /\ r.row < nextDinner
    /\ r.op \in ExceptionOps => r.row \in ExceptionIds /\ r.row < nextException
    /\ r.op = "clone" =>
         /\ r.week \in WeekIds
         /\ r.row \in WeekIds /\ r.row < nextWeek

\* An id below the sequence stays below it: sequences never go back.
LEMMA GroundedGrows ==
    ASSUME IdsGrow, NEW r \in Requests, Grounded(r)
    PROVE  Grounded(r)'
  BY DEF IdsGrow, Requests, Grounded

\* The end of an operation, by its write or by its failure, leaves the others
\* in flight grounded.
LEMMA PendingFinish ==
    ASSUME PendingOK, IdsGrow, NEW p \in Procs, Finish(p)
    PROVE  PendingOK'
<1>1. Idle \in Requests /\ Grounded(Idle)'
  BY DEF Idle, Request, Requests, Ops, Grounded, DinnerOps, ExceptionOps
<1>2. \A q \in Procs : pending[q] \in Requests /\ Grounded(pending[q])
  BY DEF PendingOK, PendingRows, Grounded
<1>3. \A q \in Procs : pending'[q] \in {Idle, pending[q]}
  BY DEF Finish, PendingOK
<1>4. ASSUME NEW q \in Procs
      PROVE  /\ pending'[q].op \in DinnerOps =>
                  pending'[q].row \in DinnerIds /\ pending'[q].row < nextDinner'
             /\ pending'[q].op \in ExceptionOps =>
                  pending'[q].row \in ExceptionIds /\ pending'[q].row < nextException'
             /\ pending'[q].op = "clone" =>
                  /\ pending'[q].week \in WeekIds
                  /\ pending'[q].row \in WeekIds /\ pending'[q].row < nextWeek'
  <2>1. CASE pending'[q] = Idle
    BY <1>1, <2>1 DEF Grounded
  <2>2. CASE pending'[q] = pending[q]
    <3>1. PICK r \in Requests : r = pending[q]
      BY <1>2
    <3>2. Grounded(r)'
      BY <1>2, <3>1, GroundedGrows
    <3> QED  BY <2>2, <3>1, <3>2 DEF Grounded
  <2> QED  BY <1>3, <2>1, <2>2
<1>5. pending' \in [Procs -> Requests]
  BY <1>1 DEF Finish, PendingOK
<1> QED  BY <1>4, <1>5 DEF PendingOK, PendingRows

\* Putting a grounded request in flight keeps every request grounded.
LEMMA PendingBegin ==
    ASSUME PendingOK, IdsGrow, NEW p \in Procs, NEW r \in Requests,
           Grounded(r)', Begin(p, r)
    PROVE  PendingOK'
<1>1. pending' = [pending EXCEPT ![p] = r]
  BY DEF Begin
<1>2. pending' \in [Procs -> Requests]
  BY <1>1 DEF PendingOK
<1>3. ASSUME NEW q \in Procs
      PROVE  /\ pending'[q].op \in DinnerOps =>
                  pending'[q].row \in DinnerIds /\ pending'[q].row < nextDinner'
             /\ pending'[q].op \in ExceptionOps =>
                  pending'[q].row \in ExceptionIds /\ pending'[q].row < nextException'
             /\ pending'[q].op = "clone" =>
                  /\ pending'[q].week \in WeekIds
                  /\ pending'[q].row \in WeekIds /\ pending'[q].row < nextWeek'
  <2>1. CASE q = p
    <3>1. pending'[q] = r
      BY <1>1, <2>1 DEF PendingOK
    <3> QED  BY <3>1 DEF Grounded
  <2>2. CASE q # p
    <3>1. pending'[q] = pending[q]
      BY <1>1, <2>2 DEF PendingOK
    <3>2. PICK o \in Requests : o = pending[q]
      BY DEF PendingOK
    <3>3. Grounded(o)
      BY <3>2 DEF PendingOK, PendingRows, Grounded
    <3>4. Grounded(o)'
      BY <3>3, GroundedGrows
    <3> QED  BY <3>1, <3>2, <3>4 DEF Grounded
  <2> QED  BY <2>1, <2>2
<1> QED  BY <1>2, <1>3 DEF PendingOK, PendingRows

\* The state after a step, except what relates the tables to each other.
Kept ==
    /\ DinnersKept /\ IdsGrow
    /\ WeeksOK' /\ ExceptionsOK' /\ NotesOK' /\ PendingOK'
    /\ bound' \in [Chats -> Nat]

\* What the tables keep adds up to the type invariant.
LEMMA KeptIsTyped ==
    ASSUME IInv, Kept
    PROVE  TypeOK' /\ KnownStatuses' /\ PendingRows'
  BY DEF IInv, Kept, DinnersKept, IdsGrow, WeeksOK, ExceptionsOK, NotesOK, PendingOK,
     Requests, TypeOK, Dishes

\* A plan that exists has an id that was handed out.
LEMMA ExistingIsNumbered ==
    ASSUME WeeksOK, NEW w, Exists(w)
    PROVE  /\ w \in WeekIds /\ w < nextWeek
           /\ weeks[w].start \in Int /\ weeks[w].end \in Int
           /\ weeks[w].status \in Statuses
<1>1. w \in WeekIds /\ weeks[w] # NoWeek
  BY DEF Exists
<1>2. w \in Nat /\ nextWeek \in Nat
  BY <1>1, DinnerIdsFinite DEF WeeksOK
<1>3. w < nextWeek
  BY <1>1, <1>2 DEF WeeksOK
<1> QED  BY <1>1, <1>3 DEF WeeksOK, KnownStatuses

\* The steps that change no table and take no id.
LEMMA QuietTables ==
    ASSUME IInv, DinnersKept, UNCHANGED rows, UNCHANGED ids
    PROVE  IdsGrow /\ WeeksOK' /\ ExceptionsOK' /\ NotesOK'
<1>1. UNCHANGED <<weeks, dinners, rating, exceptions, retros,
                  nextWeek, nextDinner, nextException>>
  BY DEF rows, ids
<1>2. WeeksOK /\ ExceptionsOK /\ NotesOK
  BY IInvParts
<1>3. IdsGrow
  BY <1>1, <1>2 DEF IdsGrow, DinnersKept, WeeksOK, ExceptionsOK, IInv, TypeOK
<1> QED  BY <1>1, <1>2, <1>3, WeeksFrame, ExceptionsFrame, NotesFrame

\* A step of something else than the server keeps everything.
LEMMA StutterKeeps ==
    ASSUME IInv, DinnersKept, UNCHANGED vars
    PROVE  Kept
<1>1. UNCHANGED rows /\ UNCHANGED ids /\ UNCHANGED bound /\ UNCHANGED pending
  BY DEF vars
<1> QED  BY <1>1, QuietTables, IInvParts, PendingFrame DEF Kept

\* An operation that fails, is cancelled or dies with the server is rolled
\* back and keeps everything.
LEMMA AbandonKeeps ==
    ASSUME IInv, DinnersKept, NEW p \in Procs, Abandon(p)
    PROVE  Kept
<1>1. UNCHANGED rows /\ UNCHANGED ids /\ UNCHANGED bound /\ Finish(p)
  BY DEF Abandon
<1> QED  BY <1>1, QuietTables, IInvParts, PendingFinish DEF Kept

\* A handler's read or a tool's check writes no table.
LEMMA BeginKeeps ==
    ASSUME IInv, DinnersKept, NEW p \in Procs, NEW r \in Requests,
           Grounded(r), Begin(p, r), UNCHANGED <<rows, ids, bound>>
    PROVE  Kept
<1>1. UNCHANGED rows /\ UNCHANGED ids /\ UNCHANGED bound
  OBVIOUS
<1>2. IdsGrow /\ PendingOK
  BY <1>1, QuietTables, IInvParts
<1>3. Grounded(r)'
  BY <1>2, GroundedGrows
<1>4. PendingOK'
  BY <1>2, <1>3, PendingBegin
<1> QED  BY <1>1, <1>4, QuietTables, IInvParts DEF Kept

\* A turn that starts writes no table (chat.go handleChat, wkctx.go WithWeekID).
LEMMA StartTurnKeeps ==
    ASSUME IInv, DinnersKept, NEW c \in Chats, NEW w \in 0..MaxWeek, StartTurn(c, w)
    PROVE  Kept
<1>1. UNCHANGED rows /\ UNCHANGED ids /\ UNCHANGED pending
      /\ bound' = [bound EXCEPT ![c] = w]
  BY DEF StartTurn
<1>2. w \in Nat
  BY ConstantsAssumption
<1>3. bound' \in [Chats -> Nat]
  BY <1>1, <1>2, IInvParts
<1> QED  BY <1>1, <1>3, QuietTables, IInvParts, PendingFrame DEF Kept

\* The reads of the handlers and the checks of the tools put a request in
\* flight that names rows which were there.
LEMMA ReadPatchKeeps ==
    ASSUME IInv, DinnersKept, NEW h \in Handlers, NEW w \in WeekIds, ReadPatch(h, w)
    PROVE  Kept
<1> DEFINE r == [op |-> "patch", week |-> w, row |-> 0,
                 start |-> weeks[w].start, end |-> weeks[w].end]
<1>1. Begin(h, r) /\ UNCHANGED <<rows, ids, bound>> /\ h \in Procs
  BY DEF ReadPatch, Procs
<1>2. weeks[w].start \in Int /\ weeks[w].end \in Int
  BY IInvParts, ExistingIsNumbered DEF ReadPatch
<1>3. r \in Requests /\ Grounded(r)
  BY <1>2, DinnerIdsFinite DEF Requests, Ops, Grounded, DinnerOps, ExceptionOps
<1> HIDE DEF r
<1> QED  BY <1>1, <1>3, BeginKeeps

\* The UPDATE of store/retrospectives.go that finds no row keeps every table.
LEMMA UpdateRetrospectiveKeeps ==
    ASSUME IInv, DinnersKept, NEW h \in Handlers, NEW w \in WeekIds,
           UpdateRetrospective(h, w)
    PROVE  Kept
<1> DEFINE r == Request("put_retro", w, 0)
<1>1. r \in Requests /\ Grounded(r) /\ h \in Procs
  BY DinnerIdsFinite DEF Request, Requests, Grounded, Ops, DinnerOps,
     ExceptionOps, Procs
<1>2. Begin(h, r) /\ UNCHANGED <<rows, ids, bound>>
  BY DEF UpdateRetrospective
<1> HIDE DEF r
<1> QED  BY <1>1, <1>2, BeginKeeps

\* The plan a write tool resolves to is a number.
LEMMA ResolveTyped ==
    ASSUME IInv, NEW c \in Chats, NEW provided \in 0..MaxWeek
    PROVE  ResolvePlan(c, provided) \in Nat
  BY ConstantsAssumption, IInvParts DEF ResolvePlan

\* The checks of add_dinner and add_exception (tools.go) keep every table.
LEMMA CheckAddKeeps ==
    ASSUME IInv, DinnersKept, NEW c \in Chats, NEW w \in 0..MaxWeek,
           CheckAddDinner(c, w) \/ CheckAddException(c, w)
    PROVE  Kept
<1> DEFINE r(op) == Request(op, ResolvePlan(c, w), 0)
<1>1. ResolvePlan(c, w) \in Nat /\ c \in Procs
  BY ResolveTyped DEF Procs
<1>2. CASE CheckAddDinner(c, w)
  <2>1. r("add_dinner") \in Requests /\ Grounded(r("add_dinner"))
    BY <1>1 DEF Request, Requests, Grounded, Ops, DinnerOps, ExceptionOps
  <2>2. Begin(c, r("add_dinner")) /\ UNCHANGED <<rows, ids, bound>>
    BY <1>2 DEF CheckAddDinner
  <2> HIDE DEF r
  <2> QED  BY <1>1, <2>1, <2>2, BeginKeeps
<1>3. CASE CheckAddException(c, w)
  <2>1. r("add_exception") \in Requests /\ Grounded(r("add_exception"))
    BY <1>1 DEF Request, Requests, Grounded, Ops, DinnerOps, ExceptionOps
  <2>2. Begin(c, r("add_exception")) /\ UNCHANGED <<rows, ids, bound>>
    BY <1>3 DEF CheckAddException
  <2> HIDE DEF r
  <2> QED  BY <1>1, <2>1, <2>2, BeginKeeps
<1> QED  BY <1>2, <1>3

\* The checks of update_dinner and delete_dinner (wkctx.go
\* EnsureDinnerEditable) name a dinner that was numbered.
LEMMA CheckDinnerKeeps ==
    ASSUME IInv, DinnersKept, NEW c \in Chats, NEW op \in DinnerOps,
           NEW x \in DinnerIds, CheckDinner(c, op, x)
    PROVE  Kept
<1> DEFINE r == Request(op, 0, x)
<1>1. Begin(c, r) /\ UNCHANGED <<rows, ids, bound>> /\ c \in Procs
  BY DEF CheckDinner, Procs
<1>2. x \in Nat /\ nextDinner \in Nat
  BY ConstantsAssumption DEF DinnerIds, IInv, TypeOK
<1>3. x < nextDinner
  <2>1. dinners[x] # NoDinner
    BY DEF CheckDinner, NoDinner
  <2> QED  BY <1>2, <2>1 DEF IInv, TypeOK
<1>4. r \in Requests /\ Grounded(r)
  BY <1>2, <1>3 DEF Request, Requests, Grounded, Ops, DinnerOps, ExceptionOps
<1> HIDE DEF r
<1> QED  BY <1>1, <1>4, BeginKeeps

\* The checks of update_exception and delete_exception (wkctx.go
\* ensureExceptionEditable) name an exception that was numbered.
LEMMA CheckExceptionKeeps ==
    ASSUME IInv, DinnersKept, NEW c \in Chats, NEW op \in ExceptionOps,
           NEW x \in ExceptionIds, CheckException(c, op, x)
    PROVE  Kept
<1> DEFINE r == Request(op, 0, x)
<1>1. Begin(c, r) /\ UNCHANGED <<rows, ids, bound>> /\ c \in Procs
  BY DEF CheckException, Procs
<1>2. x \in Nat /\ nextException \in Nat
  BY ConstantsAssumption DEF ExceptionIds, IInv, TypeOK
<1>3. x < nextException
  <2>1. exceptions[x] # NoException
    BY DEF CheckException, NoException
  <2> QED  BY <1>2, <2>1 DEF IInv, TypeOK
<1>4. r \in Requests /\ Grounded(r)
  BY <1>2, <1>3 DEF Request, Requests, Grounded, Ops, DinnerOps, ExceptionOps
<1> HIDE DEF r
<1> QED  BY <1>1, <1>4, BeginKeeps

\* The steps that write.
LEMMA IdsFrame ==
    ASSUME IInv, DinnersKept,
           nextWeek' = nextWeek \/ nextWeek' = nextWeek + 1,
           nextException' = nextException \/ nextException' = nextException + 1
    PROVE  IdsGrow
<1>1. nextWeek \in Nat /\ nextException \in Nat /\ nextDinner \in Nat
  BY DEF IInv, TypeOK
<1>2. nextDinner' \in Nat /\ nextDinner <= nextDinner'
  BY DEF DinnersKept
<1> QED  BY <1>1, <1>2 DEF IdsGrow

\* The dates a request can name are integers.
LEMMA DatesTyped ==
    /\ Days \subseteq Int /\ NoDate \in Int
    /\ Statuses \subseteq Statuses \cup {"none"}
  BY ConstantsAssumption DEF NoDate

\* Creating a plan (weeks.go handleCreateWeek, tools.go createWeekTool) writes
\* one typed row under a fresh id.
LEMMA CreateWeekStepKeeps ==
    ASSUME IInv, DinnersKept, NEW s \in Days, NEW e \in Days, CreateWeek(s, e)
    PROVE  Kept
<1>1. /\ UNCHANGED <<rating, retros>> /\ UNCHANGED <<exceptions, nextException>>
      /\ UNCHANGED bound /\ UNCHANGED pending
      /\ nextWeek' = nextWeek + 1
  BY DEF CreateWeek
<1>2. IdsGrow
  BY <1>1, IdsFrame
<1>3. s \in Int /\ e \in Int
  BY DatesTyped
<1>4. nextWeek \in WeekIds
  BY IInvParts, ConstantsAssumption DEF CreateWeek, WeeksOK, WeekIds
<1>5. WeeksOK'
  BY <1>1, <1>3, <1>4, IInvParts, CreateWeekKeeps DEF CreateWeek
<1> QED
  BY <1>1, <1>2, <1>5, IInvParts, ExceptionsFrame, NotesFrame, PendingFrame DEF Kept

\* The id a clone takes for its copy (weeks.go handleCloneWeek) is fresh, and
\* stays its own.
LEMMA BeginCloneKeeps ==
    ASSUME IInv, DinnersKept, NEW h \in Handlers, NEW v \in WeekIds,
           NEW s \in Days \cup {NoDate}, BeginClone(h, v, s)
    PROVE  Kept
<1> DEFINE start == IF s # NoDate THEN s ELSE weeks[v].start + 7
           r == [op |-> "clone", week |-> v, row |-> nextWeek, start |-> start,
                 end |-> start + (weeks[v].end - weeks[v].start)]
<1>1. /\ UNCHANGED <<rating, retros>> /\ UNCHANGED <<exceptions, nextException>>
      /\ UNCHANGED bound /\ UNCHANGED weeks
      /\ nextWeek' = nextWeek + 1 /\ nextWeek <= MaxWeek /\ Begin(h, r)
  BY DEF BeginClone, rows
<1>2. IdsGrow
  BY <1>1, IdsFrame
<1>3. weeks[v].start \in Int /\ weeks[v].end \in Int
  BY IInvParts, ExistingIsNumbered DEF BeginClone
<1>4. start \in Int /\ v \in Nat /\ h \in Procs
  BY <1>3, DatesTyped, DinnerIdsFinite DEF Procs
<1>5. nextWeek \in Nat \ {0} /\ nextWeek \in WeekIds
  BY <1>1, IInvParts, ConstantsAssumption DEF WeeksOK, WeekIds
<1>6. r \in Requests
  BY <1>3, <1>4, <1>5 DEF Requests, Ops
<1>7. PICK q \in Requests : q = r
  BY <1>6
<1>8. PendingOK'
  <2>1. q.op = "clone" /\ q.row = nextWeek /\ q.week = v
    BY <1>7
  <2>2. nextWeek < nextWeek'
    BY <1>1, <1>5
  <2>3. Grounded(q)'
    BY <1>5, <2>1, <2>2 DEF Grounded, DinnerOps, ExceptionOps
  <2>4. Begin(h, q)
    BY <1>1, <1>7
  <2> QED  BY <1>2, <1>4, <2>3, <2>4, IInvParts, PendingBegin
<1> HIDE DEF r, start
<1>9. WeeksOK'
  <2>1. \A w \in WeekIds : w >= nextWeek' => w >= nextWeek
    BY <1>1, <1>5, DinnerIdsFinite
  <2> QED  BY <1>1, <1>5, <2>1, IInvParts DEF WeeksOK, KnownStatuses
<1> QED
  BY <1>1, <1>2, <1>8, <1>9, IInvParts, ExceptionsFrame, NotesFrame DEF Kept

\* The cascade takes ratings away and adds none.
LEMMA CascadeKeepsNotes ==
    ASSUME NotesOK, CascadeRatings, retros' \in [WeekIds -> Nat]
    PROVE  NotesOK'
  BY DEF NotesOK, CascadeRatings

\* Deleting a plan with its cascades (weeks.go handleDeleteWeek) leaves typed
\* tables.
LEMMA DeleteWeekKeeps ==
    ASSUME IInv, DinnersKept, NEW w \in WeekIds, DeleteWeek(w)
    PROVE  Kept
<1>1. /\ UNCHANGED ids /\ UNCHANGED bound /\ UNCHANGED pending
      /\ nextWeek' = nextWeek /\ nextException' = nextException
      /\ weeks' = [weeks EXCEPT ![w] = NoWeek] /\ CascadeRatings
      /\ retros' = [retros EXCEPT ![w] = 0]
  BY DEF DeleteWeek, ids
<1>2. IdsGrow
  BY <1>1, IdsFrame
<1>3. w < nextWeek
  BY IInvParts, ExistingIsNumbered DEF DeleteWeek
<1>4. WeeksOK'
  BY <1>1, <1>3, IInvParts, WriteWeekKeeps
<1>5. retros' \in [WeekIds -> Nat]
  BY <1>1, IInvParts DEF NotesOK
<1>6. NotesOK'
  BY <1>1, <1>5, IInvParts, CascadeKeepsNotes
<1>7. ExceptionsOK'
  BY <1>1, IInvParts DEF DeleteWeek, ExceptionsOK, NoException
<1> QED
  BY <1>1, <1>2, <1>4, <1>6, <1>7, IInvParts, PendingFrame DEF Kept

\* The commit of a PATCH (weeks.go handlePatchWeek) leaves typed tables.
LEMMA CommitPatchKeeps ==
    ASSUME IInv, DinnersKept, NEW h \in Handlers, NEW s \in Days \cup {NoDate},
           NEW e \in Days \cup {NoDate}, NEW st \in Statuses \cup {"none"},
           CommitPatch(h, s, e, st)
    PROVE  Kept
<1> DEFINE w == pending[h].week
           p == PatchDates(pending[h], s, e)
           row == [start  |-> IF s # NoDate THEN s ELSE weeks[w].start,
                   end    |-> IF p.endSet THEN p.end ELSE weeks[w].end,
                   status |-> IF st # "none" THEN st ELSE weeks[w].status]
<1>1. /\ UNCHANGED retros /\ UNCHANGED <<exceptions, nextException>>
      /\ UNCHANGED bound /\ nextWeek' = nextWeek /\ Finish(h)
      /\ CascadeRatings /\ weeks' = [weeks EXCEPT ![w] = row] /\ Exists(w)
  BY DEF CommitPatch
<1>2. IdsGrow
  BY <1>1, IdsFrame
<1>3. pending[h].start \in Int /\ pending[h].end \in Int /\ h \in Procs
  BY DEF IInv, TypeOK, Procs
<1>4. s \in Int /\ e \in Int
  BY DatesTyped
<1>5. p.end \in Int
  BY <1>3, <1>4 DEF PatchDates
<1>6. /\ w \in WeekIds /\ w < nextWeek
      /\ weeks[w].start \in Int /\ weeks[w].end \in Int /\ weeks[w].status \in Statuses
  BY <1>1, IInvParts, ExistingIsNumbered
<1> HIDE DEF w, p
<1>7. row \in [start : Int, end : Int, status : Statuses]
  BY <1>4, <1>5, <1>6
<1> HIDE DEF row
<1>8. WeeksOK'
  BY <1>1, <1>6, <1>7, IInvParts, WriteWeekKeeps
<1>9. NotesOK'
  BY <1>1, IInvParts, CascadeKeepsNotes DEF NotesOK
<1>10. PendingOK'
  BY <1>1, <1>2, <1>3, IInvParts, PendingFinish
<1> QED  BY <1>1, <1>2, <1>8, <1>9, <1>10, IInvParts, ExceptionsFrame DEF Kept

\* The commit of a clone (weeks.go handleCloneWeek) leaves typed tables.
LEMMA CommitCloneKeeps ==
    ASSUME IInv, DinnersKept, NEW h \in Handlers, CommitClone(h)
    PROVE  Kept
<1> DEFINE w == pending[h].row
           row == [start |-> pending[h].start, end |-> pending[h].end,
                   status |-> "draft"]
<1>1. /\ UNCHANGED <<rating, retros>> /\ UNCHANGED <<exceptions, nextException>>
      /\ UNCHANGED bound /\ nextWeek' = nextWeek /\ Finish(h)
      /\ weeks' = [weeks EXCEPT ![w] = row]
  BY DEF CommitClone
<1>2. IdsGrow
  BY <1>1, IdsFrame
<1>3. pending[h].start \in Int /\ pending[h].end \in Int /\ h \in Procs
  BY DEF IInv, TypeOK, Procs
<1>4. w \in WeekIds /\ w < nextWeek
  BY DEF CommitClone, IInv, PendingRows, Procs
<1>5. row \in [start : Int, end : Int, status : Statuses]
  BY <1>3, ConstantsAssumption
<1> HIDE DEF w, row
<1>6. WeeksOK'
  BY <1>1, <1>4, <1>5, IInvParts, WriteWeekKeeps
<1>7. PendingOK'
  BY <1>1, <1>2, <1>3, IInvParts, PendingFinish
<1> QED
  BY <1>1, <1>2, <1>6, <1>7, IInvParts, ExceptionsFrame, NotesFrame DEF Kept

\* A chat's writes to the dinner table leave the other tables to the cascade.
LEMMA DinnerToolsKeep ==
    ASSUME IInv, DinnersKept, NEW c \in Chats,
           \/ \E day \in Days, dish \in Contents : AddDinner(c, day, dish)
           \/ \E dish \in Contents : UpdateDinner(c, dish)
           \/ DeleteDinner(c)
    PROVE  Kept
<1>1. /\ UNCHANGED <<weeks, nextWeek>> /\ UNCHANGED <<exceptions, nextException>>
      /\ UNCHANGED retros /\ UNCHANGED bound /\ Finish(c)
      /\ nextWeek' = nextWeek /\ nextException' = nextException
      /\ UNCHANGED rating \/ CascadeRatings
  BY DEF AddDinner, UpdateDinner, DeleteDinner, ids
<1>2. IdsGrow
  BY <1>1, IdsFrame
<1>3. NotesOK'
  <2>1. CASE UNCHANGED rating
    BY <1>1, <2>1, IInvParts, NotesFrame
  <2>2. CASE CascadeRatings
    BY <1>1, <2>2, IInvParts, CascadeKeepsNotes DEF NotesOK
  <2> QED  BY <1>1, <2>1, <2>2
<1>4. PendingOK'
  BY <1>1, <1>2, IInvParts, PendingFinish DEF Procs
<1> QED
  BY <1>1, <1>2, <1>3, <1>4, IInvParts, WeeksFrame, ExceptionsFrame DEF Kept

\* Rating a dinner or clearing its rating (server/dinners.go) leaves typed
\* tables.
LEMMA RatingHandlersKeep ==
    ASSUME IInv, DinnersKept,
           \/ \E x \in DinnerIds, r \in Ratings : SetDinnerRating(x, r)
           \/ \E x \in DinnerIds : ClearDinnerRating(x)
    PROVE  Kept
<1>1. /\ UNCHANGED <<weeks, nextWeek>> /\ UNCHANGED <<exceptions, nextException>>
      /\ UNCHANGED retros /\ UNCHANGED bound /\ UNCHANGED pending
      /\ nextWeek' = nextWeek /\ nextException' = nextException
  BY DEF SetDinnerRating, ClearDinnerRating, ids
<1>2. IdsGrow
  BY <1>1, IdsFrame
<1>3. NotesOK'
  BY <1>1, IInvParts DEF NotesOK, SetDinnerRating, ClearDinnerRating
<1> QED
  BY <1>1, <1>2, <1>3, IInvParts, WeeksFrame, ExceptionsFrame, PendingFrame DEF Kept

\* The INSERT of store/retrospectives.go leaves typed tables.
LEMMA InsertRetrospectiveKeeps ==
    ASSUME IInv, DinnersKept, NEW h \in Handlers, InsertRetrospective(h)
    PROVE  Kept
<1>1. /\ UNCHANGED <<weeks, nextWeek>> /\ UNCHANGED <<exceptions, nextException>>
      /\ UNCHANGED rating /\ UNCHANGED bound /\ Finish(h)
      /\ nextWeek' = nextWeek /\ nextException' = nextException
  BY DEF InsertRetrospective, ids
<1>2. IdsGrow
  BY <1>1, IdsFrame
<1>3. NotesOK'
  BY <1>1, IInvParts DEF NotesOK, InsertRetrospective, Exists
<1>4. PendingOK'
  BY <1>1, <1>2, IInvParts, PendingFinish DEF Procs
<1> QED
  BY <1>1, <1>2, <1>3, <1>4, IInvParts, WeeksFrame, ExceptionsFrame DEF Kept

\* An exception keeps its plan for life.
ExceptionRowsKept ==
    \A x \in ExceptionIds :
      x < nextException => exceptions'[x].week \in {0, exceptions[x].week}

\* add_exception (tools.go addExceptionTool) adds one exception under a fresh
\* id.
LEMMA AddExceptionTable ==
    ASSUME IInv, NEW c \in Chats, NEW text \in Contents, AddException(c, text)
    PROVE  ExceptionsOK' /\ ExceptionRowsKept /\ nextException' = nextException + 1
<1> DEFINE row == [week |-> pending[c].week, text |-> text]
<1>1. row \in [week : Nat, text : Contents \cup {NoContent}]
  BY IInvParts DEF PendingOK, Requests, Procs
<1>2. /\ exceptions' = [exceptions EXCEPT ![nextException] = row]
      /\ nextException' = nextException + 1
  BY DEF AddException
<1> HIDE DEF row
<1>3. /\ exceptions \in [ExceptionIds -> [week : Nat, text : Contents \cup {NoContent}]]
      /\ nextException \in Nat \ {0}
      /\ \A x \in ExceptionIds : x >= nextException => exceptions[x] = NoException
  BY IInvParts DEF ExceptionsOK
<1>4. \A x \in ExceptionIds : x \in Nat
  BY ConstantsAssumption DEF ExceptionIds
<1>5. exceptions' \in [ExceptionIds -> [week : Nat, text : Contents \cup {NoContent}]]
  BY <1>1, <1>2, <1>3
<1>6. \A x \in ExceptionIds : x # nextException => exceptions'[x] = exceptions[x]
  BY <1>2, <1>3
<1>7. \A x \in ExceptionIds : x >= nextException' => exceptions'[x] = NoException
  BY <1>2, <1>3, <1>4, <1>6
<1>8. ExceptionRowsKept
  BY <1>3, <1>4, <1>6 DEF ExceptionRowsKept
<1> QED  BY <1>2, <1>3, <1>5, <1>7, <1>8 DEF ExceptionsOK

\* update_exception and delete_exception (tools.go) neither move an exception
\* nor bring one back.
LEMMA EditExceptionTable ==
    ASSUME IInv, NEW c \in Chats, NEW text,
           (text \in Contents /\ UpdateException(c, text)) \/ DeleteException(c)
    PROVE  ExceptionsOK' /\ ExceptionRowsKept /\ nextException' = nextException
<1> DEFINE y == pending[c].row
           new == IF exceptions[y].week = 0 THEN exceptions[y].text ELSE text
<1>1. y \in ExceptionIds /\ nextException' = nextException
  BY DEF UpdateException, DeleteException, IInv, PendingRows, ExceptionOps, Procs, ids
<1>2. \/ exceptions' = [exceptions EXCEPT ![y] = NoException]
      \/ /\ exceptions' = [exceptions EXCEPT ![y] = [exceptions[y] EXCEPT !.text = new]]
         /\ text \in Contents
  BY DEF UpdateException, DeleteException
<1>3. /\ exceptions \in [ExceptionIds -> [week : Nat, text : Contents \cup {NoContent}]]
      /\ nextException \in Nat \ {0}
      /\ \A x \in ExceptionIds : x >= nextException => exceptions[x] = NoException
  BY IInvParts DEF ExceptionsOK
<1>4. y < nextException
  BY DEF UpdateException, DeleteException, IInv, PendingRows, ExceptionOps, Procs
<1>5. text \in Contents => new \in Contents \cup {NoContent}
  BY <1>1, <1>3
<1>6. NoException \in [week : Nat, text : Contents \cup {NoContent}] /\ NoException.week = 0
  BY DEF NoException
<1> HIDE DEF y, new
<1>7. exceptions' \in [ExceptionIds -> [week : Nat, text : Contents \cup {NoContent}]]
  BY <1>1, <1>2, <1>3, <1>5, <1>6
<1>8. \A x \in ExceptionIds :
        /\ x # y => exceptions'[x] = exceptions[x]
        /\ exceptions'[x].week \in {0, exceptions[x].week}
  BY <1>1, <1>2, <1>3, <1>5, <1>6
<1>9. \A x \in ExceptionIds : x >= nextException => x # y
  BY <1>3, <1>4, ConstantsAssumption DEF ExceptionIds
<1>10. \A x \in ExceptionIds : x >= nextException' => exceptions'[x] = NoException
  BY <1>1, <1>3, <1>8, <1>9
<1> QED  BY <1>1, <1>3, <1>7, <1>8, <1>10 DEF ExceptionsOK, ExceptionRowsKept

\* The exception tools (tools.go) leave typed tables.
LEMMA ExceptionToolsKeep ==
    ASSUME IInv, DinnersKept, NEW c \in Chats, NEW text,
           \/ text \in Contents /\ (AddException(c, text) \/ UpdateException(c, text))
           \/ DeleteException(c)
    PROVE  Kept
<1>1. /\ UNCHANGED <<weeks, nextWeek>> /\ UNCHANGED <<rating, retros>>
      /\ UNCHANGED bound /\ Finish(c) /\ nextWeek' = nextWeek
  BY DEF AddException, UpdateException, DeleteException, ids
<1>2. /\ ExceptionsOK'
      /\ nextException' = nextException \/ nextException' = nextException + 1
  BY AddExceptionTable, EditExceptionTable
<1>3. IdsGrow
  BY <1>1, <1>2, IdsFrame
<1>4. PendingOK'
  BY <1>1, <1>3, IInvParts, PendingFinish DEF Procs
<1> QED
  BY <1>1, <1>2, <1>3, <1>4, IInvParts, WeeksFrame, NotesFrame DEF Kept

\* update_week (tools.go updateWeekTool) writes one typed row of a plan that
\* exists.
LEMMA AgentUpdateWeekKeeps ==
    ASSUME IInv, DinnersKept, NEW c \in Chats, NEW provided \in 0..MaxWeek,
           NEW s \in Days \cup {NoDate}, NEW e \in Days \cup {NoDate},
           NEW st \in Statuses \cup {"none"}, AgentUpdateWeek(c, provided, s, e, st)
    PROVE  Kept
<1> DEFINE w == ResolvePlan(c, provided)
           row == [start  |-> IF s # NoDate THEN s ELSE weeks[w].start,
                   end    |-> IF e # NoDate THEN e ELSE weeks[w].end,
                   status |-> IF st # "none" THEN st ELSE weeks[w].status]
<1>1. /\ UNCHANGED <<rating, retros>> /\ UNCHANGED <<exceptions, nextException>>
      /\ UNCHANGED bound /\ UNCHANGED pending
      /\ nextWeek' = nextWeek /\ nextException' = nextException
      /\ weeks' = [weeks EXCEPT ![w] = row] /\ Exists(w)
  BY DEF AgentUpdateWeek, ids
<1>2. IdsGrow
  BY <1>1, IdsFrame
<1>3. /\ w \in WeekIds /\ w < nextWeek
      /\ weeks[w].start \in Int /\ weeks[w].end \in Int /\ weeks[w].status \in Statuses
  BY <1>1, IInvParts, ExistingIsNumbered
<1>4. s \in Int /\ e \in Int
  BY DatesTyped
<1> HIDE DEF w
<1>5. row \in [start : Int, end : Int, status : Statuses]
  BY <1>3, <1>4
<1> HIDE DEF row
<1>6. WeeksOK'
  BY <1>1, <1>3, <1>5, IInvParts, WriteWeekKeeps
<1> QED
  BY <1>1, <1>2, <1>6, IInvParts, ExceptionsFrame, NotesFrame, PendingFrame DEF Kept

\* record_retrospective (tools.go recordRetrospectiveTool) leaves typed tables.
LEMMA RecordRetrospectiveKeeps ==
    ASSUME IInv, DinnersKept, NEW c \in Chats, NEW provided \in 0..MaxWeek,
           NEW R \in SUBSET DinnerIds, NEW f \in [R -> Ratings],
           RecordRetrospective(c, provided, f)
    PROVE  Kept
<1> DEFINE w == ResolvePlan(c, provided)
<1>1. /\ UNCHANGED <<weeks, nextWeek>> /\ UNCHANGED <<exceptions, nextException>>
      /\ UNCHANGED bound /\ UNCHANGED pending
      /\ nextWeek' = nextWeek /\ nextException' = nextException
      /\ retros' = [retros EXCEPT ![w] = @ + 1] /\ w \in WeekIds
      /\ rating' = [x \in DinnerIds |-> IF x \in R THEN f[x] ELSE rating[x]]
  BY DEF RecordRetrospective, ids, Exists
<1>2. IdsGrow
  BY <1>1, IdsFrame
<1> HIDE DEF w
<1>3. NotesOK'
  BY <1>1, IInvParts DEF NotesOK
<1> QED
  BY <1>1, <1>2, <1>3, IInvParts, WeeksFrame, ExceptionsFrame, PendingFrame DEF Kept

\* Every step keeps every table typed and every request grounded.
LEMMA StepKeeps ==
    ASSUME IInv, [Next]_vars
    PROVE  Kept
<1>1. DinnersKept
  BY StepKeepsDinners
<1>2. CASE UNCHANGED vars
  BY <1>1, <1>2, StutterKeeps
<1>3. ASSUME NEW s \in Days, NEW e \in Days, CreateWeek(s, e)
      PROVE  Kept
  BY <1>1, <1>3, CreateWeekStepKeeps
<1>4. ASSUME NEW w \in WeekIds, DeleteWeek(w)
      PROVE  Kept
  BY <1>1, <1>4, DeleteWeekKeeps
<1>5. CASE \/ \E x \in DinnerIds, r \in Ratings : SetDinnerRating(x, r)
           \/ \E x \in DinnerIds : ClearDinnerRating(x)
  BY <1>1, <1>5, RatingHandlersKeep
<1>6. ASSUME NEW h \in Handlers, HandlerStep(h)
      PROVE  Kept
  BY <1>1, <1>6, ReadPatchKeeps, UpdateRetrospectiveKeeps, BeginCloneKeeps,
     CommitPatchKeeps, CommitCloneKeeps, InsertRetrospectiveKeeps DEF HandlerStep
<1>7. ASSUME NEW c \in Chats, AgentCheck(c)
      PROVE  Kept
  BY <1>1, <1>7, StartTurnKeeps, CheckAddKeeps, CheckDinnerKeeps,
     CheckExceptionKeeps DEF AgentCheck
<1>8. ASSUME NEW c \in Chats, AgentWrite(c)
      PROVE  Kept
  <2>1. CASE \/ \E day \in Days, dish \in Contents : AddDinner(c, day, dish)
             \/ \E dish \in Contents : UpdateDinner(c, dish)
             \/ DeleteDinner(c)
    BY <1>1, <2>1, DinnerToolsKeep
  <2>2. CASE \/ \E text \in Contents : AddException(c, text) \/ UpdateException(c, text)
             \/ DeleteException(c)
    BY <1>1, <2>2, ExceptionToolsKeep
  <2>3. CASE \/ \E w \in 0..MaxWeek, s \in Days \cup {NoDate},
                   e \in Days \cup {NoDate}, st \in Statuses \cup {"none"} :
                   AgentUpdateWeek(c, w, s, e, st)
             \/ \E w \in 0..MaxWeek, R \in SUBSET DinnerIds :
                  \E f \in [R -> Ratings] : RecordRetrospective(c, w, f)
    BY <1>1, <2>3, AgentUpdateWeekKeeps, RecordRetrospectiveKeeps
  <2> QED  BY <1>8, <2>1, <2>2, <2>3 DEF AgentWrite
<1>9. ASSUME NEW p \in Procs, Abandon(p)
      PROVE  Kept
  BY <1>1, <1>9, AbandonKeeps
<1> QED
  BY <1>2, <1>3, <1>4, <1>5, <1>6, <1>7, <1>8, <1>9 DEF Next

(***************************************************************************)
(* No orphans.                                                             *)
(***************************************************************************)
\* Plans that exist stay.
PlansStay == \A w \in WeekIds : weeks[w] # NoWeek => weeks'[w] # NoWeek

\* A row with a status of the CHECK constraint is a plan that exists.
LEMMA NoWeekHasNoStatus ==
    ASSUME NEW s, NEW e, NEW st \in Statuses
    PROVE  [start |-> s, end |-> e, status |-> st] # NoWeek
<1> DEFINE row == [start |-> s, end |-> e, status |-> st]
<1>1. row.status # "none"
  BY ConstantsAssumption
<1>2. NoWeek.status = "none"
  BY DEF NoWeek
<1> HIDE DEF row
<1>3. row # NoWeek
  BY <1>1, <1>2
<1> QED  BY <1>3 DEF row

\* Writing such a row removes no plan.
LEMMA WriteWeekStays ==
    ASSUME WeeksOK, NEW w \in WeekIds, NEW row, row # NoWeek,
           weeks' = [weeks EXCEPT ![w] = row]
    PROVE  PlansStay /\ Exists(w)'
  BY DEF WeeksOK, PlansStay, Exists

\* What a step owes NoOrphans: every new row hangs off something.
LEMMA NoOrphansFrom ==
    ASSUME NoOrphans, PlansStay,
           \A x \in DinnerIds :
             dinners'[x].week \in {0, dinners[x].week} \/ Exists(dinners[x].week)',
           \A x \in ExceptionIds :
             \/ exceptions'[x].week \in {0, exceptions[x].week}
             \/ Exists(exceptions[x].week)',
           \A w \in WeekIds : retros'[w] = retros[w] \/ Exists(w)',
           \A x \in DinnerIds : rating'[x] # "none" => dinners'[x].week # 0
    PROVE  NoOrphans'
  BY DEF NoOrphans, PlansStay, Exists

\* The steps that change no table.
QuietStep ==
    \/ UNCHANGED vars
    \/ \E h \in Handlers :
         \/ \E w \in WeekIds : ReadPatch(h, w) \/ UpdateRetrospective(h, w)
         \/ \E w \in WeekIds, s \in Days \cup {NoDate} : BeginClone(h, w, s)
    \/ \E c \in Chats : AgentCheck(c)
    \/ \E p \in Procs : Abandon(p)

\* Reads, checks, new turns and rollbacks write no table.
LEMMA QuietStepLeavesRows ==
    ASSUME QuietStep
    PROVE  UNCHANGED rows
<1>1. CASE UNCHANGED vars
  BY <1>1 DEF vars
<1>2. ASSUME NEW h \in Handlers,
             \/ \E w \in WeekIds : ReadPatch(h, w) \/ UpdateRetrospective(h, w)
             \/ \E w \in WeekIds, s \in Days \cup {NoDate} : BeginClone(h, w, s)
      PROVE  UNCHANGED rows
  BY <1>2 DEF ReadPatch, UpdateRetrospective, BeginClone
<1>3. ASSUME NEW c \in Chats, AgentCheck(c)
      PROVE  UNCHANGED rows
  BY <1>3 DEF AgentCheck, StartTurn, CheckAddDinner, CheckAddException,
     CheckDinner, CheckException
<1>4. CASE \E p \in Procs : Abandon(p)
  BY <1>4 DEF Abandon
<1> QED  BY <1>1, <1>2, <1>3, <1>4 DEF QuietStep

\* ... so they orphan nothing.
LEMMA QuietStepNoOrphans ==
    ASSUME IInv, QuietStep
    PROVE  NoOrphans'
<1>1. UNCHANGED <<weeks, dinners, rating, exceptions, retros>>
  BY QuietStepLeavesRows DEF rows
<1> QED  BY <1>1 DEF IInv, NoOrphans, Exists

\* A new plan (weeks.go handleCreateWeek) orphans nothing.
LEMMA CreateWeekNoOrphans ==
    ASSUME IInv, NEW s \in Days, NEW e \in Days, CreateWeek(s, e)
    PROVE  NoOrphans'
<1>1. nextWeek \in WeekIds /\ WeeksOK
  BY IInvParts, ConstantsAssumption DEF CreateWeek, WeeksOK, WeekIds
<1>2. [start |-> s, end |-> e, status |-> "draft"] # NoWeek
  BY ConstantsAssumption, NoWeekHasNoStatus
<1>3. PlansStay
  BY <1>1, <1>2, WriteWeekStays DEF CreateWeek
<1>4. UNCHANGED <<dinners, rating, exceptions, retros>>
  BY DEF CreateWeek
<1> QED  BY <1>3, <1>4, NoOrphansFrom DEF IInv, NoOrphans

\* The cascades of a deletion: the one step that removes a plan.
LEMMA DeleteWeekNoOrphans ==
    ASSUME IInv, NEW w \in WeekIds, DeleteWeek(w)
    PROVE  NoOrphans'
<1>1. DinnersKept /\ \A x \in DinnerIds : dinners'[x].week # w
  BY DeleteWeekEdits, EditsKeepDinners, DinnerIdsFinite
<1>2. \A v \in WeekIds : v # w => weeks'[v] = weeks[v]
  BY IInvParts DEF DeleteWeek, WeeksOK
<1>3. ASSUME NEW x \in DinnerIds, dinners'[x].week # 0
      PROVE  Exists(dinners[x].week)'
  <2>1. dinners'[x] = dinners[x]
    BY <1>3 DEF DeleteWeek, NoDinner
  <2> QED  BY <1>1, <1>2, <1>3, <2>1 DEF IInv, NoOrphans, Exists
<1>4. ASSUME NEW x \in ExceptionIds, exceptions'[x].week # 0
      PROVE  Exists(exceptions[x].week)'
  <2>1. exceptions'[x] = exceptions[x] /\ exceptions[x].week # w
    BY <1>4 DEF DeleteWeek, NoException
  <2> QED  BY <1>2, <1>4, <2>1 DEF IInv, NoOrphans, Exists
<1>5. ASSUME NEW v \in WeekIds, retros'[v] # 0
      PROVE  Exists(v)'
  <2>1. v # w /\ retros'[v] = retros[v]
    BY <1>5, IInvParts DEF DeleteWeek, NotesOK
  <2> QED  BY <1>2, <1>5, <2>1 DEF IInv, NoOrphans, Exists
<1>6. \A x \in DinnerIds : rating'[x] # "none" => dinners'[x].week # 0
  BY DEF DeleteWeek, CascadeRatings
<1> QED  BY <1>3, <1>4, <1>5, <1>6 DEF NoOrphans

\* An edit of a plan that exists leaves no dinner without a plan.
LEMMA EditedDinnersRooted ==
    ASSUME NEW w \in Nat, EditsPlan(w), Exists(w)'
    PROVE  \A x \in DinnerIds :
             dinners'[x].week \in {0, dinners[x].week} \/ Exists(dinners[x].week)'
<1>1. \A x \in DinnerIds : dinners'[x].week \in {0, w, dinners[x].week}
  BY DEF EditsPlan, Edits
<1> QED  BY <1>1 DEF Exists

\* After the cascade of dish_ratings no rating is without its dinner.
LEMMA CascadeRooted ==
    ASSUME CascadeRatings
    PROVE  \A x \in DinnerIds : rating'[x] # "none" => dinners'[x].week # 0
  BY DEF CascadeRatings

\* A PATCH (weeks.go handlePatchWeek) that truncates takes the ratings of the
\* dinners it deletes along, and its UPDATE of the plan finds the plan there.
LEMMA CommitPatchNoOrphans ==
    ASSUME IInv, NEW h \in Handlers, NEW s \in Days \cup {NoDate},
           NEW e \in Days \cup {NoDate}, NEW st \in Statuses \cup {"none"},
           CommitPatch(h, s, e, st)
    PROVE  NoOrphans'
<1>1. PICK w \in WeekIds : w = pending[h].week
  BY CommitPatchEdits
<1> DEFINE p == PatchDates(pending[h], s, e)
           a == IF s # NoDate THEN s ELSE weeks[w].start
           b == IF p.endSet THEN p.end ELSE weeks[w].end
           c == IF st # "none" THEN st ELSE weeks[w].status
<1>2. /\ UNCHANGED <<exceptions, retros>> /\ CascadeRatings /\ Exists(w)
      /\ weeks' = [weeks EXCEPT ![w] = [start |-> a, end |-> b, status |-> c]]
  BY <1>1 DEF CommitPatch
<1>3. WeeksOK /\ w \in Nat /\ weeks[w].status \in Statuses
  BY <1>2, IInvParts, ExistingIsNumbered, DinnerIdsFinite
<1>4. EditsPlan(w)
  BY <1>1, CommitPatchEdits
<1>5. c \in Statuses
  BY <1>3
<1> HIDE DEF p, a, b, c
<1>6. [start |-> a, end |-> b, status |-> c] # NoWeek
  BY <1>5, NoWeekHasNoStatus
<1>7. PlansStay /\ Exists(w)'
  BY <1>2, <1>3, <1>6, WriteWeekStays
<1>8. \A x \in DinnerIds :
        dinners'[x].week \in {0, dinners[x].week} \/ Exists(dinners[x].week)'
  BY <1>3, <1>4, <1>7, EditedDinnersRooted
<1> QED  BY <1>2, <1>7, <1>8, CascadeRooted, NoOrphansFrom DEF IInv

\* A committed clone's plan exists, and what it adds lands on free ids.
LEMMA CommitCloneNoOrphans ==
    ASSUME IInv, NEW h \in Handlers, CommitClone(h)
    PROVE  NoOrphans'
<1>1. PICK w \in WeekIds : w = pending[h].row
  BY CommitCloneEdits
<1> DEFINE a == pending[h].start
           b == pending[h].end
           v == pending[h].week
           copied == CopyDinners(dinners, v, w, a, nextDinner)
<1>2. /\ UNCHANGED <<rating, exceptions, retros>>
      /\ weeks' = [weeks EXCEPT ![w] = [start |-> a, end |-> b, status |-> "draft"]]
      /\ dinners' = AddSlots(copied, w, UncoveredDays(copied, w, a, b),
                             nextDinner + Cardinality(DinnersOf(dinners, v)))
  BY <1>1 DEF CommitClone
<1>3. WeeksOK /\ w \in Nat \ {0} /\ EditsPlan(w)
  BY <1>1, IInvParts, CommitCloneEdits, DinnerIdsFinite
<1> HIDE DEF a, b, v
<1>4. \A x \in DinnerIds : dinners'[x] = dinners[x] \/ dinners'[x].week = w
  BY <1>2 DEF AddSlots, CopyDinners, IInv, TypeOK
<1> HIDE DEF copied
<1>5. PlansStay /\ Exists(w)'
  <2>1. [start |-> a, end |-> b, status |-> "draft"] # NoWeek
    BY NoWeekHasNoStatus, ConstantsAssumption
  <2> QED  BY <1>2, <1>3, <2>1, WriteWeekStays
<1>6. \A x \in DinnerIds :
        dinners'[x].week \in {0, dinners[x].week} \/ Exists(dinners[x].week)'
  BY <1>3, <1>5, EditedDinnersRooted
<1>7. \A x \in DinnerIds : rating'[x] # "none" => dinners'[x].week # 0
  BY <1>2, <1>3, <1>4 DEF IInv, NoOrphans
<1> QED  BY <1>2, <1>5, <1>6, <1>7, NoOrphansFrom DEF IInv

\* The INSERT of a retrospective is refused when its plan went after the
\* UPDATE (store/retrospectives.go).
LEMMA InsertRetrospectiveNoOrphans ==
    ASSUME IInv, NEW h \in Handlers, InsertRetrospective(h)
    PROVE  NoOrphans'
<1>1. UNCHANGED <<weeks, dinners, rating, exceptions>> /\ PlansStay
  BY DEF InsertRetrospective, PlansStay
<1>2. \A w \in WeekIds : retros'[w] = retros[w] \/ Exists(w)'
  BY <1>1, IInvParts DEF InsertRetrospective, NotesOK, Exists
<1>3. \A x \in DinnerIds : rating'[x] # "none" => dinners'[x].week # 0
  BY <1>1 DEF IInv, NoOrphans
<1> QED  BY <1>1, <1>2, <1>3, NoOrphansFrom DEF IInv

\* A rating is inserted from the dinner's own row (store/dinners.go
\* SetDinnerRating), so never for one that is gone.
LEMMA RatingHandlersNoOrphans ==
    ASSUME IInv,
           \/ \E x \in DinnerIds, r \in Ratings : SetDinnerRating(x, r)
           \/ \E x \in DinnerIds : ClearDinnerRating(x)
    PROVE  NoOrphans'
<1>1. UNCHANGED <<weeks, dinners, exceptions, retros>> /\ PlansStay
  BY DEF SetDinnerRating, ClearDinnerRating, PlansStay
<1>2. \A x \in DinnerIds : rating'[x] # "none" => dinners'[x].week # 0
  BY <1>1, IInvParts DEF IInv, NoOrphans, NotesOK, SetDinnerRating, ClearDinnerRating
<1> QED  BY <1>1, <1>2, NoOrphansFrom DEF IInv

\* The write of a tool that was checked before a deletion: the foreign key
\* stops add_dinner and add_exception, the others find no row.
LEMMA DinnerToolsNoOrphans ==
    ASSUME IInv, NEW c \in Chats,
           \/ \E day \in Days, dish \in Contents : AddDinner(c, day, dish)
           \/ \E dish \in Contents : UpdateDinner(c, dish)
           \/ DeleteDinner(c)
    PROVE  NoOrphans'
<1>1. UNCHANGED <<weeks, exceptions, retros>> /\ PlansStay
  BY DEF AddDinner, UpdateDinner, DeleteDinner, PlansStay
<1>2. ASSUME NEW day \in Days, NEW dish \in Contents, AddDinner(c, day, dish)
      PROVE  NoOrphans'
  <2>1. PICK w \in WeekIds : w = pending[c].week
    BY <1>2, AddDinnerEdits
  <2>2. EditsPlan(w) /\ Exists(w)' /\ w \in Nat \ {0}
    BY <1>1, <1>2, <2>1, AddDinnerEdits, DinnerIdsFinite DEF AddDinner, Exists
  <2>3. \A x \in DinnerIds :
          dinners'[x].week \in {0, dinners[x].week} \/ Exists(dinners[x].week)'
    BY <2>2, EditedDinnersRooted
  <2>4. \A x \in DinnerIds : rating'[x] = rating[x]
                             /\ (dinners'[x] = dinners[x] \/ dinners'[x].week = w)
    BY <1>2, <2>1 DEF AddDinner, IInv, TypeOK
  <2>5. \A x \in DinnerIds : rating'[x] # "none" => dinners'[x].week # 0
    BY <2>2, <2>4 DEF IInv, NoOrphans
  <2> QED  BY <1>1, <2>3, <2>5, NoOrphansFrom DEF IInv
<1>3. ASSUME NEW dish \in Contents, UpdateDinner(c, dish)
      PROVE  NoOrphans'
  <2>1. \A x \in DinnerIds : rating'[x] = rating[x] /\ dinners'[x].week = dinners[x].week
    BY <1>3 DEF UpdateDinner, IInv, TypeOK
  <2>2. \A x \in DinnerIds : rating'[x] # "none" => dinners'[x].week # 0
    BY <2>1 DEF IInv, NoOrphans
  <2> QED  BY <1>1, <2>1, <2>2, NoOrphansFrom DEF IInv
<1>4. ASSUME DeleteDinner(c)
      PROVE  NoOrphans'
  <2>1. \A x \in DinnerIds : dinners'[x].week \in {0, dinners[x].week}
    BY <1>4 DEF DeleteDinner, IInv, TypeOK, NoDinner
  <2>2. \A x \in DinnerIds : rating'[x] # "none" => dinners'[x].week # 0
    BY <1>4, CascadeRooted DEF DeleteDinner
  <2> QED  BY <1>1, <2>1, <2>2, NoOrphansFrom DEF IInv
<1> QED  BY <1>2, <1>3, <1>4

\* The same for the exception tools (tools.go).
LEMMA ExceptionToolsNoOrphans ==
    ASSUME IInv, NEW c \in Chats,
           \/ \E text \in Contents : AddException(c, text) \/ UpdateException(c, text)
           \/ DeleteException(c)
    PROVE  NoOrphans'
<1>1. UNCHANGED <<weeks, dinners, rating, retros>> /\ PlansStay
  BY DEF AddException, UpdateException, DeleteException, PlansStay
<1>2. \A x \in DinnerIds : rating'[x] # "none" => dinners'[x].week # 0
  BY <1>1 DEF IInv, NoOrphans
<1>3. ASSUME NEW text \in Contents, AddException(c, text)
      PROVE  NoOrphans'
  <2>1. PICK w : w = pending[c].week
    OBVIOUS
  <2>2. Exists(w)'
    BY <1>1, <1>3, <2>1 DEF AddException, Exists
  <2>3. \A x \in ExceptionIds : exceptions'[x] = exceptions[x] \/ exceptions'[x].week = w
    BY <1>3, <2>1, IInvParts DEF AddException, ExceptionsOK
  <2>4. \A x \in ExceptionIds :
          \/ exceptions'[x].week \in {0, exceptions[x].week}
          \/ Exists(exceptions[x].week)'
    BY <2>2, <2>3 DEF Exists
  <2> QED  BY <1>1, <1>2, <2>4, NoOrphansFrom DEF IInv
<1>4. ASSUME \/ \E text \in Contents : UpdateException(c, text)
             \/ DeleteException(c)
      PROVE  NoOrphans'
  <2>1. PICK text : \/ text \in Contents /\ UpdateException(c, text)
                   \/ DeleteException(c)
    BY <1>4
  <2>2. ExceptionsOK' /\ ExceptionRowsKept /\ nextException' = nextException
    BY <2>1, EditExceptionTable
  <2>3. ASSUME NEW x \in ExceptionIds
        PROVE  exceptions'[x].week \in {0, exceptions[x].week}
    <3>1. x \in Int /\ nextException \in Int
      BY IInvParts, ConstantsAssumption DEF ExceptionIds, ExceptionsOK
    <3>2. CASE x < nextException
      BY <2>2, <3>2 DEF ExceptionRowsKept
    <3>3. CASE x >= nextException
      BY <2>2, <3>3 DEF ExceptionsOK, NoException
    <3> QED  BY <3>1, <3>2, <3>3
  <2> QED  BY <1>1, <1>2, <2>3, NoOrphansFrom DEF IInv
<1> QED  BY <1>3, <1>4

\* update_week (tools.go updateWeekTool) removes no plan.
LEMMA AgentUpdateWeekNoOrphans ==
    ASSUME IInv, NEW c \in Chats, NEW provided \in 0..MaxWeek,
           NEW s \in Days \cup {NoDate}, NEW e \in Days \cup {NoDate},
           NEW st \in Statuses \cup {"none"}, AgentUpdateWeek(c, provided, s, e, st)
    PROVE  NoOrphans'
<1>1. PICK w \in WeekIds : w = ResolvePlan(c, provided)
  BY DEF AgentUpdateWeek, Exists
<1> DEFINE a == IF s # NoDate THEN s ELSE weeks[w].start
           b == IF e # NoDate THEN e ELSE weeks[w].end
           d == IF st # "none" THEN st ELSE weeks[w].status
<1>2. /\ UNCHANGED <<dinners, rating, exceptions, retros>> /\ Exists(w)
      /\ weeks' = [weeks EXCEPT ![w] = [start |-> a, end |-> b, status |-> d]]
  BY <1>1 DEF AgentUpdateWeek
<1>3. WeeksOK /\ d \in Statuses
  BY <1>2, IInvParts, ExistingIsNumbered
<1> HIDE DEF a, b, d
<1>4. PlansStay
  BY <1>2, <1>3, NoWeekHasNoStatus, WriteWeekStays
<1> QED  BY <1>2, <1>4, NoOrphansFrom DEF IInv, NoOrphans

\* record_retrospective rates dinners of its plan only, and those exist.
LEMMA RecordRetrospectiveNoOrphans ==
    ASSUME IInv, NEW c \in Chats, NEW provided \in 0..MaxWeek,
           NEW R \in SUBSET DinnerIds, NEW f \in [R -> Ratings],
           RecordRetrospective(c, provided, f)
    PROVE  NoOrphans'
<1>1. PICK w \in WeekIds : w = ResolvePlan(c, provided) /\ Exists(w)
  BY DEF RecordRetrospective, Exists
<1>2. UNCHANGED <<weeks, dinners, exceptions>> /\ PlansStay /\ Exists(w)'
  BY <1>1 DEF RecordRetrospective, PlansStay, Exists
<1>3. \A v \in WeekIds : retros'[v] = retros[v] \/ Exists(v)'
  BY <1>1, <1>2, IInvParts DEF RecordRetrospective, NotesOK, Exists
<1>4. \A x \in DinnerIds : rating'[x] # "none" => dinners'[x].week # 0
  <2>1. \A x \in R : dinners[x].week = w
    BY <1>1 DEF RecordRetrospective
  <2>2. w # 0
    BY DinnerIdsFinite
  <2>3. \A x \in DinnerIds : x \notin R => rating'[x] = rating[x]
    BY DEF RecordRetrospective
  <2> QED  BY <1>2, <2>1, <2>2, <2>3 DEF IInv, NoOrphans
<1> QED  BY <1>2, <1>3, <1>4, NoOrphansFrom DEF IInv

\* No step of any process orphans a row.
LEMMA StepNoOrphans ==
    ASSUME IInv, [Next]_vars
    PROVE  NoOrphans'
<1>1. CASE QuietStep
  BY <1>1, QuietStepNoOrphans
<1>2. ASSUME NEW s \in Days, NEW e \in Days, CreateWeek(s, e)
      PROVE  NoOrphans'
  BY <1>2, CreateWeekNoOrphans
<1>3. ASSUME NEW w \in WeekIds, DeleteWeek(w)
      PROVE  NoOrphans'
  BY <1>3, DeleteWeekNoOrphans
<1>4. CASE \/ \E x \in DinnerIds, r \in Ratings : SetDinnerRating(x, r)
           \/ \E x \in DinnerIds : ClearDinnerRating(x)
  BY <1>4, RatingHandlersNoOrphans
<1>5. ASSUME NEW h \in Handlers, HandlerStep(h)
      PROVE  QuietStep \/ NoOrphans'
  BY <1>5, CommitPatchNoOrphans, CommitCloneNoOrphans, InsertRetrospectiveNoOrphans
     DEF HandlerStep, QuietStep
<1>6. ASSUME NEW c \in Chats, AgentWrite(c)
      PROVE  NoOrphans'
  <2>1. CASE \/ \E day \in Days, dish \in Contents : AddDinner(c, day, dish)
             \/ \E dish \in Contents : UpdateDinner(c, dish)
             \/ DeleteDinner(c)
    BY <2>1, DinnerToolsNoOrphans
  <2>2. CASE \/ \E text \in Contents : AddException(c, text) \/ UpdateException(c, text)
             \/ DeleteException(c)
    BY <2>2, ExceptionToolsNoOrphans
  <2>3. CASE \/ \E w \in 0..MaxWeek, s \in Days \cup {NoDate},
                   e \in Days \cup {NoDate}, st \in Statuses \cup {"none"} :
                   AgentUpdateWeek(c, w, s, e, st)
             \/ \E w \in 0..MaxWeek, R \in SUBSET DinnerIds :
                  \E f \in [R -> Ratings] : RecordRetrospective(c, w, f)
    BY <2>3, AgentUpdateWeekNoOrphans, RecordRetrospectiveNoOrphans
  <2> QED  BY <1>6, <2>1, <2>2, <2>3 DEF AgentWrite
<1> QED
  BY <1>1, <1>2, <1>3, <1>4, <1>5, <1>6 DEF Next, QuietStep

(***************************************************************************)
(* Operations in flight stay in scope.                                     *)
(***************************************************************************)
\* The steps that change exceptions.
ExceptionStep ==
    \/ \E w \in WeekIds : DeleteWeek(w)
    \/ \E c \in Chats : \/ \E text \in Contents :
                             AddException(c, text) \/ UpdateException(c, text)
                        \/ DeleteException(c)

\* No other statement writes week_exceptions.
LEMMA OtherStepsLeaveExceptions ==
    ASSUME [Next]_vars, ~ExceptionStep
    PROVE  UNCHANGED exceptions
<1>1. CASE QuietStep
  BY <1>1, QuietStepLeavesRows DEF rows
<1>2. CASE \E s \in Days, e \in Days : CreateWeek(s, e)
  BY <1>2 DEF CreateWeek
<1>3. CASE \/ \E x \in DinnerIds, r \in Ratings : SetDinnerRating(x, r)
           \/ \E x \in DinnerIds : ClearDinnerRating(x)
  BY <1>3 DEF SetDinnerRating, ClearDinnerRating
<1>4. ASSUME NEW h \in Handlers, HandlerStep(h)
      PROVE  QuietStep \/ UNCHANGED exceptions
  <2>1. ASSUME NEW s \in Days \cup {NoDate}, NEW e \in Days \cup {NoDate},
               NEW st \in Statuses \cup {"none"}, CommitPatch(h, s, e, st)
        PROVE  UNCHANGED exceptions
    BY <2>1 DEF CommitPatch
  <2>2. CASE CommitClone(h)
    BY <2>2 DEF CommitClone
  <2>3. CASE InsertRetrospective(h)
    BY <2>3 DEF InsertRetrospective
  <2> QED  BY <1>4, <2>1, <2>2, <2>3 DEF HandlerStep, QuietStep
<1>5. ASSUME NEW c \in Chats, AgentWrite(c)
      PROVE  UNCHANGED exceptions
  <2>1. CASE \/ \E day \in Days, dish \in Contents : AddDinner(c, day, dish)
             \/ \E dish \in Contents : UpdateDinner(c, dish)
             \/ DeleteDinner(c)
    BY <2>1 DEF AddDinner, UpdateDinner, DeleteDinner
  <2>2. CASE \/ \E w \in 0..MaxWeek, s \in Days \cup {NoDate},
                   e \in Days \cup {NoDate}, st \in Statuses \cup {"none"} :
                   AgentUpdateWeek(c, w, s, e, st)
             \/ \E w \in 0..MaxWeek, R \in SUBSET DinnerIds :
                  \E f \in [R -> Ratings] : RecordRetrospective(c, w, f)
    BY <2>2 DEF AgentUpdateWeek, RecordRetrospective
  <2> QED  BY <1>5, <2>1, <2>2 DEF AgentWrite, ExceptionStep
<1> QED
  BY <1>1, <1>2, <1>3, <1>4, <1>5 DEF Next, QuietStep, ExceptionStep

\* Every step leaves an exception in its plan or removes it.
LEMMA StepKeepsExceptionRows ==
    ASSUME IInv, [Next]_vars
    PROVE  ExceptionRowsKept
<1>1. CASE ~ExceptionStep
  <2>1. exceptions' = exceptions
    BY <1>1, OtherStepsLeaveExceptions
  <2> QED  BY <2>1 DEF ExceptionRowsKept
<1>2. ASSUME NEW w \in WeekIds, DeleteWeek(w)
      PROVE  ExceptionRowsKept
  BY <1>2 DEF DeleteWeek, ExceptionRowsKept, NoException
<1>3. ASSUME NEW c \in Chats, NEW text \in Contents, AddException(c, text)
      PROVE  ExceptionRowsKept
  BY <1>3, AddExceptionTable
<1>4. ASSUME NEW c \in Chats, NEW text,
             (text \in Contents /\ UpdateException(c, text)) \/ DeleteException(c)
      PROVE  ExceptionRowsKept
  BY <1>4, EditExceptionTable
<1> QED  BY <1>1, <1>2, <1>3, <1>4 DEF ExceptionStep

\* PendingInScope at one chat.
ScopedAt(c) ==
    bound[c] # 0 /\ pending[c].op \in MenuOps => TargetPlan(c) \in {0, bound[c]}

\* The step neither starts a turn of chat c nor an operation in it.
LeavesChat(c) == bound'[c] = bound[c] /\ pending'[c] \in {pending[c], Idle}

\* The row an operation in flight is about keeps its plan or goes: the check
\* made before stays true.
LEMMA ScopeStaysTrue ==
    ASSUME IInv, DinnersKept, ExceptionRowsKept, NEW c \in Chats, LeavesChat(c)
    PROVE  ScopedAt(c)'
<1>1. CASE pending'[c] = Idle
  BY <1>1 DEF ScopedAt, Idle, Request, MenuOps, DinnerOps, ExceptionOps
<1>2. ASSUME pending'[c] = pending[c], bound[c] # 0, pending[c].op \in MenuOps
      PROVE  TargetPlan(c)' \in {0, bound[c]}
  <2>1. TargetPlan(c) \in {0, bound[c]}
    BY <1>2 DEF IInv, PendingInScope
  <2>2. CASE pending[c].op \in {"add_dinner", "add_exception"}
    BY <1>2, <2>1, <2>2 DEF TargetPlan, DinnerOps, ExceptionOps
  <2>3. CASE pending[c].op \in DinnerOps
    <3>1. /\ pending[c].row \in DinnerIds /\ pending[c].row < nextDinner
          /\ dinners[pending[c].row].week \in {0, bound[c]}
      BY <2>1, <2>3 DEF TargetPlan, DinnerOps, ExceptionOps, IInv, PendingRows, Procs
    <3>2. dinners'[pending[c].row].week \in {0, bound[c]}
      BY <3>1 DEF DinnersKept
    <3> QED  BY <1>2, <2>3, <3>2 DEF TargetPlan, DinnerOps, ExceptionOps
  <2>4. CASE pending[c].op \in ExceptionOps
    <3>1. /\ pending[c].row \in ExceptionIds /\ pending[c].row < nextException
          /\ exceptions[pending[c].row].week \in {0, bound[c]}
      BY <2>1, <2>4 DEF TargetPlan, DinnerOps, ExceptionOps, IInv, PendingRows, Procs
    <3>2. exceptions'[pending[c].row].week \in {0, bound[c]}
      BY <3>1 DEF ExceptionRowsKept
    <3> QED  BY <1>2, <2>4, <3>2 DEF TargetPlan, DinnerOps, ExceptionOps
  <2> QED  BY <1>2, <2>2, <2>3, <2>4 DEF MenuOps
<1> QED  BY <1>1, <1>2 DEF LeavesChat, ScopedAt

\* A turn starts idle, so nothing is in flight in it.
LEMMA StartTurnInScope ==
    ASSUME NEW c \in Chats, NEW w, StartTurn(c, w)
    PROVE  ScopedAt(c)'
  BY DEF StartTurn, ScopedAt, Idle, Request, MenuOps, DinnerOps, ExceptionOps

\* add_dinner and add_exception aim at the bound plan.
LEMMA CheckAddInScope ==
    ASSUME IInv, NEW c \in Chats, NEW provided \in 0..MaxWeek,
           CheckAddDinner(c, provided) \/ CheckAddException(c, provided)
    PROVE  ScopedAt(c)'
<1>1. PICK w : w = ResolvePlan(c, provided)
  OBVIOUS
<1>2. PICK op \in {"add_dinner", "add_exception"} :
        pending' = [pending EXCEPT ![c] = Request(op, w, 0)] /\ bound' = bound
  BY <1>1 DEF CheckAddDinner, CheckAddException, Begin
<1>3. pending'[c].op = op /\ pending'[c].week = w
  BY <1>2, IInvParts DEF PendingOK, Procs, Request
<1>4. bound[c] # 0 => w \in {0, bound[c]}
  BY <1>1 DEF ResolvePlan
<1> QED
  BY <1>2, <1>3, <1>4 DEF ScopedAt, TargetPlan, DinnerOps, ExceptionOps

\* The tools that name a row look up the row's plan.
LEMMA CheckRowInScope ==
    ASSUME IInv, NEW c \in Chats, NEW op, NEW x,
           \/ op \in DinnerOps /\ CheckDinner(c, op, x)
           \/ op \in ExceptionOps /\ CheckException(c, op, x)
    PROVE  ScopedAt(c)'
<1>1. /\ pending' = [pending EXCEPT ![c] = Request(op, 0, x)]
      /\ bound' = bound /\ dinners' = dinners /\ exceptions' = exceptions
  BY DEF CheckDinner, CheckException, Begin, rows
<1>2. pending'[c].op = op /\ pending'[c].row = x
  BY <1>1, IInvParts DEF PendingOK, Procs, Request
<1>3. CASE op \in DinnerOps
  <2>1. bound[c] \in {0, dinners[x].week}
    BY <1>3 DEF CheckDinner, CheckException, InScope, DinnerOps, ExceptionOps
  <2> QED  BY <1>1, <1>2, <1>3, <2>1 DEF ScopedAt, TargetPlan, DinnerOps, ExceptionOps
<1>4. CASE op \in ExceptionOps
  <2>1. bound[c] \in {0, exceptions[x].week}
    BY <1>4 DEF CheckDinner, CheckException, InScope, DinnerOps, ExceptionOps
  <2> QED  BY <1>1, <1>2, <1>4, <2>1 DEF ScopedAt, TargetPlan, DinnerOps, ExceptionOps
<1> QED  BY <1>3, <1>4

\* A process writes its own operation only.
LEMMA OthersLeaveChat ==
    ASSUME IInv, NEW c \in Chats, NEW p \in Procs, p # c, NEW op,
           Begin(p, op) \/ Finish(p), bound'[c] = bound[c]
    PROVE  LeavesChat(c)
  BY IInvParts DEF PendingOK, Begin, Finish, LeavesChat, Procs

\* A process that ends its operation starts none.
LEMMA FinishLeavesChat ==
    ASSUME IInv, NEW c \in Chats, NEW p \in Procs, Finish(p), bound'[c] = bound[c]
    PROVE  LeavesChat(c)
  BY IInvParts DEF PendingOK, Finish, LeavesChat, Procs

\* No handler and no write of a tool starts anything in a chat.
LEMMA HandlersLeaveChat ==
    ASSUME IInv, NEW c \in Chats, NEW h \in Handlers, HandlerStep(h)
    PROVE  LeavesChat(c)
<1>1. h # c /\ h \in Procs
  BY ConstantsAssumption DEF Procs
<1>2. CASE \E w \in WeekIds : ReadPatch(h, w) \/ UpdateRetrospective(h, w)
  BY <1>1, <1>2, OthersLeaveChat DEF ReadPatch, UpdateRetrospective
<1>3. CASE \E w \in WeekIds, s \in Days \cup {NoDate} : BeginClone(h, w, s)
  BY <1>1, <1>3, OthersLeaveChat DEF BeginClone
<1>4. CASE \E s \in Days \cup {NoDate}, e \in Days \cup {NoDate},
              st \in Statuses \cup {"none"} : CommitPatch(h, s, e, st)
  BY <1>1, <1>4, OthersLeaveChat DEF CommitPatch
<1>5. CASE CommitClone(h)
  BY <1>1, <1>5, OthersLeaveChat DEF CommitClone
<1>6. CASE InsertRetrospective(h)
  BY <1>1, <1>6, OthersLeaveChat DEF InsertRetrospective
<1> QED  BY <1>2, <1>3, <1>4, <1>5, <1>6 DEF HandlerStep

\* A write of one chat's tool ends an operation of that chat and starts none
\* (tools.go).
LEMMA WritesLeaveChat ==
    ASSUME IInv, NEW c \in Chats, NEW d \in Chats, AgentWrite(d)
    PROVE  LeavesChat(c)
<1>1. d \in Procs
  BY DEF Procs
<1>2. CASE \/ \E day \in Days, dish \in Contents : AddDinner(d, day, dish)
           \/ \E dish \in Contents : UpdateDinner(d, dish)
           \/ DeleteDinner(d)
  BY <1>1, <1>2, FinishLeavesChat DEF AddDinner, UpdateDinner, DeleteDinner
<1>3. CASE \/ \E text \in Contents : AddException(d, text) \/ UpdateException(d, text)
           \/ DeleteException(d)
  BY <1>1, <1>3, FinishLeavesChat DEF AddException, UpdateException, DeleteException
<1>4. CASE \/ \E w \in 0..MaxWeek, s \in Days \cup {NoDate},
                 e \in Days \cup {NoDate}, st \in Statuses \cup {"none"} :
                 AgentUpdateWeek(d, w, s, e, st)
           \/ \E w \in 0..MaxWeek, R \in SUBSET DinnerIds :
                \E f \in [R -> Ratings] : RecordRetrospective(d, w, f)
  BY <1>4 DEF AgentUpdateWeek, RecordRetrospective, LeavesChat
<1> QED  BY <1>2, <1>3, <1>4 DEF AgentWrite

\* The checks of one chat start nothing in another.
LEMMA OtherChecksLeaveChat ==
    ASSUME IInv, NEW c \in Chats, NEW d \in Chats, d # c, AgentCheck(d)
    PROVE  LeavesChat(c)
<1>1. d \in Procs /\ bound \in [Chats -> Nat]
  BY IInvParts DEF Procs
<1>2. CASE \E w \in 0..MaxWeek : StartTurn(d, w)
  BY <1>1, <1>2 DEF StartTurn, LeavesChat
<1>3. CASE \E w \in 0..MaxWeek : CheckAddDinner(d, w) \/ CheckAddException(d, w)
  BY <1>1, <1>3, OthersLeaveChat DEF CheckAddDinner, CheckAddException
<1>4. CASE \E op \in DinnerOps, x \in DinnerIds : CheckDinner(d, op, x)
  BY <1>1, <1>4, OthersLeaveChat DEF CheckDinner
<1>5. CASE \E op \in ExceptionOps, x \in ExceptionIds : CheckException(d, op, x)
  BY <1>1, <1>5, OthersLeaveChat DEF CheckException
<1> QED  BY <1>2, <1>3, <1>4, <1>5 DEF AgentCheck

\* Every step, by any process, leaves chat c about its own plan.
LEMMA StepScopedAt ==
    ASSUME IInv, [Next]_vars, NEW c \in Chats
    PROVE  ScopedAt(c)'
<1>1. DinnersKept /\ ExceptionRowsKept
  BY StepKeepsDinners, StepKeepsExceptionRows
<1>2. CASE LeavesChat(c)
  BY <1>1, <1>2, ScopeStaysTrue
<1>3. CASE AgentCheck(c)
  <2>1. CASE \E w \in 0..MaxWeek : StartTurn(c, w)
    BY <2>1, StartTurnInScope
  <2>2. CASE \E w \in 0..MaxWeek : CheckAddDinner(c, w) \/ CheckAddException(c, w)
    BY <2>2, CheckAddInScope
  <2>3. CASE \E op \in DinnerOps, x \in DinnerIds : CheckDinner(c, op, x)
    BY <2>3, CheckRowInScope
  <2>4. CASE \E op \in ExceptionOps, x \in ExceptionIds : CheckException(c, op, x)
    BY <2>4, CheckRowInScope
  <2> QED  BY <1>3, <2>1, <2>2, <2>3, <2>4 DEF AgentCheck
<1>4. CASE UNCHANGED vars
  BY <1>2, <1>4 DEF vars, LeavesChat
<1>5. CASE \E s \in Days, e \in Days : CreateWeek(s, e)
  BY <1>2, <1>5 DEF CreateWeek, LeavesChat
<1>6. CASE \E w \in WeekIds : DeleteWeek(w)
  BY <1>2, <1>6 DEF DeleteWeek, LeavesChat
<1>7. CASE \/ \E x \in DinnerIds, r \in Ratings : SetDinnerRating(x, r)
           \/ \E x \in DinnerIds : ClearDinnerRating(x)
  BY <1>2, <1>7 DEF SetDinnerRating, ClearDinnerRating, LeavesChat
<1>8. CASE \E h \in Handlers : HandlerStep(h)
  BY <1>2, <1>8, HandlersLeaveChat
<1>9. ASSUME NEW d \in Chats, AgentCheck(d) \/ AgentWrite(d)
      PROVE  ScopedAt(c)'
  BY <1>2, <1>3, <1>9, WritesLeaveChat, OtherChecksLeaveChat
<1>10. ASSUME NEW p \in Procs, Abandon(p)
       PROVE  ScopedAt(c)'
  BY <1>2, <1>10, FinishLeavesChat DEF Abandon
<1> QED
  BY <1>4, <1>5, <1>6, <1>7, <1>8, <1>9, <1>10 DEF Next

(***************************************************************************)
(* The theorems.                                                           *)
(***************************************************************************)
\* A new installation has no rows and nothing in flight.
LEMMA InitHolds ==
    ASSUME Init
    PROVE  IInv
<1>1. /\ \A p \in Procs : pending[p] = Request("idle", 0, 0)
      /\ pending \in [Procs -> {Request("idle", 0, 0)}]
  BY DEF Init, Idle
<1>2. Request("idle", 0, 0) \in Requests
  BY DEF Request, Requests, Ops
<1>3. Request("idle", 0, 0).op = "idle"
  BY DEF Request
<1>4. \A p \in Procs : pending[p].op = "idle"
  BY <1>1, <1>3
<1>5. PendingInScope /\ PendingRows
  BY <1>4 DEF PendingInScope, PendingRows, MenuOps, DinnerOps, ExceptionOps, Procs
<1>6. NoOrphans
  BY DEF Init, NoOrphans, NoDinner, NoException
<1>7. KnownStatuses
  BY DEF Init, KnownStatuses
<1>8. TypeOK
  <2>1. pending \in [Procs -> [op : Ops, week : Nat, row : Nat, start : Int, end : Int]]
    BY <1>1, <1>2 DEF Requests
  <2>2. NoWeek \in [start : Int, end : Int, status : Statuses \cup {"none"}]
    BY DEF NoWeek
  <2>3. NoDinner \in [week : Nat, day : Int, dish : Contents \cup {NoContent}]
    BY DEF NoDinner
  <2>4. NoException \in [week : Nat, text : Contents \cup {NoContent}]
    BY DEF NoException
  <2> QED  BY <2>1, <2>2, <2>3, <2>4 DEF Init, TypeOK
<1> QED  BY <1>5, <1>6, <1>7, <1>8 DEF IInv

\* IInv is inductive.
LEMMA StepHolds ==
    ASSUME IInv, [Next]_vars
    PROVE  IInv'
<1>1. TypeOK' /\ KnownStatuses' /\ PendingRows'
  BY StepKeepsDinners, StepKeeps, KeptIsTyped
<1>2. NoOrphans'
  BY StepNoOrphans
<1>3. PendingInScope'
  BY StepScopedAt DEF PendingInScope, ScopedAt
<1> QED  BY <1>1, <1>2, <1>3 DEF IInv

\* The state every run of the server, whatever its chats and requests do, is in.
THEOREM Inductive == Spec => []IInv
<1>1. Init => IInv
  BY InitHolds
<1>2. IInv /\ [Next]_vars => IInv'
  BY StepHolds
<1> QED  BY <1>1, <1>2, PTL DEF Spec

\* Every variable keeps its type, and no identity is handed out twice (the
\* identity columns of migrations 00001), in every step of every process.
THEOREM TypeCorrect == Spec => []TypeOK
<1>1. IInv => TypeOK
  BY DEF IInv
<1> QED  BY <1>1, Inductive, PTL

\* No dinner, exception, retrospective or rating outlives what it hangs off
\* (the foreign keys of migrations 00001; weeks.go handleDeleteWeek), however
\* many requests and chats write while plans are deleted.
THEOREM NoOrphansEver == Spec => []NoOrphans
<1>1. IInv => NoOrphans
  BY DEF IInv
<1> QED  BY <1>1, Inductive, PTL

\* What a chat has checked and not yet written is about its own plan, or gone
\* (wkctx.go CheckDinnerInScope, ResolvePlan), for every number of chats.
THEOREM ScopeKept == Spec => []PendingInScope
<1>1. IInv => PendingInScope
  BY DEF IInv
<1> QED  BY <1>1, Inductive, PTL

\* No statement of any handler or tool moves a dinner or an exception to
\* another plan or brings one back.
THEOREM RowsKeepPlans == Spec => RowIdentity
<1> DEFINE RowsKeep ==
       /\ \A x \in DinnerIds :
            x < nextDinner => dinners'[x].week \in {0, dinners[x].week}
       /\ \A x \in ExceptionIds :
            x < nextException => exceptions'[x].week \in {0, exceptions[x].week}
<1>1. IInv /\ [Next]_vars => [RowsKeep]_vars
  BY StepKeepsDinners, StepKeepsExceptionRows DEF DinnersKept, ExceptionRowsKept
<1> HIDE DEF RowsKeep
<1>2. Spec => [][RowsKeep]_vars
  BY <1>1, Inductive, PTL DEF Spec
<1> QED  BY <1>2 DEF RowIdentity, RowsKeep

(***************************************************************************)
(* Action properties that follow from the invariant.                       *)
(***************************************************************************)
\* The writes of a bound chat on dinners: the row it checked or a new one.
LEMMA DinnerToolsIsolated ==
    ASSUME IInv, NEW c \in Chats, NEW b \in Nat \ {0}, b = bound[c],
           \/ \E day \in Days, dish \in Contents : AddDinner(c, day, dish)
           \/ \E dish \in Contents : UpdateDinner(c, dish)
           \/ DeleteDinner(c)
    PROVE  ~TouchesOtherPlan(b)
<1>1. weeks' = weeks /\ retros' = retros /\ exceptions' = exceptions
  BY DEF AddDinner, UpdateDinner, DeleteDinner
<1>2. TargetPlan(c) \in {0, b}
  BY DEF AddDinner, UpdateDinner, DeleteDinner, IInv, PendingInScope, MenuOps,
     DinnerOps, ExceptionOps
<1>3. /\ dinners \in [DinnerIds -> [week : Nat, day : Int, dish : Dishes]]
      /\ rating \in [DinnerIds -> Ratings \cup {"none"}]
      /\ \A x \in DinnerIds : x >= nextDinner => dinners[x] = NoDinner
      /\ nextDinner \in Nat /\ NoDinner.week = 0
  BY DEF IInv, TypeOK, Dishes, NoDinner
<1>4. ASSUME NEW day \in Days, NEW dish \in Contents, AddDinner(c, day, dish),
             NEW x \in DinnerIds, dinners'[x] # dinners[x] \/ rating'[x] # rating[x]
      PROVE  {dinners[x].week, dinners'[x].week} \subseteq {0, b}
  <2>1. pending[c].week \in {0, b}
    BY <1>2, <1>4 DEF AddDinner, TargetPlan, DinnerOps, ExceptionOps
  <2>2. x = nextDinner /\ dinners'[x].week = pending[c].week
    BY <1>3, <1>4 DEF AddDinner
  <2>3. dinners[x].week = 0
    BY <1>3, <2>2
  <2> QED  BY <2>1, <2>2, <2>3
<1>5. ASSUME NEW dish \in Contents, UpdateDinner(c, dish),
             NEW x \in DinnerIds, dinners'[x] # dinners[x] \/ rating'[x] # rating[x]
      PROVE  {dinners[x].week, dinners'[x].week} \subseteq {0, b}
  <2>1. dinners[pending[c].row].week \in {0, b}
    BY <1>2, <1>5 DEF UpdateDinner, TargetPlan, DinnerOps, ExceptionOps
  <2>2. x = pending[c].row /\ dinners'[x].week = dinners[x].week
    BY <1>3, <1>5 DEF UpdateDinner
  <2> QED  BY <2>1, <2>2
<1>6. ASSUME DeleteDinner(c),
             NEW x \in DinnerIds, dinners'[x] # dinners[x] \/ rating'[x] # rating[x]
      PROVE  {dinners[x].week, dinners'[x].week} \subseteq {0, b}
  <2>1. dinners[pending[c].row].week \in {0, b}
    BY <1>2, <1>6 DEF DeleteDinner, TargetPlan, DinnerOps, ExceptionOps
  <2>2. rating[x] # "none" => dinners[x].week # 0
    BY DEF IInv, NoOrphans
  <2>3. x = pending[c].row
    BY <1>3, <1>6, <2>2 DEF DeleteDinner, CascadeRatings
  <2>4. dinners'[x].week = 0
    BY <1>3, <1>6, <2>3 DEF DeleteDinner
  <2> QED  BY <2>1, <2>3, <2>4
<1> QED  BY <1>1, <1>4, <1>5, <1>6 DEF TouchesOtherPlan

\* The writes of a bound chat on exceptions.
LEMMA ExceptionToolsIsolated ==
    ASSUME IInv, NEW c \in Chats, NEW b \in Nat \ {0}, b = bound[c],
           \/ \E text \in Contents : AddException(c, text) \/ UpdateException(c, text)
           \/ DeleteException(c)
    PROVE  ~TouchesOtherPlan(b)
<1>1. weeks' = weeks /\ retros' = retros /\ dinners' = dinners /\ rating' = rating
  BY DEF AddException, UpdateException, DeleteException
<1>2. TargetPlan(c) \in {0, b}
  BY DEF AddException, UpdateException, DeleteException, IInv, PendingInScope,
     MenuOps, DinnerOps, ExceptionOps
<1>3. /\ exceptions \in [ExceptionIds -> [week : Nat, text : Contents \cup {NoContent}]]
      /\ \A x \in ExceptionIds : x >= nextException => exceptions[x] = NoException
      /\ nextException \in Nat /\ NoException.week = 0
  BY DEF IInv, TypeOK, NoException
<1>4. ASSUME NEW text \in Contents, AddException(c, text),
             NEW x \in ExceptionIds, exceptions'[x] # exceptions[x]
      PROVE  {exceptions[x].week, exceptions'[x].week} \subseteq {0, b}
  <2>1. pending[c].week \in {0, b}
    BY <1>2, <1>4 DEF AddException, TargetPlan, DinnerOps, ExceptionOps
  <2>2. x = nextException /\ exceptions'[x].week = pending[c].week
    BY <1>3, <1>4 DEF AddException
  <2>3. exceptions[x].week = 0
    BY <1>3, <2>2
  <2> QED  BY <2>1, <2>2, <2>3
<1>5. ASSUME \/ \E text \in Contents : UpdateException(c, text)
             \/ DeleteException(c),
             NEW x \in ExceptionIds, exceptions'[x] # exceptions[x]
      PROVE  {exceptions[x].week, exceptions'[x].week} \subseteq {0, b}
  <2>1. exceptions[pending[c].row].week \in {0, b}
    BY <1>2, <1>5 DEF UpdateException, DeleteException, TargetPlan, DinnerOps,
       ExceptionOps
  <2>2. x = pending[c].row
    BY <1>3, <1>5 DEF UpdateException, DeleteException
  <2>3. PICK text : \/ text \in Contents /\ UpdateException(c, text)
                   \/ DeleteException(c)
    BY <1>5
  <2>4. ExceptionsOK' /\ ExceptionRowsKept /\ nextException' = nextException
    BY <2>3, EditExceptionTable
  <2>5. x \in Int
    BY ConstantsAssumption DEF ExceptionIds
  <2>6. exceptions'[x].week \in {0, exceptions[x].week}
    BY <1>3, <2>4, <2>5 DEF ExceptionsOK, ExceptionRowsKept
  <2> QED  BY <2>1, <2>2, <2>6
<1> QED  BY <1>1, <1>4, <1>5 DEF TouchesOtherPlan

\* A bound chat's other writes are about the plan ResolvePlan returns.
LEMMA PlanToolsIsolated ==
    ASSUME IInv, NEW c \in Chats, NEW b \in Nat \ {0}, b = bound[c],
           \/ \E w \in 0..MaxWeek, s \in Days \cup {NoDate},
                 e \in Days \cup {NoDate}, st \in Statuses \cup {"none"} :
                 AgentUpdateWeek(c, w, s, e, st)
           \/ \E w \in 0..MaxWeek, R \in SUBSET DinnerIds :
                \E f \in [R -> Ratings] : RecordRetrospective(c, w, f)
    PROVE  ~TouchesOtherPlan(b)
<1>1. \A w : Exists(ResolvePlan(c, w)) => ResolvePlan(c, w) = b
  BY DinnerIdsFinite DEF ResolvePlan, Exists
<1>2. ASSUME NEW w \in 0..MaxWeek, NEW s, NEW e, NEW st,
             AgentUpdateWeek(c, w, s, e, st)
      PROVE  ~TouchesOtherPlan(b)
  <2>1. /\ dinners' = dinners /\ rating' = rating /\ exceptions' = exceptions
        /\ retros' = retros
    BY <1>2 DEF AgentUpdateWeek
  <2>2. \A v \in WeekIds \ {b} : weeks'[v] = weeks[v]
    BY <1>1, <1>2, IInvParts DEF AgentUpdateWeek, WeeksOK
  <2> QED  BY <2>1, <2>2 DEF TouchesOtherPlan
<1>3. ASSUME NEW w \in 0..MaxWeek, NEW R \in SUBSET DinnerIds,
             NEW f \in [R -> Ratings], RecordRetrospective(c, w, f)
      PROVE  ~TouchesOtherPlan(b)
  <2>1. dinners' = dinners /\ exceptions' = exceptions /\ weeks' = weeks
    BY <1>3 DEF RecordRetrospective
  <2>2. \A v \in WeekIds \ {b} : retros'[v] = retros[v]
    BY <1>1, <1>3, IInvParts DEF RecordRetrospective, NotesOK
  <2>3. \A x \in DinnerIds : rating'[x] # rating[x] => dinners[x].week = b
    BY <1>1, <1>3 DEF RecordRetrospective
  <2> QED  BY <2>1, <2>2, <2>3 DEF TouchesOtherPlan
<1> QED  BY <1>2, <1>3

\* One chat, one plan: no write of a chat that is tied to a plan changes a
\* row of another (wkctx.go ResolvePlan, CheckDinnerInScope).
THEOREM ScopeIsolated == Spec => ScopeIsolation
<1> DEFINE Isolated ==
       \A c \in Chats :
         bound[c] # 0 /\ TouchesOtherPlan(bound[c]) => ~AgentWrite(c)
<1>1. ASSUME IInv, [Next]_vars
      PROVE  Isolated
  <2> SUFFICES ASSUME NEW c \in Chats, bound[c] # 0, AgentWrite(c)
               PROVE  ~TouchesOtherPlan(bound[c])
    OBVIOUS
  <2>1. PICK b \in Nat \ {0} : b = bound[c]
    BY <1>1, IInvParts
  <2> QED
    BY <1>1, <2>1, DinnerToolsIsolated, ExceptionToolsIsolated, PlanToolsIsolated
       DEF AgentWrite
<1>2. IInv /\ [Next]_vars => [Isolated]_vars
  BY <1>1
<1> HIDE DEF Isolated
<1>3. Spec => [][Isolated]_vars
  BY <1>2, Inductive, PTL DEF Spec
<1> QED  BY <1>3 DEF ScopeIsolation, Isolated

\* What a chat has in flight neither changes its plan nor appears by itself.
LEMMA TargetStays ==
    ASSUME IInv, DinnersKept, ExceptionRowsKept, NEW c \in Chats,
           pending'[c] \in {pending[c], Idle},
           NEW w \in WeekIds, TargetPlan(c)' = w
    PROVE  TargetPlan(c) = w
<1>1. w # 0
  BY DinnerIdsFinite
<1>2. pending'[c] = pending[c]
  BY <1>1 DEF TargetPlan, Idle, Request, DinnerOps, ExceptionOps
<1>3. CASE pending[c].op \in {"add_dinner", "add_exception"}
  BY <1>2, <1>3 DEF TargetPlan, DinnerOps, ExceptionOps
<1>4. CASE pending[c].op \in DinnerOps
  <2>1. pending[c].row \in DinnerIds /\ pending[c].row < nextDinner
    BY <1>4 DEF IInv, PendingRows, Procs
  <2>2. dinners'[pending[c].row].week \in {0, dinners[pending[c].row].week}
    BY <2>1 DEF DinnersKept
  <2> QED  BY <1>1, <1>2, <1>4, <2>2 DEF TargetPlan, DinnerOps, ExceptionOps
<1>5. CASE pending[c].op \in ExceptionOps
  <2>1. pending[c].row \in ExceptionIds /\ pending[c].row < nextException
    BY <1>5 DEF IInv, PendingRows, Procs
  <2>2. exceptions'[pending[c].row].week \in {0, exceptions[pending[c].row].week}
    BY <2>1 DEF ExceptionRowsKept
  <2> QED  BY <1>1, <1>2, <1>5, <2>2 DEF TargetPlan, DinnerOps, ExceptionOps
<1>6. CASE pending[c].op \notin MenuOps
  BY <1>1, <1>2, <1>6 DEF TargetPlan, MenuOps, DinnerOps, ExceptionOps
<1> QED  BY <1>3, <1>4, <1>5, <1>6 DEF MenuOps

\* The checks of a tool pass on a draft only.
LEMMA CheckedPlanIsDraft ==
    ASSUME IInv, NEW c \in Chats, AgentCheck(c),
           NEW w \in WeekIds, Locked(w), TargetPlan(c)' = w
    PROVE  pending'[c] \in {pending[c], Idle}
<1>1. pending \in [Procs -> Requests] /\ c \in Procs
  BY IInvParts DEF PendingOK, Procs
<1>2. CASE \E v \in 0..MaxWeek : StartTurn(c, v)
  BY <1>2 DEF StartTurn
<1>3. ASSUME NEW v \in 0..MaxWeek, CheckAddDinner(c, v) \/ CheckAddException(c, v)
      PROVE  FALSE
  <2>1. PICK u : u = ResolvePlan(c, v)
    OBVIOUS
  <2>2. PICK op \in {"add_dinner", "add_exception"} :
          pending' = [pending EXCEPT ![c] = Request(op, u, 0)]
    BY <1>3, <2>1 DEF CheckAddDinner, CheckAddException, Begin
  <2>3. pending'[c].op = op /\ pending'[c].week = u
    BY <1>1, <2>2 DEF Request
  <2>4. u = w
    BY <2>3 DEF TargetPlan, DinnerOps, ExceptionOps
  <2>5. EnsureEditable(u)
    BY <1>3, <2>1 DEF CheckAddDinner, CheckAddException
  <2> QED  BY <2>4, <2>5 DEF EnsureEditable, Locked
<1>4. ASSUME NEW op \in DinnerOps, NEW x \in DinnerIds, CheckDinner(c, op, x)
      PROVE  FALSE
  <2>1. /\ pending' = [pending EXCEPT ![c] = Request(op, 0, x)]
        /\ dinners' = dinners /\ EnsureEditable(dinners[x].week)
    BY <1>4 DEF CheckDinner, Begin, rows
  <2>2. pending'[c].op = op /\ pending'[c].row = x
    BY <1>1, <2>1 DEF Request
  <2>3. dinners[x].week = w
    BY <2>1, <2>2 DEF TargetPlan, DinnerOps, ExceptionOps
  <2> QED  BY <2>1, <2>3 DEF EnsureEditable, Locked
<1>5. ASSUME NEW op \in ExceptionOps, NEW x \in ExceptionIds, CheckException(c, op, x)
      PROVE  FALSE
  <2>1. /\ pending' = [pending EXCEPT ![c] = Request(op, 0, x)]
        /\ exceptions' = exceptions /\ EnsureEditable(exceptions[x].week)
    BY <1>5 DEF CheckException, Begin, rows
  <2>2. pending'[c].op = op /\ pending'[c].row = x
    BY <1>1, <2>1 DEF Request
  <2>3. exceptions[x].week = w
    BY <2>1, <2>2 DEF TargetPlan, DinnerOps, ExceptionOps
  <2> QED  BY <2>1, <2>3 DEF EnsureEditable, Locked
<1> QED  BY <1>2, <1>3, <1>4, <1>5 DEF AgentCheck

\* A step other than a check of chat c itself starts nothing in chat c.
LEMMA OnlyChecksStart ==
    ASSUME IInv, [Next]_vars, NEW c \in Chats
    PROVE  AgentCheck(c) \/ pending'[c] \in {pending[c], Idle}
<1>1. CASE UNCHANGED vars
  BY <1>1 DEF vars
<1>2. CASE \E s \in Days, e \in Days : CreateWeek(s, e)
  BY <1>2 DEF CreateWeek
<1>3. CASE \E w \in WeekIds : DeleteWeek(w)
  BY <1>3 DEF DeleteWeek
<1>4. CASE \/ \E x \in DinnerIds, r \in Ratings : SetDinnerRating(x, r)
           \/ \E x \in DinnerIds : ClearDinnerRating(x)
  BY <1>4 DEF SetDinnerRating, ClearDinnerRating
<1>5. CASE \E h \in Handlers : HandlerStep(h)
  BY <1>5, HandlersLeaveChat DEF LeavesChat
<1>6. ASSUME NEW d \in Chats, AgentCheck(d) \/ AgentWrite(d)
      PROVE  AgentCheck(c) \/ pending'[c] \in {pending[c], Idle}
  BY <1>6, WritesLeaveChat, OtherChecksLeaveChat DEF LeavesChat
<1>7. ASSUME NEW p \in Procs, Abandon(p)
      PROVE  pending'[c] \in {pending[c], Idle}
  BY <1>7, FinishLeavesChat DEF Abandon, LeavesChat
<1> QED
  BY <1>1, <1>2, <1>3, <1>4, <1>5, <1>6, <1>7 DEF Next

\* The status guard of the menu tools (wkctx.go EnsureEditable) keeps new
\* edits of a locked plan from starting: the ones in flight are the last.
THEOREM LockedPlansDrain == Spec => LockedPlanDrains
<1> DEFINE Drains ==
       \A w \in WeekIds, c \in Chats :
         Locked(w) /\ Locked(w)' /\ TargetPlan(c)' = w => TargetPlan(c) = w
<1>1. ASSUME IInv, [Next]_vars
      PROVE  Drains
  <2>1. DinnersKept /\ ExceptionRowsKept
    BY <1>1, StepKeepsDinners, StepKeepsExceptionRows
  <2> SUFFICES ASSUME NEW w \in WeekIds, NEW c \in Chats,
                      Locked(w), TargetPlan(c)' = w
               PROVE  TargetPlan(c) = w
    OBVIOUS
  <2>2. pending'[c] \in {pending[c], Idle}
    BY <1>1, OnlyChecksStart, CheckedPlanIsDraft
  <2> QED  BY <1>1, <2>1, <2>2, TargetStays
<1>2. IInv /\ [Next]_vars => [Drains]_vars
  BY <1>1
<1> HIDE DEF Drains
<1>3. Spec => [][Drains]_vars
  BY <1>2, Inductive, PTL DEF Spec
<1> QED  BY <1>3 DEF LockedPlanDrains, Drains
=============================================================================
