---------------------------- MODULE PlanSchedule ----------------------------
(***************************************************************************)
(* The date arithmetic of a weekly plan, as the SQL of                     *)
(* internal/server/weeks.go does it.  A dinner table t is a function from  *)
(* dinner ids to rows [week, day, dish]; the row of an id that is not in   *)
(* the table is NoDinner (week 0).  Days are integers, a dish is what the  *)
(* row shows (NoContent for an empty slot).  sort_order is 0 in every row  *)
(* of this program, so ORDER BY day_date, sort_order, id is day, then id.  *)
(***************************************************************************)
EXTENDS Integers, FiniteSets

CONSTANT NoContent      \* a dinner row whose dish_id is NULL: an empty slot

NoDinner == [week |-> 0, day |-> 0, dish |-> NoContent]

\* A date field the request leaves out.
NoDate == 0

DinnersOf(t, w) == {x \in DOMAIN t : t[x].week = w}

\* x is listed before y: ORDER BY day_date, sort_order, id.
Before(t, x, y) == t[x].day < t[y].day \/ (t[x].day = t[y].day /\ x < y)

\* row_number() OVER (ORDER BY day_date, sort_order, id) - 1 within x's plan.
Rank(t, x) ==
    Cardinality({y \in DOMAIN t : t[y].week = t[x].week /\ Before(t, y, x)})

\* The dinners of w on consecutive days from s, in their order.
Pack(t, w, s) ==
    [x \in DOMAIN t |-> IF t[x].week = w
                        THEN [t[x] EXCEPT !.day = s + Rank(t, x)]
                        ELSE t[x]]

\* DELETE FROM week_dinners WHERE week_id = w AND day_date > e.
Truncate(t, w, e) ==
    [x \in DOMAIN t |-> IF t[x].week = w /\ t[x].day > e THEN NoDinner ELSE t[x]]

\* The position of day d among the days D.
DayRank(D, d) == Cardinality({c \in D : c < d})

\* One empty dinner of w on each day of D, under the ids n, n + 1, ...
AddSlots(t, w, D, n) ==
    [x \in DOMAIN t |->
        IF \E d \in D : x = n + DayRank(D, d)
        THEN [week |-> w,
              day  |-> CHOOSE d \in D : x = n + DayRank(D, d),
              dish |-> NoContent]
        ELSE t[x]]

\* The dinners of plan v copied into plan w on consecutive days from s, in
\* their order, under the ids n, n + 1, ...
CopyDinners(t, v, w, s, n) ==
    [x \in DOMAIN t |->
        IF \E y \in DinnersOf(t, v) : x = n + Rank(t, y)
        THEN [week |-> w,
              day  |-> s + (x - n),
              dish |-> t[CHOOSE y \in DinnersOf(t, v) : x = n + Rank(t, y)].dish]
        ELSE t[x]]

\* Faulty variant: the series stops a day early.
UncoveredDaysButLast(t, w, s, e) ==
    {d \in s..(e - 1) : \A x \in DinnersOf(t, w) : t[x].day # d}

\* The days of s..e on which w has no dinner: the clone's NOT EXISTS.
UncoveredDays(t, w, s, e) ==
    {d \in s..e : \A x \in DinnersOf(t, w) : t[x].day # d}

(***************************************************************************)
(* PATCH /api/weeks/{id}: what the fields start s and end e (NoDate: left  *)
(* out) mean for a plan whose dates were read as cur.  moved: the start    *)
(* changes.  start, end: the dates written.  base: the end the resize is   *)
(* measured against, which is the slid end only when the caller left the   *)
(* end out and is the OLD end otherwise.                                   *)
(***************************************************************************)
\* Faulty variant: the resize is always measured against the end read, so a
\* slid end counts as an extension or a cut.
PatchDatesFromOldEnd(cur, s, e) ==
    LET moved == s # NoDate /\ s # cur.start
        slid  == cur.end + (s - cur.start)
    IN  [moved   |-> moved,
         start   |-> IF s # NoDate THEN s ELSE cur.start,
         endSet  |-> e # NoDate \/ moved,
         end     |-> IF e # NoDate THEN e ELSE IF moved THEN slid ELSE cur.end,
         base    |-> cur.end]

PatchDates(cur, s, e) ==
    LET moved == s # NoDate /\ s # cur.start
        slid  == cur.end + (s - cur.start)
    IN  [moved   |-> moved,
         start   |-> IF s # NoDate THEN s ELSE cur.start,
         endSet  |-> e # NoDate \/ moved,
         end     |-> IF e # NoDate THEN e ELSE IF moved THEN slid ELSE cur.end,
         base    |-> IF e = NoDate /\ moved THEN slid ELSE cur.end]

\* The dinner table after the side effects of such a PATCH on plan w.
PatchDinners(t, w, p, n) ==
    LET packed == IF p.moved THEN Pack(t, w, p.start) ELSE t
    IN  CASE p.end < p.base -> Truncate(packed, w, p.end)
          [] p.end > p.base -> AddSlots(packed, w, (p.base + 1)..p.end, n)
          [] OTHER          -> packed

(***************************************************************************)
(* What a schedule should look like: one row on each day, none outside.    *)
(***************************************************************************)
OneRowPerDay(t, w, s, e) ==
    /\ \A d \in s..e : Cardinality({x \in DinnersOf(t, w) : t[x].day = d}) = 1
    /\ \A x \in DinnersOf(t, w) : t[x].day \in s..e
=============================================================================
