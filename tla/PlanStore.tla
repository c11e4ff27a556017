----------------------------- MODULE PlanStore -----------------------------
(***************************************************************************)
(* The plans of veckomenyn and everything that hangs off them (dinners,    *)
(* their ratings, exceptions, retrospectives) in PostgreSQL, with all the  *)
(* code that writes them: the HTTP handlers of internal/server and the     *)
(* agent's tools of internal/agent, run concurrently by several chats.     *)
(*                                                                         *)
(* A tool or handler that reads first and writes later is two actions.  In *)
(* between it is in flight in pending, and what it keeps of its read is    *)
(* there; transactions run at READ COMMITTED, so nothing it read is        *)
(* locked.  A transaction's writes become visible together at its commit   *)
(* and are one action.                                                     *)
(***************************************************************************)
EXTENDS PlanSchedule

CONSTANTS
    Chats,          \* agent turns that can run at the same time
    Handlers,       \* HTTP requests that can be in flight at the same time
    MaxWeek,        \* bound: plans ever created
    MaxDinner,      \* bound: dinner rows ever created
    MaxException,   \* bound: exception rows ever created
    MaxRetros,      \* bound: retrospective rows of one plan
    Days,           \* the dates a request can name
    Statuses,       \* plan statuses, "draft" among them
    Contents,       \* what a dish or an exception can say
    Ratings         \* what a rating can say

ASSUME ConstantsAssumption ==
    /\ MaxWeek \in Nat /\ MaxDinner \in Nat
    /\ MaxException \in Nat /\ MaxRetros \in Nat
    /\ Days \subseteq Int \ {NoDate}
    /\ "draft" \in Statuses /\ "none" \notin Statuses
    /\ NoContent \notin Contents
    /\ "none" \notin Ratings
    /\ Chats \cap Handlers = {}

WeekIds == 1..MaxWeek
DinnerIds == 1..MaxDinner
ExceptionIds == 1..MaxException
Procs == Chats \cup Handlers

VARIABLES
    weeks,          \* plan id -> [start, end, status]; NoWeek: no such row
    dinners,        \* dinner id -> [week, day, dish]; NoDinner: no such row
    rating,         \* dinner id -> its rating, "none" without a row
    exceptions,     \* exception id -> [week, text]; NoException: no such row
    retros,         \* plan id -> number of retrospective rows
    nextWeek,       \* the identity sequences: the next id to hand out
    nextDinner,
    nextException,
    bound,          \* chat -> the plan its turn is tied to, 0 without one
    pending         \* process -> the operation it has read for, not written

rows == <<weeks, dinners, rating, exceptions, retros>>
ids == <<nextWeek, nextDinner, nextException>>
vars == <<rows, ids, bound, pending>>

NoWeek == [start |-> 0, end |-> 0, status |-> "none"]
NoException == [week |-> 0, text |-> NoContent]
\* An operation in flight at plan w or row x, with no dates of its own.
Request(op, w, x) == [op |-> op, week |-> w, row |-> x, start |-> 0, end |-> 0]
Idle == Request("idle", 0, 0)

DinnerOps == {"update_dinner", "delete_dinner"}
ExceptionOps == {"update_exception", "delete_exception"}
Ops == {"idle", "add_dinner", "add_exception", "patch", "clone", "put_retro"}
         \cup DinnerOps \cup ExceptionOps

Exists(w) == w \in WeekIds /\ weeks[w] # NoWeek

\* Every variable has its type, and the identity sequences are ahead of
\* every row, committed or not: an id is handed out once (GENERATED ALWAYS AS
\* IDENTITY, migrations 00001).
TypeOK ==
    /\ weeks \in [WeekIds -> [start : Int, end : Int, status : Statuses \cup {"none"}]]
    /\ dinners \in [DinnerIds -> [week : Nat, day : Int, dish : Contents \cup {NoContent}]]
    /\ rating \in [DinnerIds -> Ratings \cup {"none"}]
    /\ exceptions \in [ExceptionIds -> [week : Nat, text : Contents \cup {NoContent}]]
    /\ retros \in [WeekIds -> Nat]
    /\ nextWeek \in Nat \ {0} /\ nextDinner \in Nat \ {0} /\ nextException \in Nat \ {0}
    /\ bound \in [Chats -> Nat]
    /\ pending \in [Procs -> [op : Ops, week : Nat, row : Nat, start : Int, end : Int]]
    /\ \A w \in WeekIds : w >= nextWeek => weeks[w] = NoWeek
    /\ \A x \in DinnerIds : x >= nextDinner => dinners[x] = NoDinner
    /\ \A x \in ExceptionIds : x >= nextException => exceptions[x] = NoException

Init ==
    /\ weeks = [w \in WeekIds |-> NoWeek]
    /\ dinners = [x \in DinnerIds |-> NoDinner]
    /\ rating = [x \in DinnerIds |-> "none"]
    /\ exceptions = [x \in ExceptionIds |-> NoException]
    /\ retros = [w \in WeekIds |-> 0]
    /\ nextWeek = 1 /\ nextDinner = 1 /\ nextException = 1
    /\ bound = [c \in Chats |-> 0]
    /\ pending = [p \in Procs |-> Idle]

Begin(p, op) == pending[p] = Idle /\ pending' = [pending EXCEPT ![p] = op]
Finish(p) == pending' = [pending EXCEPT ![p] = Idle]

\* ON DELETE CASCADE of dish_ratings: a rating lives as long as its dinner.
CascadeRatings ==
    rating' = [x \in DinnerIds |->
                 IF dinners'[x].week = 0 THEN "none" ELSE rating[x]]

(***************************************************************************)
(* The HTTP handlers.                                                      *)
(***************************************************************************)

\* POST /api/weeks and the create_week tool: any two dates, a draft, no rows.
CreateWeek(s, e) ==
    /\ nextWeek <= MaxWeek
    /\ weeks' = [weeks EXCEPT ![nextWeek] =
                   [start |-> s, end |-> e, status |-> "draft"]]
    /\ nextWeek' = nextWeek + 1
    /\ UNCHANGED <<dinners, rating, exceptions, retros, nextDinner,
                   nextException, bound, pending>>

\* DELETE /api/weeks/{id}: the foreign keys take everything else along.
DeleteWeek(w) ==
    /\ Exists(w)
    /\ weeks' = [weeks EXCEPT ![w] = NoWeek]
    /\ dinners' = [x \in DinnerIds |->
                     IF dinners[x].week = w THEN NoDinner ELSE dinners[x]]
    /\ CascadeRatings
    /\ exceptions' = [x \in ExceptionIds |->
                        IF exceptions[x].week = w THEN NoException
                        ELSE exceptions[x]]
    /\ retros' = [retros EXCEPT ![w] = 0]
    /\ UNCHANGED <<ids, bound, pending>>

\* PATCH /api/weeks/{id}: begin, and read the plan's dates.
ReadPatch(h, w) ==
    /\ Exists(w)
    /\ Begin(h, [op |-> "patch", week |-> w, row |-> 0,
                 start |-> weeks[w].start, end |-> weeks[w].end])
    /\ UNCHANGED <<rows, ids, bound>>

\* Rejected with 400: the resize would end the plan before it starts.
EndBeforeStart(p) == p.end # p.base /\ p.end < p.start

\* The rest of the PATCH, up to its commit: the side effects on the dinners
\* are computed from the dates read, the plan's row takes the fields given.
\* st = "none": no status field.
CommitPatch(h, s, e, st) ==
    LET w == pending[h].week
        p == PatchDates(pending[h], s, e)
        added == IF p.end > p.base THEN p.end - p.base ELSE 0
    IN  /\ pending[h].op = "patch"
        /\ s # NoDate \/ e # NoDate \/ st # "none"
        /\ Exists(w)
        /\ ~EndBeforeStart(p)
        /\ nextDinner + added <= MaxDinner + 1
        /\ dinners' = PatchDinners(dinners, w, p, nextDinner)
        /\ nextDinner' = nextDinner + added
        /\ CascadeRatings
        /\ weeks' = [weeks EXCEPT ![w] =
             [start  |-> IF s # NoDate THEN s ELSE @.start,
              end    |-> IF p.endSet THEN p.end ELSE @.end,
              status |-> IF st # "none" THEN st ELSE @.status]]
        /\ Finish(h)
        /\ UNCHANGED <<exceptions, retros, nextWeek, nextException, bound>>

\* Faulty variant: the copy's id is not taken from the sequence.
BeginCloneUnnumbered(h, v, s) ==
    LET start == IF s # NoDate THEN s ELSE weeks[v].start + 7
    IN  /\ Exists(v)
        /\ nextWeek <= MaxWeek
        /\ Begin(h, [op |-> "clone", week |-> v, row |-> nextWeek,
                     start |-> start,
                     end |-> start + (weeks[v].end - weeks[v].start)])
        /\ UNCHANGED <<rows, ids, bound>>

\* POST /api/weeks/{id}/clone: begin, read the source's dates, take an id for
\* the copy.  Nobody sees the new row before the commit.
BeginClone(h, v, s) ==
    LET start == IF s # NoDate THEN s ELSE weeks[v].start + 7
    IN  /\ Exists(v)
        /\ nextWeek <= MaxWeek
        /\ Begin(h, [op |-> "clone", week |-> v, row |-> nextWeek,
                     start |-> start,
                     end |-> start + (weeks[v].end - weeks[v].start)])
        /\ nextWeek' = nextWeek + 1
        /\ UNCHANGED <<rows, nextDinner, nextException, bound>>

\* The rest of the clone, up to its commit: copy the dinners the source has
\* now, then give every uncovered day an empty slot.
CommitClone(h) ==
    LET v == pending[h].week
        w == pending[h].row
        s == pending[h].start
        e == pending[h].end
        copies == Cardinality(DinnersOf(dinners, v))
        copied == CopyDinners(dinners, v, w, s, nextDinner)
        gaps == UncoveredDays(copied, w, s, e)
    IN  /\ pending[h].op = "clone"
        /\ nextDinner + copies + Cardinality(gaps) <= MaxDinner + 1
        /\ weeks' = [weeks EXCEPT ![w] =
                       [start |-> s, end |-> e, status |-> "draft"]]
        /\ dinners' = AddSlots(copied, w, gaps, nextDinner + copies)
        /\ nextDinner' = nextDinner + copies + Cardinality(gaps)
        /\ Finish(h)
        /\ UNCHANGED <<rating, exceptions, retros, nextWeek, nextException, bound>>

\* PUT and DELETE /api/dinners/{id}/rating: one statement each.
SetDinnerRating(x, r) ==
    /\ dinners[x].week # 0
    /\ rating' = [rating EXCEPT ![x] = r]
    /\ UNCHANGED <<weeks, dinners, exceptions, retros, ids, bound, pending>>

ClearDinnerRating(x) ==
    /\ rating[x] # "none"
    /\ rating' = [rating EXCEPT ![x] = "none"]
    /\ UNCHANGED <<weeks, dinners, exceptions, retros, ids, bound, pending>>

\* PUT /api/weeks/{id}/retrospective: the UPDATE of the latest row found none.
\* (When it finds one, only the note's text changes.)
UpdateRetrospective(h, w) ==
    /\ Exists(w)
    /\ retros[w] = 0
    /\ Begin(h, Request("put_retro", w, 0))
    /\ UNCHANGED <<rows, ids, bound>>

\* ... so a row is inserted, in a statement of its own.
InsertRetrospective(h) ==
    LET w == pending[h].week
    IN  /\ pending[h].op = "put_retro"
        /\ Exists(w)
        /\ retros[w] < MaxRetros
        /\ retros' = [retros EXCEPT ![w] = @ + 1]
        /\ Finish(h)
        /\ UNCHANGED <<weeks, dinners, rating, exceptions, ids, bound>>

(***************************************************************************)
(* The agent's tools.  A tool's checks and its write are two actions.      *)
(***************************************************************************)

\* A turn begins: POST /api/chat ties it to the plan id the client sent,
\* which may have been deleted since, or to none.
StartTurn(c, w) ==
    /\ pending[c] = Idle
    /\ w < nextWeek
    /\ bound' = [bound EXCEPT ![c] = w]
    /\ UNCHANGED <<rows, ids, pending>>

\* Faulty variant: the model's explicit week_id wins over the binding.
ResolveExplicitFirst(c, provided) == IF provided # 0 THEN provided ELSE bound[c]

\* The plan a write tool targets, given the model's week_id (0: omitted);
\* 0: refused.
ResolvePlan(c, provided) ==
    CASE bound[c] = 0                   -> provided
      [] provided \in {0, bound[c]}     -> bound[c]
      [] OTHER                          -> 0

EnsureExists(w) == Exists(w)            \* faulty variant: no status guard

\* Only a draft's menu may change.
EnsureEditable(w) == Exists(w) /\ weeks[w].status = "draft"

InAnyScope(c, w) == TRUE                \* faulty variant: no scope check

\* A row of plan w may be touched by chat c.
InScope(c, w) == bound[c] \in {0, w}

CheckAddDinner(c, provided) ==
    LET w == ResolvePlan(c, provided)
    IN  /\ EnsureEditable(w)
        /\ Begin(c, Request("add_dinner", w, 0))
        /\ UNCHANGED <<rows, ids, bound>>

\* Faulty variant: no foreign key from week_dinners to weeks.
AddDinnerUnreferenced(c, day, dish) ==
    /\ pending[c].op = "add_dinner"
    /\ nextDinner <= MaxDinner
    /\ dinners' = [dinners EXCEPT ![nextDinner] =
                     [week |-> pending[c].week, day |-> day, dish |-> dish]]
    /\ nextDinner' = nextDinner + 1
    /\ Finish(c)
    /\ UNCHANGED <<weeks, rating, exceptions, retros, nextWeek, nextException, bound>>

\* The INSERT.  The foreign key refuses it when the plan is gone.
AddDinner(c, day, dish) ==
    LET w == pending[c].week
    IN  /\ pending[c].op = "add_dinner"
        /\ Exists(w)
        /\ nextDinner <= MaxDinner
        /\ dinners' = [dinners EXCEPT ![nextDinner] =
                         [week |-> w, day |-> day, dish |-> dish]]
        /\ nextDinner' = nextDinner + 1
        /\ Finish(c)
        /\ UNCHANGED <<weeks, rating, exceptions, retros, nextWeek,
                       nextException, bound>>

CheckDinner(c, op, x) ==
    /\ dinners[x].week # 0
    /\ InScope(c, dinners[x].week)
    /\ EnsureEditable(dinners[x].week)
    /\ Begin(c, Request(op, 0, x))
    /\ UNCHANGED <<rows, ids, bound>>

\* Faulty variant: an upsert, which brings a dinner back that is gone.
UpsertDinner(c, dish) ==
    LET x == pending[c].row
    IN  /\ pending[c].op = "update_dinner"
        /\ dinners' = [dinners EXCEPT ![x] =
                         [week |-> bound[c], day |-> @.day, dish |-> dish]]
        /\ Finish(c)
        /\ UNCHANGED <<weeks, rating, exceptions, retros, ids, bound>>

\* A new dish row, and the dinner repointed to it; the day is re-read first,
\* and a dinner that is gone ends the transaction.
UpdateDinner(c, dish) ==
    LET x == pending[c].row
    IN  /\ pending[c].op = "update_dinner"
        /\ dinners[x].week # 0
        /\ dinners' = [dinners EXCEPT ![x].dish = dish]
        /\ Finish(c)
        /\ UNCHANGED <<weeks, rating, exceptions, retros, ids, bound>>

DeleteDinner(c) ==
    LET x == pending[c].row
    IN  /\ pending[c].op = "delete_dinner"
        /\ dinners' = [dinners EXCEPT ![x] = NoDinner]
        /\ CascadeRatings
        /\ Finish(c)
        /\ UNCHANGED <<weeks, exceptions, retros, ids, bound>>

CheckAddException(c, provided) ==
    LET w == ResolvePlan(c, provided)
    IN  /\ EnsureEditable(w)
        /\ Begin(c, Request("add_exception", w, 0))
        /\ UNCHANGED <<rows, ids, bound>>

AddException(c, text) ==
    LET w == pending[c].week
    IN  /\ pending[c].op = "add_exception"
        /\ Exists(w)
        /\ nextException <= MaxException
        /\ exceptions' = [exceptions EXCEPT ![nextException] =
                            [week |-> w, text |-> text]]
        /\ nextException' = nextException + 1
        /\ Finish(c)
        /\ UNCHANGED <<weeks, dinners, rating, retros, nextWeek, nextDinner, bound>>

CheckException(c, op, x) ==
    /\ exceptions[x].week # 0
    /\ InScope(c, exceptions[x].week)
    /\ EnsureEditable(exceptions[x].week)
    /\ Begin(c, Request(op, 0, x))
    /\ UNCHANGED <<rows, ids, bound>>

\* One UPDATE or DELETE; neither finds a row that is gone.
UpdateException(c, text) ==
    LET x == pending[c].row
    IN  /\ pending[c].op = "update_exception"
        /\ exceptions' = [exceptions EXCEPT ![x].text =
                            IF exceptions[x].week = 0 THEN @ ELSE text]
        /\ Finish(c)
        /\ UNCHANGED <<weeks, dinners, rating, retros, ids, bound>>

DeleteException(c) ==
    LET x == pending[c].row
    IN  /\ pending[c].op = "delete_exception"
        /\ exceptions' = [exceptions EXCEPT ![x] = NoException]
        /\ Finish(c)
        /\ UNCHANGED <<weeks, dinners, rating, retros, ids, bound>>

\* update_week: one UPDATE of the plan's row with whatever fields the model
\* passed.  No status guard, and none of the PATCH handler's side effects.
AgentUpdateWeek(c, provided, s, e, st) ==
    LET w == ResolvePlan(c, provided)
    IN  /\ pending[c] = Idle
        /\ Exists(w)
        /\ s # NoDate \/ e # NoDate \/ st # "none"
        /\ weeks' = [weeks EXCEPT ![w] =
             [start  |-> IF s # NoDate THEN s ELSE @.start,
              end    |-> IF e # NoDate THEN e ELSE @.end,
              status |-> IF st # "none" THEN st ELSE @.status]]
        /\ UNCHANGED <<dinners, rating, exceptions, retros, ids, bound, pending>>

\* record_retrospective: one transaction.  It inserts the note and upserts
\* the ratings f; a rated dinner of another plan rolls all of it back.
RecordRetrospective(c, provided, f) ==
    LET w == ResolvePlan(c, provided)
    IN  /\ pending[c] = Idle
        /\ Exists(w)
        /\ retros[w] < MaxRetros
        /\ \A x \in DOMAIN f : dinners[x].week = w
        /\ retros' = [retros EXCEPT ![w] = @ + 1]
        /\ rating' = [x \in DinnerIds |->
                        IF x \in DOMAIN f THEN f[x] ELSE rating[x]]
        /\ UNCHANGED <<weeks, dinners, exceptions, ids, bound, pending>>

(***************************************************************************)
(* An operation in flight ends without a write: a statement fails (the     *)
(* foreign key, the row is gone, a 400), the client cancels the turn, or   *)
(* the server dies.  Its transaction is rolled back.                       *)
(***************************************************************************)
Abandon(p) ==
    /\ pending[p] # Idle
    /\ Finish(p)
    /\ UNCHANGED <<rows, ids, bound>>

AgentWrite(c) ==
    \/ \E day \in Days, dish \in Contents : AddDinner(c, day, dish)
    \/ \E dish \in Contents : UpdateDinner(c, dish)
    \/ DeleteDinner(c)
    \/ \E text \in Contents : AddException(c, text) \/ UpdateException(c, text)
    \/ DeleteException(c)
    \/ \E w \in 0..MaxWeek, s \in Days \cup {NoDate}, e \in Days \cup {NoDate},
          st \in Statuses \cup {"none"} : AgentUpdateWeek(c, w, s, e, st)
    \/ \E w \in 0..MaxWeek, R \in SUBSET DinnerIds :
         \E f \in [R -> Ratings] : RecordRetrospective(c, w, f)

AgentCheck(c) ==
    \/ \E w \in 0..MaxWeek : StartTurn(c, w)
    \/ \E w \in 0..MaxWeek : CheckAddDinner(c, w) \/ CheckAddException(c, w)
    \/ \E op \in DinnerOps, x \in DinnerIds : CheckDinner(c, op, x)
    \/ \E op \in ExceptionOps, x \in ExceptionIds : CheckException(c, op, x)

HandlerStep(h) ==
    \/ \E w \in WeekIds : ReadPatch(h, w) \/ UpdateRetrospective(h, w)
    \/ \E w \in WeekIds, s \in Days \cup {NoDate} : BeginClone(h, w, s)
    \/ \E s \in Days \cup {NoDate}, e \in Days \cup {NoDate},
          st \in Statuses \cup {"none"} : CommitPatch(h, s, e, st)
    \/ CommitClone(h)
    \/ InsertRetrospective(h)

Next ==
    \/ \E s \in Days, e \in Days : CreateWeek(s, e)
    \/ \E w \in WeekIds : DeleteWeek(w)
    \/ \E x \in DinnerIds, r \in Ratings : SetDinnerRating(x, r)
    \/ \E x \in DinnerIds : ClearDinnerRating(x)
    \/ \E h \in Handlers : HandlerStep(h)
    \/ \E c \in Chats : AgentCheck(c) \/ AgentWrite(c)
    \/ \E p \in Procs : Abandon(p)

Spec == Init /\ [][Next]_vars

(***************************************************************************)
(* Properties.                                                             *)
(***************************************************************************)
MenuOps == {"add_dinner", "add_exception"} \cup DinnerOps \cup ExceptionOps

\* The plan whose menu the operation in flight at p is about to change; 0 if
\* none (any more).
TargetPlan(p) ==
    CASE pending[p].op \in {"add_dinner", "add_exception"} -> pending[p].week
      [] pending[p].op \in DinnerOps    -> dinners[pending[p].row].week
      [] pending[p].op \in ExceptionOps -> exceptions[pending[p].row].week
      [] OTHER -> 0

Locked(w) == Exists(w) /\ weeks[w].status # "draft"

\* Rows hang off plans that exist, whatever order deletions, cancelled calls
\* and writes that were checked before a deletion happen in: no dinner,
\* exception or retrospective of a deleted plan, no rating of a deleted
\* dinner (migrations 00001, weeks.go handleDeleteWeek, addDinnerTool).
NoOrphans ==
    /\ \A x \in DinnerIds : dinners[x].week # 0 => Exists(dinners[x].week)
    /\ \A x \in ExceptionIds : exceptions[x].week # 0 => Exists(exceptions[x].week)
    /\ \A w \in WeekIds : retros[w] # 0 => Exists(w)
    /\ \A x \in DinnerIds : rating[x] # "none" => dinners[x].week # 0

\* Between a tool's scope check and its write the world may change, and yet
\* what a bound chat is about to write stays in its own plan or is gone
\* (wkctx.go CheckDinnerInScope: the check and the write are not one
\* transaction).
PendingInScope ==
    \A c \in Chats :
        bound[c] # 0 /\ pending[c].op \in MenuOps => TargetPlan(c) \in {0, bound[c]}

\* The step changes a row of a plan other than w.
TouchesOtherPlan(w) ==
    \/ \E v \in WeekIds \ {w} : weeks'[v] # weeks[v] \/ retros'[v] # retros[v]
    \/ \E x \in DinnerIds :
         /\ dinners'[x] # dinners[x] \/ rating'[x] # rating[x]
         /\ ~({dinners[x].week, dinners'[x].week} \subseteq {0, w})
    \/ \E x \in ExceptionIds :
         /\ exceptions'[x] # exceptions[x]
         /\ ~({exceptions[x].week, exceptions'[x].week} \subseteq {0, w})

\* One chat, one plan: a step that changes another plan's row is never a
\* write of a chat that is tied to a plan (wkctx.go ResolvePlan,
\* CheckDinnerInScope; system.md "Scope: one chat, one plan").
ScopeIsolation ==
    [][\A c \in Chats :
         bound[c] # 0 /\ TouchesOtherPlan(bound[c]) => ~AgentWrite(c)]_vars

\* A row keeps its plan for life and a deleted row stays deleted, whatever
\* writes were in flight when it went: the reason a scope check stays true.
RowIdentity ==
    [][/\ \A x \in DinnerIds :
            x < nextDinner => dinners'[x].week \in {0, dinners[x].week}
       /\ \A x \in ExceptionIds :
            x < nextException => exceptions'[x].week \in {0, exceptions[x].week}]_vars

\* While a plan stays locked the chats only finish what they had checked
\* before: its edits in flight are never joined by new ones (wkctx.go
\* EnsureEditable).
LockedPlanDrains ==
    [][\A w \in WeekIds, c \in Chats :
         Locked(w) /\ Locked(w)' /\ TargetPlan(c)' = w => TargetPlan(c) = w]_vars

\* What a menu shows.
Menu(w) ==
    <<[x \in DinnersOf(dinners, w) |-> dinners[x]],
      {x \in ExceptionIds : exceptions[x].week = w}>>

\* wkctx.go EnsureEditable's promise in full: no write of a chat changes the
\* menu of a plan that is locked.  (Not so: see the run locked_menu_race.)
LockedMenuFrozen ==
    [][\A c \in Chats, w \in WeekIds :
         AgentWrite(c) /\ Locked(w) => Menu(w)' = Menu(w)]_vars

(***************************************************************************)
(* Schedules.                                                              *)
(***************************************************************************)
Scheduled(w) == OneRowPerDay(dinners, w, weeks[w].start, weeks[w].end)

DatesOrdered(w) == weeks[w].start <= weeks[w].end

\* A PATCH of plan w is in flight at h, and the dates it has read are still
\* the plan's.
FreshPatch(h, w) ==
    /\ pending[h] = [op |-> "patch", week |-> w, row |-> 0,
                     start |-> weeks[w].start, end |-> weeks[w].end]
    /\ Exists(w)

\* A PATCH of one date whose read is still true keeps a plan that has one
\* row per day that way: packing, sliding, truncating and adding slots agree
\* with each other (weeks.go handlePatchWeek).
FreshPatchKeepsSchedule ==
    [][\A h \in Handlers, w \in WeekIds :
         /\ FreshPatch(h, w) /\ DatesOrdered(w) /\ Scheduled(w)
         /\ \E st \in Statuses \cup {"none"}, d \in Days :
               CommitPatch(h, d, NoDate, st) \/ CommitPatch(h, NoDate, d, st)
         => DatesOrdered(w)' /\ Scheduled(w)']_vars

\* A clone leaves its source alone and has one row for each of its days, also
\* when the source changed between the clone's statements ("always has one row
\* per day"): the source's dinners in their order, and empty slots for the
\* rest.  A source with a row on each of its days keeps its calendar, every
\* dinner shifted by the same offset; one with gaps does not, though the comment
\* on the handler says so of all (weeks.go handleCloneWeek, 588 and 643).
CloneIsComplete ==
    [][\A h \in Handlers :
         LET v == pending[h].week
             w == pending[h].row
             s == weeks'[w].start
             source == DinnersOf(dinners, v)
             clone == DinnersOf(dinners', w)
         IN  CommitClone(h) =>
             /\ \A x \in source : dinners'[x] = dinners[x]
             /\ \A d \in s..weeks'[w].end : \E x \in clone : dinners'[x].day = d
             /\ \A x, y \in clone : dinners'[x].day = dinners'[y].day => x = y
             /\ \E copy \in [source -> clone] :
                  /\ \A x \in source : dinners'[copy[x]].dish = dinners[x].dish
                  /\ \A x, y \in source :
                        Before(dinners, x, y) => dinners'[copy[x]].day < dinners'[copy[y]].day
                  /\ \A y \in clone :
                        (\A x \in source : copy[x] # y) => dinners'[y].dish = NoContent
                  /\ Scheduled(v) =>
                        \A x \in source :
                           dinners'[copy[x]].day - s = dinners[x].day - weeks[v].start]_vars

\* "end_date cannot be before start_date" (weeks.go handlePatchWeek): a PATCH
\* never ends a plan before it starts.  (Not so: see the run patch_dates.)
PatchKeepsDatesOrdered ==
    [][\A h \in Handlers, w \in WeekIds :
         /\ pending[h].op = "patch" /\ pending[h].week = w
         /\ Exists(w) /\ DatesOrdered(w)
         /\ \E s \in Days \cup {NoDate}, e \in Days \cup {NoDate},
               st \in Statuses \cup {"none"} : CommitPatch(h, s, e, st)
         => DatesOrdered(w)']_vars

(***************************************************************************)
(* The store as a book of plans.                                           *)
(***************************************************************************)
\* A plan with all that hangs off it, and no plan.
NoDocument == <<>>
Document(w) ==
    IF weeks[w] = NoWeek THEN NoDocument
    ELSE <<weeks[w],
           [x \in DinnersOf(dinners, w) |-> <<dinners[x], rating[x]>>],
           [x \in {x \in ExceptionIds : exceptions[x].week = w} |-> exceptions[x]],
           retros[w]>>

Copies == {p \in Procs : pending[p].op = "clone"}

Book == INSTANCE PlanBook WITH
    Plans <- WeekIds, Absent <- NoDocument,
    book <- [w \in WeekIds |-> Document(w)],
    numbered <- nextWeek,
    reserved <- {pending[p].row : p \in Copies}

\* Handlers and tools that run at the same time never write a plan and another
\* one in the same step, publish a plan twice or under the number of another,
\* or bring a deleted plan back (weeks.go, tools.go; the foreign keys).
KeepsBook == Book!BookSpec
=============================================================================
