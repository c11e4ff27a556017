--------------------------- MODULE PlanBookProofs ---------------------------
(***************************************************************************)
(* PlanStore implements PlanBook for every number of chats, handlers,      *)
(* plans and rows: whatever a step of the server does to its tables, it    *)
(* writes the document of one plan at most.  And what clones and patches   *)
(* leave on each day of a plan's calendar, from an empty database and from *)
(* one in use.                                                             *)
(***************************************************************************)
EXTENDS MCPlans, PlanStoreProofs

\* A plan that is there has a document.
LEMMA ThereIsADocument ==
    ASSUME NEW w
    PROVE  (Document(w) = NoDocument <=> weeks[w] = NoWeek)
           /\ (Document(w)' = NoDocument <=> weeks'[w] = NoWeek)
BY DEF Document, NoDocument

\* A step that touches the rows of one plan only leaves the document of
\* another, with all that is on it.
LEMMA DocumentStays ==
    ASSUME TypeOK, TypeOK', NEW w, ~TouchesOtherPlan(w), NEW v \in WeekIds, v # w
    PROVE  Document(v)' = Document(v)
<1>1. v # 0
  BY DinnerIdsFinite
<1>2. weeks'[v] = weeks[v] /\ retros'[v] = retros[v]
  BY DEF TouchesOtherPlan
<1>3. DOMAIN dinners = DinnerIds /\ DOMAIN dinners' = DinnerIds
  BY DEF TypeOK
<1>4. ASSUME NEW x \in DinnerIds, dinners[x].week = v \/ dinners'[x].week = v
      PROVE  dinners'[x] = dinners[x] /\ rating'[x] = rating[x]
  BY <1>1, <1>4 DEF TouchesOtherPlan
<1>5. DinnersOf(dinners', v) = DinnersOf(dinners, v)
  BY <1>3, <1>4 DEF DinnersOf
<1>6. [x \in DinnersOf(dinners', v) |-> <<dinners'[x], rating'[x]>>]
      = [x \in DinnersOf(dinners, v) |-> <<dinners[x], rating[x]>>]
  <2>1. ASSUME NEW x \in DinnersOf(dinners, v)
        PROVE  dinners'[x] = dinners[x] /\ rating'[x] = rating[x]
    BY <1>3, <1>4, <2>1 DEF DinnersOf
  <2> QED  BY <1>5, <2>1
<1>7. ASSUME NEW x \in ExceptionIds, exceptions[x].week = v \/ exceptions'[x].week = v
      PROVE  exceptions'[x] = exceptions[x]
  BY <1>1, <1>7 DEF TouchesOtherPlan
<1>8. {x \in ExceptionIds : exceptions'[x].week = v}
      = {x \in ExceptionIds : exceptions[x].week = v}
  BY <1>7
<1>9. [x \in {x \in ExceptionIds : exceptions'[x].week = v} |-> exceptions'[x]]
      = [x \in {x \in ExceptionIds : exceptions[x].week = v} |-> exceptions[x]]
  BY <1>7, <1>8
<1> QED  BY <1>2, <1>6, <1>9 DEF Document

(***************************************************************************)
(* The copies in the making.                                               *)
(***************************************************************************)
\* A clone in flight holds a number of its own, and nothing is there yet under
\* it (weeks.go handleCloneWeek, the INSERT's RETURNING id).
CopiesApart ==
    \A p \in Procs : pending[p].op = "clone" =>
      /\ weeks[pending[p].row] = NoWeek
      /\ \A q \in Procs : pending[q].op = "clone" /\ q # p => pending[q].row # pending[p].row

BInv == IInv /\ CopiesApart

\* The step begins no clone and ends none.
CopiesKept ==
    \A p \in Procs :
      /\ pending'[p].op = "clone" <=> pending[p].op = "clone"
      /\ pending[p].op = "clone" => pending'[p] = pending[p]

Reserved == {pending[p].row : p \in Copies}

LEMMA KeptCopiesAreReserved ==
    ASSUME CopiesKept
    PROVE  Reserved' = Reserved
BY DEF CopiesKept, Reserved, Copies

\* What is no clone begins and ends without one.
LEMMA OthersKeepCopies ==
    ASSUME IInv, NEW p \in Procs, pending[p].op # "clone",
           NEW r, r.op # "clone", pending' = [pending EXCEPT ![p] = r]
    PROVE  CopiesKept
<1>1. pending \in [Procs -> [op : Ops, week : Nat, row : Nat, start : Int, end : Int]]
  BY DEF IInv, TypeOK
<1> QED  BY <1>1 DEF CopiesKept

LEMMA IdleIsNoClone == Idle.op # "clone"
BY DEF Idle, Request

\* Copies stay apart while plans appear under numbers that are new only.
LEMMA ApartStays ==
    ASSUME BInv, CopiesKept,
           \A w \in WeekIds : weeks'[w] # NoWeek => weeks[w] # NoWeek \/ w >= nextWeek
    PROVE  CopiesApart'
<1> SUFFICES ASSUME NEW p \in Procs, pending'[p].op = "clone"
             PROVE  /\ weeks'[pending'[p].row] = NoWeek
                    /\ \A q \in Procs : pending'[q].op = "clone" /\ q # p
                         => pending'[q].row # pending'[p].row
  BY DEF CopiesApart
<1>1. pending[p].op = "clone" /\ pending'[p].row = pending[p].row
  BY DEF CopiesKept
<1>2. pending[p].row \in WeekIds /\ pending[p].row < nextWeek
  BY <1>1 DEF BInv, IInv, PendingRows
<1>3. nextWeek \in Nat /\ pending[p].row \in Nat
  BY <1>2, DinnerIdsFinite DEF BInv, IInv, TypeOK
<1>4. weeks'[pending'[p].row] = NoWeek
  BY <1>1, <1>2, <1>3 DEF BInv, CopiesApart
<1>5. ASSUME NEW q \in Procs, pending'[q].op = "clone", q # p
      PROVE  pending'[q].row # pending'[p].row
  BY <1>1, <1>5 DEF BInv, CopiesApart, CopiesKept
<1> QED  BY <1>4, <1>5

(***************************************************************************)
(* The kinds of steps, as steps of the book.                               *)
(***************************************************************************)
Documents == [w \in WeekIds |-> Document(w)]
BookStep == Book!BookNext \/ UNCHANGED <<Documents, nextWeek, Reserved>>

\* A step about one plan, or about none, is a write of its document or nothing.
LEMMA EditStep ==
    ASSUME IInv, TypeOK', NEW w \in WeekIds \cup {0}, ~TouchesOtherPlan(w),
           w # 0 => weeks[w] # NoWeek /\ weeks'[w] # NoWeek,
           nextWeek' = nextWeek, CopiesKept
    PROVE  BookStep
<1>1. Reserved' = Reserved
  BY KeptCopiesAreReserved
<1>2. \A v \in WeekIds \ {w} : Document(v)' = Document(v)
  BY DocumentStays DEF IInv
<1>3. CASE w = 0
  <2>1. \A v \in WeekIds : Document(v)' = Document(v)
    BY <1>2, <1>3, DinnerIdsFinite
  <2>2. Documents' = Documents
    BY <2>1 DEF Documents
  <2> QED  BY <1>1, <2>2 DEF BookStep
<1>4. CASE w # 0
  <2>1. Document(w) # NoDocument /\ Document(w)' # NoDocument
    BY <1>4, ThereIsADocument
  <2>2. Book!Write(w)
    BY <1>1, <1>2, <1>4, <2>1 DEF Book!Write, Book!There, Book!Only, Reserved
  <2> QED  BY <1>4, <2>2 DEF BookStep, Book!BookNext
<1> QED  BY <1>3, <1>4

\* The writes on dinners: the row that was checked, or a new one.
LEMMA DinnerToolsBook ==
    ASSUME BInv, IInv', NEW c \in Chats,
           \/ \E day \in Days, dish \in Contents : AddDinner(c, day, dish)
           \/ \E dish \in Contents : UpdateDinner(c, dish)
           \/ DeleteDinner(c)
    PROVE  BookStep /\ CopiesApart'
<1>1. weeks' = weeks /\ retros' = retros /\ exceptions' = exceptions /\ nextWeek' = nextWeek
  BY DEF AddDinner, UpdateDinner, DeleteDinner, ids
<1>2. CopiesKept
  <2>1. pending[c].op # "clone" /\ pending' = [pending EXCEPT ![c] = Idle]
    BY DEF AddDinner, UpdateDinner, DeleteDinner, Finish
  <2> QED  BY <2>1, IdleIsNoClone, OthersKeepCopies DEF BInv, Procs
<1>3. CopiesApart'
  BY <1>1, <1>2, ApartStays
<1>4. /\ dinners \in [DinnerIds -> [week : Nat, day : Int, dish : Dishes]]
      /\ rating \in [DinnerIds -> Ratings \cup {"none"}]
      /\ \A x \in DinnerIds : x >= nextDinner => dinners[x] = NoDinner
      /\ nextDinner \in Nat /\ NoDinner.week = 0
  BY DEF BInv, IInv, TypeOK, Dishes, NoDinner
<1>5. \A x \in DinnerIds : dinners[x].week # 0 => Exists(dinners[x].week)
  BY DEF BInv, IInv, NoOrphans
<1>6. ASSUME NEW day \in Days, NEW dish \in Contents, AddDinner(c, day, dish)
      PROVE  BookStep
  <2>1. pending[c].week \in WeekIds /\ weeks[pending[c].week] # NoWeek
    BY <1>6 DEF AddDinner, Exists
  <2>2. ASSUME NEW x \in DinnerIds, dinners'[x] # dinners[x] \/ rating'[x] # rating[x]
        PROVE  {dinners[x].week, dinners'[x].week} \subseteq {0, pending[c].week}
    <3>1. x = nextDinner /\ dinners'[x].week = pending[c].week
      BY <1>4, <1>6, <2>2 DEF AddDinner
    <3> QED  BY <1>4, <3>1
  <2>3. ~TouchesOtherPlan(pending[c].week)
    BY <1>1, <2>2 DEF TouchesOtherPlan
  <2> QED  BY <1>1, <1>2, <2>1, <2>3, EditStep DEF BInv, IInv
<1>7. ASSUME NEW w, w = dinners[pending[c].row].week, pending[c].row \in DinnerIds,
             \A x \in DinnerIds : dinners'[x] # dinners[x] \/ rating'[x] # rating[x] =>
               {dinners[x].week, dinners'[x].week} \subseteq {0, w}
      PROVE  BookStep
  <2>1. w \in WeekIds \cup {0} /\ (w # 0 => weeks[w] # NoWeek)
    BY <1>5, <1>7 DEF Exists
  <2>2. ~TouchesOtherPlan(w)
    BY <1>1, <1>7 DEF TouchesOtherPlan
  <2> QED  BY <1>1, <1>2, <2>1, <2>2, EditStep DEF BInv, IInv
<1>8. ASSUME NEW dish \in Contents, UpdateDinner(c, dish)
      PROVE  BookStep
  <2>1. pending[c].row \in DinnerIds
    BY <1>8 DEF UpdateDinner, BInv, IInv, PendingRows, DinnerOps, Procs
  <2>2. ASSUME NEW x \in DinnerIds, dinners'[x] # dinners[x] \/ rating'[x] # rating[x]
        PROVE  x = pending[c].row /\ dinners'[x].week = dinners[x].week
    BY <1>4, <1>8, <2>2 DEF UpdateDinner
  <2> QED  BY <1>7, <2>1, <2>2
<1>9. ASSUME DeleteDinner(c)
      PROVE  BookStep
  <2>1. pending[c].row \in DinnerIds
    BY <1>9 DEF DeleteDinner, BInv, IInv, PendingRows, DinnerOps, Procs
  <2>2. ASSUME NEW x \in DinnerIds, dinners'[x] # dinners[x] \/ rating'[x] # rating[x]
        PROVE  x = pending[c].row /\ dinners'[x].week = 0
    <3>1. rating[x] # "none" => dinners[x].week # 0
      BY DEF BInv, IInv, NoOrphans
    <3>2. x = pending[c].row
      BY <1>4, <1>9, <2>2, <3>1 DEF DeleteDinner, CascadeRatings
    <3> QED  BY <1>4, <1>9, <3>2 DEF DeleteDinner
  <2> QED  BY <1>7, <2>1, <2>2
<1> QED  BY <1>3, <1>6, <1>8, <1>9

\* The writes on exceptions.
LEMMA ExceptionToolsBook ==
    ASSUME BInv, IInv', NEW c \in Chats,
           \/ \E text \in Contents : AddException(c, text) \/ UpdateException(c, text)
           \/ DeleteException(c)
    PROVE  BookStep /\ CopiesApart'
<1>1. weeks' = weeks /\ retros' = retros /\ dinners' = dinners /\ rating' = rating
      /\ nextWeek' = nextWeek
  BY DEF AddException, UpdateException, DeleteException, ids
<1>2. CopiesKept
  <2>1. pending[c].op # "clone" /\ pending' = [pending EXCEPT ![c] = Idle]
    BY DEF AddException, UpdateException, DeleteException, Finish
  <2> QED  BY <2>1, IdleIsNoClone, OthersKeepCopies DEF BInv, Procs
<1>3. CopiesApart'
  BY <1>1, <1>2, ApartStays
<1>4. /\ exceptions \in [ExceptionIds -> [week : Nat, text : Contents \cup {NoContent}]]
      /\ \A x \in ExceptionIds : x >= nextException => exceptions[x] = NoException
      /\ nextException \in Nat /\ NoException.week = 0
  BY DEF BInv, IInv, TypeOK, NoException
<1>5. ASSUME NEW w \in WeekIds \cup {0}, w # 0 => weeks[w] # NoWeek,
             \A x \in ExceptionIds : exceptions'[x] # exceptions[x] =>
               {exceptions[x].week, exceptions'[x].week} \subseteq {0, w}
      PROVE  BookStep
  <2>1. ~TouchesOtherPlan(w)
    BY <1>1, <1>5 DEF TouchesOtherPlan
  <2> QED  BY <1>1, <1>2, <1>5, <2>1, EditStep DEF BInv, IInv
<1>6. ASSUME NEW text \in Contents, AddException(c, text)
      PROVE  BookStep
  <2>1. pending[c].week \in WeekIds /\ weeks[pending[c].week] # NoWeek
    BY <1>6 DEF AddException, Exists
  <2>2. ASSUME NEW x \in ExceptionIds, exceptions'[x] # exceptions[x]
        PROVE  {exceptions[x].week, exceptions'[x].week} \subseteq {0, pending[c].week}
    <3>1. x = nextException /\ exceptions'[x].week = pending[c].week
      BY <1>4, <1>6, <2>2 DEF AddException
    <3> QED  BY <1>4, <3>1
  <2> QED  BY <1>5, <2>1, <2>2
<1>7. ASSUME \/ \E text \in Contents : UpdateException(c, text)
             \/ DeleteException(c)
      PROVE  BookStep
  <2> DEFINE w == exceptions[pending[c].row].week
  <2>1. pending[c].row \in ExceptionIds
    BY <1>7 DEF UpdateException, DeleteException, BInv, IInv, PendingRows, ExceptionOps, Procs
  <2>2. w \in WeekIds \cup {0} /\ (w # 0 => weeks[w] # NoWeek)
    BY <2>1 DEF BInv, IInv, NoOrphans, Exists
  <2>3. PICK text : \/ text \in Contents /\ UpdateException(c, text)
                   \/ DeleteException(c)
    BY <1>7
  <2>4. ExceptionsOK' /\ ExceptionRowsKept /\ nextException' = nextException
    BY <2>3, EditExceptionTable DEF BInv
  <2>5. ASSUME NEW x \in ExceptionIds, exceptions'[x] # exceptions[x]
        PROVE  {exceptions[x].week, exceptions'[x].week} \subseteq {0, w}
    <3>1. x = pending[c].row
      BY <1>4, <1>7, <2>5 DEF UpdateException, DeleteException
    <3>2. x \in Int
      BY ConstantsAssumption DEF ExceptionIds
    <3>3. exceptions'[x].week \in {0, exceptions[x].week}
      BY <1>4, <2>4, <3>2 DEF ExceptionsOK, ExceptionRowsKept
    <3> QED  BY <3>1, <3>3
  <2> HIDE DEF w
  <2> QED  BY <1>5, <2>2, <2>5
<1> QED  BY <1>3, <1>6, <1>7

\* An edit of one plan's dinners, with its cascade, touches no other plan.
LEMMA EditsTouchOnePlan ==
    ASSUME IInv, NEW w \in WeekIds, EditsPlan(w),
           CascadeRatings \/ rating' = rating,
           \A v \in WeekIds \ {w} : weeks'[v] = weeks[v] /\ retros'[v] = retros[v],
           \A x \in ExceptionIds : exceptions'[x] = exceptions[x] \/
             {exceptions[x].week, exceptions'[x].week} \subseteq {0, w}
    PROVE  ~TouchesOtherPlan(w)
<1>1. /\ \A x \in DinnerIds : dinners[x].week = w => dinners'[x].week \in {0, w}
      /\ \A x \in DinnerIds : dinners[x].week # w =>
           dinners'[x] = dinners[x] \/ (nextDinner <= x /\ dinners'[x].week \in {0, w})
  BY DEF EditsPlan, Edits
<1>2. \A x \in DinnerIds : nextDinner <= x => dinners[x].week = 0
  <2>1. NoDinner.week = 0 /\ nextDinner \in Nat /\ \A x \in DinnerIds : x \in Int
    BY DinnerIdsFinite DEF NoDinner, IInv, TypeOK
  <2> QED  BY <2>1 DEF IInv, TypeOK
<1>3. ASSUME NEW x \in DinnerIds, dinners'[x] # dinners[x]
      PROVE  {dinners[x].week, dinners'[x].week} \subseteq {0, w}
  BY <1>1, <1>2, <1>3
<1>4. ASSUME NEW x \in DinnerIds, rating'[x] # rating[x], dinners'[x] = dinners[x]
      PROVE  FALSE
  <2>1. dinners'[x].week = 0 /\ rating[x] # "none"
    BY <1>4 DEF CascadeRatings
  <2>2. dinners[x].week # 0
    BY <2>1 DEF IInv, NoOrphans
  <2> QED  BY <1>4, <2>1, <2>2
<1> QED  BY <1>3, <1>4 DEF TouchesOtherPlan

\* PATCH writes one plan.
LEMMA CommitPatchBook ==
    ASSUME BInv, IInv', NEW h \in Handlers, NEW s \in Days \cup {NoDate},
           NEW e \in Days \cup {NoDate}, NEW st \in Statuses \cup {"none"},
           CommitPatch(h, s, e, st)
    PROVE  BookStep /\ CopiesApart'
<1>1. PICK w \in WeekIds : w = pending[h].week
  BY CommitPatchEdits DEF BInv
<1> DEFINE p == PatchDates(pending[h], s, e)
           row == [start  |-> IF s # NoDate THEN s ELSE weeks[w].start,
                   end    |-> IF p.endSet THEN p.end ELSE weeks[w].end,
                   status |-> IF st # "none" THEN st ELSE weeks[w].status]
<1>2. /\ UNCHANGED <<exceptions, retros, nextWeek>> /\ CascadeRatings /\ Exists(w)
      /\ weeks' = [weeks EXCEPT ![w] = row]
      /\ pending' = [pending EXCEPT ![h] = Idle] /\ pending[h].op # "clone"
  BY <1>1 DEF CommitPatch, Finish
<1>3. weeks[w].status \in Statuses /\ WeeksOK
  BY <1>2, IInvParts, ExistingIsNumbered DEF BInv
<1> HIDE DEF p
<1>4. row # NoWeek
  BY <1>3, NoWeekHasNoStatus
<1> HIDE DEF row
<1>5. /\ weeks'[w] # NoWeek /\ weeks[w] # NoWeek
      /\ \A v \in WeekIds \ {w} : weeks'[v] = weeks[v] /\ retros'[v] = retros[v]
  BY <1>2, <1>3, <1>4 DEF WeeksOK, Exists
<1>6. CopiesKept
  BY <1>2, IdleIsNoClone, OthersKeepCopies DEF BInv, Procs
<1>7. ~TouchesOtherPlan(w)
  BY <1>1, <1>2, <1>5, CommitPatchEdits, EditsTouchOnePlan DEF BInv
<1>8. CopiesApart'
  BY <1>5, <1>6, ApartStays
<1> QED  BY <1>2, <1>5, <1>6, <1>7, <1>8, EditStep DEF BInv, IInv

\* update_week writes the row of one plan.
LEMMA AgentUpdateWeekBook ==
    ASSUME BInv, IInv', NEW c \in Chats, NEW u \in 0..MaxWeek,
           NEW s \in Days \cup {NoDate}, NEW e \in Days \cup {NoDate},
           NEW st \in Statuses \cup {"none"}, AgentUpdateWeek(c, u, s, e, st)
    PROVE  BookStep /\ CopiesApart'
<1> DEFINE w == ResolvePlan(c, u)
           row == [start  |-> IF s # NoDate THEN s ELSE weeks[w].start,
                   end    |-> IF e # NoDate THEN e ELSE weeks[w].end,
                   status |-> IF st # "none" THEN st ELSE weeks[w].status]
<1>1. /\ UNCHANGED <<dinners, rating, exceptions, retros, nextWeek, pending>> /\ Exists(w)
      /\ weeks' = [weeks EXCEPT ![w] = row]
  BY DEF AgentUpdateWeek, ids
<1>2. w \in WeekIds /\ weeks[w].status \in Statuses /\ WeeksOK
  BY <1>1, IInvParts, ExistingIsNumbered DEF BInv
<1> HIDE DEF w
<1>3. row # NoWeek
  BY <1>2, NoWeekHasNoStatus
<1> HIDE DEF row
<1>4. /\ weeks'[w] # NoWeek /\ weeks[w] # NoWeek
      /\ \A v \in WeekIds \ {w} : weeks'[v] = weeks[v]
  BY <1>1, <1>2, <1>3 DEF WeeksOK, Exists
<1>5. CopiesKept
  BY <1>1 DEF CopiesKept
<1>6. ~TouchesOtherPlan(w)
  BY <1>1, <1>4 DEF TouchesOtherPlan
<1>7. CopiesApart'
  BY <1>4, <1>5, ApartStays
<1> QED  BY <1>1, <1>2, <1>4, <1>5, <1>6, <1>7, EditStep DEF BInv, IInv

\* A retrospective and its ratings are about one plan, whoever writes them.
LEMMA NotesBook ==
    ASSUME BInv, IInv',
           \/ \E x \in DinnerIds, r \in Ratings : SetDinnerRating(x, r)
           \/ \E x \in DinnerIds : ClearDinnerRating(x)
           \/ \E h \in Handlers : InsertRetrospective(h)
           \/ \E c \in Chats, w \in 0..MaxWeek, R \in SUBSET DinnerIds :
                \E f \in [R -> Ratings] : RecordRetrospective(c, w, f)
    PROVE  BookStep /\ CopiesApart'
<1>1. weeks' = weeks /\ dinners' = dinners /\ exceptions' = exceptions /\ nextWeek' = nextWeek
  BY DEF SetDinnerRating, ClearDinnerRating, InsertRetrospective, RecordRetrospective, ids
<1>2. CopiesKept
  <2>1. CASE \E h \in Handlers : InsertRetrospective(h)
    <3>1. PICK h \in Handlers : InsertRetrospective(h)
      BY <2>1
    <3>2. pending[h].op # "clone" /\ pending' = [pending EXCEPT ![h] = Idle]
      BY <3>1 DEF InsertRetrospective, Finish
    <3> QED  BY <3>2, IdleIsNoClone, OthersKeepCopies DEF BInv, Procs
  <2>2. CASE pending' = pending
    BY <2>2 DEF CopiesKept
  <2> QED  BY <2>1, <2>2 DEF SetDinnerRating, ClearDinnerRating, RecordRetrospective
<1>3. CopiesApart'
  BY <1>1, <1>2, ApartStays
<1>4. NotesOK
  BY IInvParts DEF BInv
<1>5. ASSUME NEW w \in WeekIds, Exists(w),
             \A v \in WeekIds \ {w} : retros'[v] = retros[v],
             \A x \in DinnerIds : rating'[x] # rating[x] => dinners[x].week = w
      PROVE  BookStep
  <2>1. ~TouchesOtherPlan(w)
    BY <1>1, <1>5 DEF TouchesOtherPlan
  <2> QED  BY <1>1, <1>2, <1>5, <2>1, EditStep DEF BInv, IInv, Exists
<1>6. ASSUME NEW x \in DinnerIds,
             ClearDinnerRating(x) \/ \E r \in Ratings : SetDinnerRating(x, r)
      PROVE  BookStep
  <2>1. dinners[x].week # 0 /\ retros' = retros
    BY <1>6 DEF SetDinnerRating, ClearDinnerRating, BInv, IInv, NoOrphans
  <2>2. dinners[x].week \in WeekIds /\ Exists(dinners[x].week)
    BY <2>1 DEF BInv, IInv, NoOrphans, Exists
  <2>3. \A y \in DinnerIds : rating'[y] # rating[y] => y = x
    BY <1>4, <1>6 DEF SetDinnerRating, ClearDinnerRating, NotesOK
  <2> QED  BY <1>5, <2>1, <2>2, <2>3
<1>7. ASSUME NEW h \in Handlers, InsertRetrospective(h)
      PROVE  BookStep
  <2>1. /\ pending[h].week \in WeekIds /\ Exists(pending[h].week) /\ rating' = rating
        /\ retros' = [retros EXCEPT ![pending[h].week] = retros[pending[h].week] + 1]
    BY <1>7 DEF InsertRetrospective, Exists
  <2> QED  BY <1>4, <1>5, <2>1 DEF NotesOK
<1>8. ASSUME NEW c \in Chats, NEW u \in 0..MaxWeek, NEW R \in SUBSET DinnerIds,
             NEW f \in [R -> Ratings], RecordRetrospective(c, u, f)
      PROVE  BookStep
  <2> DEFINE w == ResolvePlan(c, u)
  <2>1. /\ Exists(w) /\ retros' = [retros EXCEPT ![w] = retros[w] + 1]
        /\ \A x \in DinnerIds : rating'[x] # rating[x] => dinners[x].week = w
    BY <1>8 DEF RecordRetrospective
  <2> HIDE DEF w
  <2> QED  BY <1>4, <1>5, <2>1 DEF NotesOK, Exists
<1> QED  BY <1>3, <1>6, <1>7, <1>8

\* The document of a plan that appears, and those of the others.
LEMMA Appears ==
    ASSUME TypeOK, TypeOK', NEW w \in WeekIds, ~TouchesOtherPlan(w),
           weeks[w] = NoWeek, weeks'[w] # NoWeek
    PROVE  ~Book!There(w) /\ Book!Only(w) /\ Documents'[w] # NoDocument
<1>1. \A v \in WeekIds \ {w} : Document(v)' = Document(v)
  BY DocumentStays
<1>2. Document(w) = NoDocument /\ Document(w)' # NoDocument
  BY ThereIsADocument
<1> QED  BY <1>1, <1>2 DEF Book!There, Book!Only, Documents

\* A new plan is published under the next number.
LEMMA CreateWeekBook ==
    ASSUME BInv, IInv', NEW s \in Days, NEW e \in Days, CreateWeek(s, e)
    PROVE  BookStep /\ CopiesApart'
<1>1. /\ nextWeek \in WeekIds /\ WeeksOK /\ weeks[nextWeek] = NoWeek
      /\ nextWeek \in Nat
  BY IInvParts, ConstantsAssumption DEF BInv, CreateWeek, WeeksOK, WeekIds
<1>2. PICK w \in WeekIds : w = nextWeek
  BY <1>1
<1>3. [start |-> s, end |-> e, status |-> "draft"] # NoWeek
  BY ConstantsAssumption, NoWeekHasNoStatus
<1>4. /\ UNCHANGED <<dinners, rating, exceptions, retros, pending>>
      /\ weeks'[w] # NoWeek /\ nextWeek' = nextWeek + 1
      /\ \A v \in WeekIds \ {w} : weeks'[v] = weeks[v]
  BY <1>1, <1>2, <1>3 DEF CreateWeek, WeeksOK
<1>5. CopiesKept
  BY <1>4 DEF CopiesKept
<1>6. CopiesApart'
  BY <1>1, <1>2, <1>4, <1>5, ApartStays
<1>7. ~TouchesOtherPlan(w)
  BY <1>4 DEF TouchesOtherPlan
<1>8. ~Book!There(w) /\ Book!Only(w) /\ Documents'[w] # NoDocument
  BY <1>1, <1>2, <1>4, <1>7, Appears DEF BInv, IInv
<1>9. Reserved' = Reserved
  BY <1>5, KeptCopiesAreReserved
<1>10. Book!Publish
  BY <1>2, <1>4, <1>8, <1>9 DEF Book!Publish, Documents, Reserved
<1> QED  BY <1>6, <1>10 DEF BookStep, Book!BookNext

\* A deleted plan takes its document, and nothing else, out of the book.
LEMMA DeleteWeekBook ==
    ASSUME BInv, IInv', NEW w \in WeekIds, DeleteWeek(w)
    PROVE  BookStep /\ CopiesApart'
<1>1. /\ UNCHANGED <<nextWeek, pending>> /\ CascadeRatings
      /\ weeks[w] # NoWeek /\ weeks'[w] = NoWeek
      /\ \A v \in WeekIds \ {w} : weeks'[v] = weeks[v] /\ retros'[v] = retros[v]
      /\ \A x \in ExceptionIds : exceptions'[x] = exceptions[x] \/
           {exceptions[x].week, exceptions'[x].week} \subseteq {0, w}
  <2>1. WeeksOK /\ retros \in [WeekIds -> Nat] /\ NoException.week = 0
    BY IInvParts DEF BInv, NotesOK, NoException
  <2> QED  BY <2>1 DEF DeleteWeek, Exists, WeeksOK, ids
<1>2. EditsPlan(w)
  BY DeleteWeekEdits DEF BInv
<1>3. ~TouchesOtherPlan(w)
  BY <1>1, <1>2, EditsTouchOnePlan DEF BInv
<1>4. CopiesKept
  BY <1>1 DEF CopiesKept
<1>5. CopiesApart'
  BY <1>1, <1>4, ApartStays
<1>6. /\ \A v \in WeekIds \ {w} : Document(v)' = Document(v)
      /\ Document(w) # NoDocument /\ Document(w)' = NoDocument
  BY <1>1, <1>3, DocumentStays, ThereIsADocument DEF BInv, IInv
<1>7. Reserved' = Reserved
  BY <1>4, KeptCopiesAreReserved
<1>8. Book!Remove(w)
  BY <1>1, <1>6, <1>7 DEF Book!Remove, Book!There, Book!Only, Reserved
<1> QED  BY <1>5, <1>8 DEF BookStep, Book!BookNext

\* Nothing happens to the tables: the book stays as it is.
LEMMA SameRowsSameBook ==
    ASSUME UNCHANGED rows
    PROVE  Documents' = Documents
BY DEF rows, Documents, Document, DinnersOf

\* A clone reserves the next number.
LEMMA BeginCloneBook ==
    ASSUME BInv, NEW h \in Handlers, NEW v \in WeekIds,
           NEW s \in Days \cup {NoDate}, BeginClone(h, v, s)
    PROVE  BookStep /\ CopiesApart'
<1>1. /\ UNCHANGED rows /\ nextWeek \in Nat /\ nextWeek \in WeekIds
      /\ weeks[nextWeek] = NoWeek /\ nextWeek' = nextWeek + 1
  <2>1. UNCHANGED rows /\ nextWeek' = nextWeek + 1 /\ nextWeek <= MaxWeek
    BY DEF BeginClone
  <2>2. WeeksOK /\ nextWeek \in Nat \ {0}
    BY IInvParts DEF BInv, IInv, TypeOK
  <2> QED  BY <2>1, <2>2, ConstantsAssumption DEF WeeksOK, WeekIds
<1>2. PICK w \in WeekIds : w = nextWeek
  BY <1>1
<1> DEFINE start == IF s # NoDate THEN s ELSE weeks[v].start + 7
           r == [op |-> "clone", week |-> v, row |-> w, start |-> start,
                 end |-> start + (weeks[v].end - weeks[v].start)]
<1>3. /\ r.op = "clone" /\ r.row = w /\ pending[h].op = "idle"
      /\ pending' = [pending EXCEPT ![h] = r]
  BY <1>2 DEF BeginClone, Begin, Idle, Request
<1> HIDE DEF r
<1>4. DOMAIN pending = Procs /\ h \in Procs
  BY DEF BInv, IInv, TypeOK, Procs
<1>5. /\ pending'[h] = r
      /\ \A q \in Procs \ {h} : pending'[q] = pending[q]
  BY <1>3, <1>4
<1>6. ASSUME NEW q \in Procs, pending[q].op = "clone"
      PROVE  q # h /\ pending[q].row \in WeekIds /\ pending[q].row # w
  BY <1>1, <1>2, <1>3, <1>6, DinnerIdsFinite DEF BInv, IInv, PendingRows
<1>7. CopiesApart'
  <2>1. weeks' = weeks
    BY <1>1 DEF rows
  <2>2. ASSUME NEW p \in Procs, pending'[p].op = "clone"
        PROVE  /\ weeks'[pending'[p].row] = NoWeek
               /\ \A q \in Procs : pending'[q].op = "clone" /\ q # p
                    => pending'[q].row # pending'[p].row
    <3>1. CASE p = h
      BY <1>1, <1>2, <1>3, <1>4, <1>5, <1>6, <2>1, <3>1
    <3>2. CASE p # h
      <4>1. pending'[p] = pending[p] /\ pending[p].op = "clone"
        BY <1>5, <2>2, <3>2
      <4>2. weeks[pending[p].row] = NoWeek
        BY <4>1 DEF BInv, CopiesApart
      <4>3. ASSUME NEW q \in Procs, pending'[q].op = "clone", q # p
            PROVE  pending'[q].row # pending'[p].row
        <5>1. CASE q = h
          BY <1>3, <1>5, <1>6, <4>1, <5>1
        <5>2. CASE q # h
          BY <1>5, <4>1, <4>3, <5>2 DEF BInv, CopiesApart
        <5> QED  BY <5>1, <5>2
      <4> QED  BY <2>1, <4>1, <4>2, <4>3
    <3> QED  BY <3>1, <3>2
  <2> QED  BY <2>2 DEF CopiesApart
<1>8. Reserved' = Reserved \cup {w}
  <2>1. Copies' = Copies \cup {h} /\ h \notin Copies
    BY <1>3, <1>4, <1>5 DEF Copies
  <2>2. \A q \in Copies : pending'[q] = pending[q]
    BY <1>5, <2>1 DEF Copies
  <2> QED  BY <1>3, <1>5, <2>1, <2>2 DEF Reserved
<1>9. Documents' = Documents
  BY <1>1, SameRowsSameBook
<1>10. Book!Reserve
  BY <1>1, <1>2, <1>8, <1>9 DEF Book!Reserve, Documents, Reserved
<1> QED  BY <1>7, <1>10 DEF BookStep, Book!BookNext

\* A clone that ends gives its number back.
LEMMA EndCopy ==
    ASSUME BInv, NEW p \in Procs, pending[p].op = "clone",
           pending' = [pending EXCEPT ![p] = Idle],
           \A w \in WeekIds : w # pending[p].row /\ weeks[w] = NoWeek => weeks'[w] = NoWeek
    PROVE  CopiesApart' /\ Reserved' = Reserved \ {pending[p].row}
<1>1. DOMAIN pending = Procs
  BY DEF BInv, IInv, TypeOK
<1>2. /\ \A q \in Procs : pending'[q].op = "clone" <=> pending[q].op = "clone" /\ q # p
      /\ \A q \in Procs \ {p} : pending'[q] = pending[q]
  BY <1>1, IdleIsNoClone
<1>3. \A q \in Procs : pending[q].op = "clone" /\ q # p =>
        /\ pending[q].row \in WeekIds /\ pending[q].row # pending[p].row
        /\ weeks[pending[q].row] = NoWeek
  BY DEF BInv, IInv, PendingRows, CopiesApart
<1>4. CopiesApart'
  BY <1>2, <1>3 DEF CopiesApart, BInv
<1>5. Copies' = Copies \ {p} /\ p \in Copies
  BY <1>2 DEF Copies
<1>6. \A q \in Copies \ {p} : pending'[q] = pending[q] /\ pending[q].row # pending[p].row
  BY <1>2, <1>3 DEF Copies
<1>7. Reserved' = Reserved \ {pending[p].row}
  BY <1>5, <1>6 DEF Reserved
<1> QED  BY <1>4, <1>7

\* The commit of a clone publishes the copy under the number it has reserved.
LEMMA CommitCloneBook ==
    ASSUME BInv, IInv', NEW h \in Handlers, CommitClone(h)
    PROVE  BookStep /\ CopiesApart'
<1>1. PICK w \in WeekIds : w = pending[h].row
  BY CommitCloneEdits DEF BInv
<1>2. h \in Procs /\ pending[h].op = "clone" /\ pending' = [pending EXCEPT ![h] = Idle]
  BY DEF CommitClone, Finish, Procs
<1>3. PICK s, e : weeks' = [weeks EXCEPT ![w] = [start |-> s, end |-> e, status |-> "draft"]]
  BY <1>1 DEF CommitClone
<1>4. /\ UNCHANGED <<rating, exceptions, retros, nextWeek>> /\ EditsPlan(w)
  BY <1>1, CommitCloneEdits DEF CommitClone, BInv
<1>5. [start |-> s, end |-> e, status |-> "draft"] # NoWeek
  BY ConstantsAssumption, NoWeekHasNoStatus
<1>6. weeks[w] = NoWeek /\ w < nextWeek
  BY <1>1, <1>2 DEF BInv, CopiesApart, IInv, PendingRows
<1>7. weeks'[w] # NoWeek /\ \A v \in WeekIds \ {w} : weeks'[v] = weeks[v]
  <2>1. WeeksOK
    BY IInvParts DEF BInv
  <2> QED  BY <1>3, <1>5, <2>1 DEF WeeksOK
<1>8. ~TouchesOtherPlan(w)
  BY <1>4, <1>7, EditsTouchOnePlan DEF BInv
<1>9. ~Book!There(w) /\ Book!Only(w) /\ Documents'[w] # NoDocument
  BY <1>6, <1>7, <1>8, Appears DEF BInv, IInv
<1>10. CopiesApart' /\ Reserved' = Reserved \ {w}
  BY <1>1, <1>2, <1>7, EndCopy
<1>11. w \in Reserved
  BY <1>1, <1>2 DEF Reserved, Copies
<1>12. Book!PublishCopy(w)
  BY <1>4, <1>6, <1>9, <1>10, <1>11 DEF Book!PublishCopy, Documents, Reserved
<1> QED  BY <1>10, <1>12 DEF BookStep, Book!BookNext

\* What is given up leaves the book alone; a copy's number goes with it.
LEMMA AbandonBook ==
    ASSUME BInv, NEW p \in Procs, Abandon(p)
    PROVE  BookStep /\ CopiesApart'
<1>1. /\ UNCHANGED rows /\ weeks' = weeks /\ nextWeek' = nextWeek
      /\ pending' = [pending EXCEPT ![p] = Idle]
  BY DEF Abandon, Finish, ids, rows
<1>2. Documents' = Documents
  BY <1>1, SameRowsSameBook
<1>3. CASE pending[p].op = "clone"
  <2>1. CopiesApart' /\ Reserved' = Reserved \ {pending[p].row}
    BY <1>1, <1>3, EndCopy
  <2>2. PICK w \in WeekIds : w = pending[p].row
    BY <1>3 DEF BInv, IInv, PendingRows
  <2>3. Book!GiveUp(w)
    BY <2>2, <1>1, <1>2, <2>1 DEF Book!GiveUp, Documents, Reserved
  <2> QED  BY <2>1, <2>2, <2>3 DEF BookStep, Book!BookNext
<1>4. CASE pending[p].op # "clone"
  <2>1. CopiesKept
    BY <1>1, <1>4, IdleIsNoClone, OthersKeepCopies DEF BInv
  <2>2. CopiesApart'
    BY <1>1, <2>1, ApartStays
  <2>3. Reserved' = Reserved
    BY <2>1, KeptCopiesAreReserved
  <2> QED  BY <1>1, <1>2, <2>2, <2>3 DEF BookStep
<1> QED  BY <1>3, <1>4

\* What only reads leaves the book alone.
LEMMA ReadsBook ==
    ASSUME BInv,
           \/ UNCHANGED vars
           \/ \E h \in Handlers, w \in WeekIds : ReadPatch(h, w) \/ UpdateRetrospective(h, w)
           \/ \E c \in Chats : AgentCheck(c)
    PROVE  BookStep /\ CopiesApart'
<1>1. UNCHANGED rows
  BY QuietStepLeavesRows DEF QuietStep
<1>2. weeks' = weeks
  BY <1>1 DEF rows
<1>3. nextWeek' = nextWeek
  BY DEF vars, ids, ReadPatch, UpdateRetrospective, AgentCheck, StartTurn,
     CheckAddDinner, CheckAddException, CheckDinner, CheckException
<1>4. Documents' = Documents
  BY <1>1, SameRowsSameBook
<1>5. ASSUME NEW p \in Procs, NEW r, r.op # "clone", Begin(p, r)
      PROVE  CopiesKept
  <2>1. pending[p].op # "clone" /\ pending' = [pending EXCEPT ![p] = r]
    BY <1>5, IdleIsNoClone DEF Begin
  <2> QED  BY <1>5, <2>1, OthersKeepCopies DEF BInv
<1>6. CopiesKept
  <2>1. CASE pending' = pending
    BY <2>1 DEF CopiesKept
  <2>2. ASSUME NEW h \in Handlers, NEW w \in WeekIds, ReadPatch(h, w) \/ UpdateRetrospective(h, w)
        PROVE  CopiesKept
    <3>1. PICK r : r.op # "clone" /\ Begin(h, r)
      BY <2>2 DEF ReadPatch, UpdateRetrospective, Request
    <3> QED  BY <1>5, <3>1 DEF Procs
  <2>3. ASSUME NEW c \in Chats, NEW w, CheckAddDinner(c, w) \/ CheckAddException(c, w)
        PROVE  CopiesKept
    <3>1. PICK r : r.op # "clone" /\ Begin(c, r)
      BY <2>3 DEF CheckAddDinner, CheckAddException, Request
    <3> QED  BY <1>5, <3>1 DEF Procs
  <2>4. ASSUME NEW c \in Chats, NEW op \in DinnerOps \cup ExceptionOps, NEW x,
               CheckDinner(c, op, x) \/ CheckException(c, op, x)
        PROVE  CopiesKept
    <3>1. PICK r : r.op # "clone" /\ Begin(c, r)
      BY <2>4 DEF CheckDinner, CheckException, Request, DinnerOps, ExceptionOps
    <3> QED  BY <1>5, <3>1 DEF Procs
  <2> QED  BY <2>1, <2>2, <2>3, <2>4 DEF AgentCheck, StartTurn, vars
<1>7. CopiesApart'
  BY <1>2, <1>6, ApartStays
<1>8. Reserved' = Reserved
  BY <1>6, KeptCopiesAreReserved
<1> QED  BY <1>3, <1>4, <1>7, <1>8 DEF BookStep

\* Every step of the store is a step of the book, or none.
LEMMA EveryStepBook ==
    ASSUME BInv, IInv', [Next]_vars
    PROVE  BookStep /\ CopiesApart'
<1>1. CASE UNCHANGED vars
  BY <1>1, ReadsBook
<1>2. ASSUME NEW h \in Handlers, HandlerStep(h)
      PROVE  BookStep /\ CopiesApart'
  BY <1>2, ReadsBook, BeginCloneBook, CommitPatchBook, CommitCloneBook, NotesBook
     DEF HandlerStep
<1>3. ASSUME NEW c \in Chats, AgentWrite(c)
      PROVE  BookStep /\ CopiesApart'
  <2>1. CASE \/ \E day \in Days, dish \in Contents : AddDinner(c, day, dish)
             \/ \E dish \in Contents : UpdateDinner(c, dish)
             \/ DeleteDinner(c)
    BY <2>1, DinnerToolsBook
  <2>2. CASE \/ \E text \in Contents : AddException(c, text) \/ UpdateException(c, text)
             \/ DeleteException(c)
    BY <2>2, ExceptionToolsBook
  <2>3. CASE \E w \in 0..MaxWeek, s \in Days \cup {NoDate}, e \in Days \cup {NoDate},
                st \in Statuses \cup {"none"} : AgentUpdateWeek(c, w, s, e, st)
    BY <2>3, AgentUpdateWeekBook
  <2>4. CASE \E w \in 0..MaxWeek, R \in SUBSET DinnerIds :
               \E f \in [R -> Ratings] : RecordRetrospective(c, w, f)
    BY <2>4, NotesBook
  <2> QED  BY <1>3, <2>1, <2>2, <2>3, <2>4 DEF AgentWrite
<1>4. CASE \/ \E x \in DinnerIds, r \in Ratings : SetDinnerRating(x, r)
           \/ \E x \in DinnerIds : ClearDinnerRating(x)
  BY <1>4, NotesBook
<1>5. CASE \E c \in Chats : AgentCheck(c)
  BY <1>5, ReadsBook
<1> QED
  BY <1>1, <1>2, <1>3, <1>4, <1>5, CreateWeekBook, DeleteWeekBook, AbandonBook DEF Next

\* Without a copy in the making the store is a book that can have been used.
LEMMA AtRestIsABook ==
    ASSUME IInv, \A p \in Procs : pending[p] = Idle
    PROVE  BInv /\ Book!BookInit
<1>1. \A p \in Procs : pending[p].op # "clone"
  BY IdleIsNoClone
<1>2. CopiesApart /\ {pending[p].row : p \in Copies} = {}
  BY <1>1 DEF CopiesApart, Copies
<1>3. /\ nextWeek \in Nat \ {0}
      /\ \A w \in WeekIds : weeks[w] # NoWeek => w < nextWeek
  BY DEF IInv, TypeOK, WeekIds
<1>4. \A w \in WeekIds : Document(w) # NoDocument => w < nextWeek
  BY <1>3, ThereIsADocument
<1>5. \A w \in WeekIds : [v \in WeekIds |-> Document(v)][w] = Document(w)
  OBVIOUS
<1> QED  BY <1>2, <1>3, <1>4, <1>5 DEF BInv, Book!BookInit, Book!There

\* Init and every step keep BInv, and refine PlanBook.
LEMMA BookInit ==
    ASSUME Init
    PROVE  BInv /\ Book!BookInit
BY InitHolds, AtRestIsABook DEF Init, Procs

\* Every step keeps BInv.
LEMMA BookStepHolds ==
    ASSUME BInv, [Next]_vars
    PROVE  BInv' /\ BookStep
<1>1. IInv'
  BY StepHolds DEF BInv
<1>2. BookStep /\ CopiesApart'
  BY <1>1, EveryStepBook
<1> QED  BY <1>1, <1>2 DEF BInv

\* The store's invariant with the copies that clones in flight hold: each has a
\* plan id of its own and its plan has no row before the commit (weeks.go
\* handleCloneWeek, one transaction).
THEOREM BookInductive == Spec => []BInv
<1>1. Init => BInv
  BY BookInit
<1>2. BInv /\ [Next]_vars => BInv'
  BY BookStepHolds
<1> QED  BY <1>1, <1>2, PTL DEF Spec

\* The store of veckomenyn, with every interleaving of its handlers and tools,
\* is a book of plans: each step writes the document of one plan at most, a
\* copy appears under the number it was given, and what was deleted stays so.
THEOREM StoreIsABook == Spec => KeepsBook
<1>1. Init => BInv /\ Book!BookInit
  BY BookInit
<1>2. BInv /\ [Next]_vars => BInv' /\ [Book!BookNext]_Book!bookVars
  BY BookStepHolds DEF BookStep, Book!bookVars, Documents, Reserved
<1> QED  BY <1>1, <1>2, PTL DEF Spec, KeepsBook, Book!BookSpec

(***************************************************************************)
(* Schedules: what the date arithmetic leaves on each day of a plan, for   *)
(* clones and for patches of a plan with one row per day.                  *)
(***************************************************************************)
\* The dinners S are numbered from 0, one number each, no number left out.
Numbered(t, S) ==
    /\ IsFiniteSet(S) /\ Cardinality(S) \in Nat
    /\ \A x \in S : Rank(t, x) \in Nat /\ Rank(t, x) < Cardinality(S)
    /\ \A x, y \in S : Rank(t, x) = Rank(t, y) => x = y
    /\ \A k \in 0..(Cardinality(S) - 1) : \E x \in S : Rank(t, x) = k

\* The dinners of a plan are numbered without gaps: row_number() over n rows
\* gives each of 0..n-1 to one of them (weeks.go handlePatchWeek, Clone).
LEMMA RanksCover ==
    ASSUME NEW X, IsFiniteSet(X), X \subseteq Int, NEW C, NEW t \in Tables(X, C),
           NEW v
    PROVE  Numbered(t, DinnersOf(t, v))
<1> DEFINE S == DinnersOf(t, v)
           n == Cardinality(S)
           T == 0..(n - 1)
           f == [x \in S |-> Rank(t, x)]
<1>1. S \in SUBSET X /\ \A x \in S : t[x].week = v
  BY DEF DinnersOf, Tables
<1>2. IsFiniteSet(S) /\ n \in Nat
  BY <1>1, FS_Subset, FS_CardinalityType
<1>3. ASSUME NEW x \in S
      PROVE  Rank(t, x) \in Nat /\ Rank(t, x) < n
  BY <1>1, RankBound
<1>4. ASSUME NEW x \in S, NEW y \in S, Rank(t, x) = Rank(t, y)
      PROVE  x = y
  <2>1. ASSUME NEW a \in S, NEW b \in S, Before(t, a, b)
        PROVE  Rank(t, a) < Rank(t, b)
    BY <1>1, <2>1, RankFollowsOrder
  <2>2. x # y => Before(t, x, y) \/ Before(t, y, x)
    BY <1>1, BeforeIsOrder
  <2> QED  BY <1>3, <1>4, <2>1, <2>2
<1> HIDE DEF S
<1>5. f \in Surjection(S, T)
  <2>1. f \in Injection(S, T)
    <3>1. f \in [S -> T]
      BY <1>2, <1>3
    <3> QED  BY <1>4, <3>1 DEF Injection, IsInjective
  <2>2. IsFiniteSet(T) /\ Cardinality(T) = n
    BY <1>2, FS_Interval
  <2> QED  BY <2>1, <2>2, FS_Injection
<1>6. \A k \in T : \E x \in S : Rank(t, x) = k
  BY <1>5 DEF Surjection
<1> QED  BY <1>2, <1>3, <1>4, <1>6 DEF Numbered, S

\* An empty dinner of plan w on day d.
SlotOn(w, d) == [week |-> w, day |-> d, dish |-> NoContent]

\* u is the table t with an empty dinner of w on each day of D, from id n on.
SlotsAdded(X, t, u, w, D, n) ==
    /\ \A d \in D : /\ n + DayRank(D, d) \in X
                    /\ n + DayRank(D, d) >= n
                    /\ u[n + DayRank(D, d)] = SlotOn(w, d)
    /\ \A x \in X : \/ u[x] = t[x]
                    \/ \E d \in D : x = n + DayRank(D, d) /\ u[x] = SlotOn(w, d)

\* Each day of a series gets one empty slot of its own, and no other row of
\* the table changes (weeks.go: INSERT ... SELECT from generate_series).
LEMMA AddSlotsRows ==
    ASSUME NEW X, NEW C, NEW t \in Tables(X, C), NEW w,
           NEW D, IsFiniteSet(D), D \subseteq Int, NEW n \in Nat,
           n..(n + Cardinality(D) - 1) \subseteq X
    PROVE  SlotsAdded(X, t, AddSlots(t, w, D, n), w, D, n)
<1> DEFINE u == AddSlots(t, w, D, n)
<1>1. \A d \in D : DayRank(D, d) \in Nat /\ DayRank(D, d) < Cardinality(D)
  BY DayRankBound
<1>2. \A c, d \in D : DayRank(D, c) = DayRank(D, d) => c = d
  <2>1. \A c, d \in D : c < d => DayRank(D, c) < DayRank(D, d)
    BY DayRankInjective
  <2> QED  BY <1>1, <2>1
<1>3. Cardinality(D) \in Nat /\ DOMAIN t = X
  BY FS_CardinalityType DEF Tables
<1>4. ASSUME NEW x \in X, NEW d \in D, x = n + DayRank(D, d)
      PROVE  u[x] = SlotOn(w, d)
  <2>1. \A b \in D : x = n + DayRank(D, b) => b = d
    BY <1>1, <1>2, <1>4
  <2>2. (CHOOSE b \in D : x = n + DayRank(D, b)) = d
    BY <1>4, <2>1
  <2> QED  BY <1>3, <1>4, <2>2 DEF AddSlots, SlotOn
<1>5. ASSUME NEW d \in D
      PROVE  n + DayRank(D, d) \in X /\ n + DayRank(D, d) >= n
  <2>1. n + DayRank(D, d) \in n..(n + Cardinality(D) - 1)
    BY <1>1, <1>3
  <2> QED  BY <2>1
<1>6. \A x \in X : (~ \E d \in D : x = n + DayRank(D, d)) => u[x] = t[x]
  BY <1>3 DEF AddSlots
<1> HIDE DEF u
<1> QED  BY <1>4, <1>5, <1>6 DEF SlotsAdded, u

\* The copy of dinner y in plan w, when the copies start on day s.
CopyOf(t, w, s, y) == [week |-> w, day |-> s + Rank(t, y), dish |-> t[y].dish]

\* u is the table t with the dinners of v copied into w, from id n on.
DinnersCopied(X, t, u, v, w, s, n) ==
    /\ \A y \in DinnersOf(t, v) :
         /\ n + Rank(t, y) \in X
         /\ n + Rank(t, y) >= n
         /\ n + Rank(t, y) < n + Cardinality(DinnersOf(t, v))
         /\ u[n + Rank(t, y)] = CopyOf(t, w, s, y)
    /\ \A x \in X : \/ u[x] = t[x]
                    \/ \E y \in DinnersOf(t, v) :
                         x = n + Rank(t, y) /\ u[x] = CopyOf(t, w, s, y)

\* The copies of a clone lie on consecutive days in the source's order, each
\* with its source's dish (weeks.go handleCloneWeek: INSERT ... SELECT with
\* row_number()).
LEMMA CopyDinnersRows ==
    ASSUME NEW X, IsFiniteSet(X), X \subseteq Int, NEW C, NEW t \in Tables(X, C),
           NEW v, NEW w, NEW s \in Int, NEW n \in Nat,
           n..(n + Cardinality(DinnersOf(t, v)) - 1) \subseteq X
    PROVE  DinnersCopied(X, t, CopyDinners(t, v, w, s, n), v, w, s, n)
<1> DEFINE S == DinnersOf(t, v)
           u == CopyDinners(t, v, w, s, n)
<1>1. /\ Cardinality(S) \in Nat
      /\ \A x \in S : Rank(t, x) \in Nat /\ Rank(t, x) < Cardinality(S)
      /\ \A x, y \in S : Rank(t, x) = Rank(t, y) => x = y
  BY RanksCover DEF Numbered
<1>2. DOMAIN t = X
  BY DEF Tables
<1>3. \A x \in X : (~ \E y \in S : x = n + Rank(t, y)) => u[x] = t[x]
  BY <1>2 DEF CopyDinners
<1>4. ASSUME NEW x \in X, NEW y \in S, x = n + Rank(t, y)
      PROVE  u[x] = CopyOf(t, w, s, y)
  <2>1. \A b \in S : x = n + Rank(t, b) => b = y
    BY <1>1, <1>4
  <2>2. (CHOOSE b \in S : x = n + Rank(t, b)) = y
    BY <1>4, <2>1
  <2>3. x - n = Rank(t, y)
    BY <1>1, <1>4
  <2>4. u[x] = [week |-> w, day |-> s + (x - n),
                dish |-> t[CHOOSE b \in S : x = n + Rank(t, b)].dish]
    BY <1>2, <1>4 DEF CopyDinners
  <2> QED  BY <2>2, <2>3, <2>4 DEF CopyOf
<1> HIDE DEF S, u
<1>5. ASSUME NEW y \in S
      PROVE  /\ n + Rank(t, y) \in X /\ n + Rank(t, y) >= n
             /\ n + Rank(t, y) < n + Cardinality(S)
  <2>1. n + Rank(t, y) \in n..(n + Cardinality(S) - 1)
    BY <1>1
  <2> QED  BY <1>1, <2>1 DEF S
<1> QED  BY <1>3, <1>4, <1>5 DEF DinnersCopied, S, u

\* u is the table t with the dinners S of plan v copied to a new plan w, and
\* then slots of w on days D that have no copy.
CopiesBesideSlots(X, t, copied, u, S, D, v, w, s, n, m) ==
    /\ X \subseteq Int /\ D \subseteq Int /\ S = DinnersOf(t, v)
    /\ w \in Nat \ {0} /\ s \in Int /\ n \in Nat /\ m \in Nat
    /\ n <= m /\ m = n + Cardinality(S)
    /\ DinnersCopied(X, t, copied, v, w, s, n)
    /\ SlotsAdded(X, copied, u, w, D, m)
    /\ \A y \in S : Rank(t, y) \in Nat
    /\ \A d \in D, x \in X : copied[x].week = w => copied[x].day # d
    /\ \A x \in X : t[x].week # w

\* Copies and slots of a new plan w do not meet: the copies have one day each,
\* the slots the other days.
LEMMA CopiesAndSlots ==
    ASSUME NEW X, NEW t, NEW copied, NEW u, NEW S, NEW D, NEW v, NEW w, NEW s,
           NEW n, NEW m, CopiesBesideSlots(X, t, copied, u, S, D, v, w, s, n, m)
    PROVE  /\ \A x \in X : x < m => u[x] = copied[x]
           /\ \A x \in X : u[x].week = w =>
                \/ \E y \in S : x = n + Rank(t, y) /\ u[x] = CopyOf(t, w, s, y)
                \/ \E d \in D : x = m + DayRank(D, d) /\ u[x] = SlotOn(w, d)
           /\ \A y \in S : n + Rank(t, y) \in X /\ u[n + Rank(t, y)] = CopyOf(t, w, s, y)
           /\ \A y \in S : CopyOf(t, w, s, y).day \notin D
           /\ \A x, z \in X : u[x].week = w /\ u[z].week = w /\ u[x].day = u[z].day
                => x = z
<1> USE DEF CopiesBesideSlots
<1>1. /\ \A y \in S : /\ n + Rank(t, y) \in X
                      /\ n + Rank(t, y) < m
                      /\ copied[n + Rank(t, y)] = CopyOf(t, w, s, y)
      /\ \A x \in X : \/ copied[x] = t[x]
                      \/ \E y \in S : x = n + Rank(t, y) /\ copied[x] = CopyOf(t, w, s, y)
  BY DEF DinnersCopied
<1>2. /\ \A d \in D : m + DayRank(D, d) \in X /\ m + DayRank(D, d) >= m
      /\ \A x \in X : \/ u[x] = copied[x]
                      \/ \E d \in D : x = m + DayRank(D, d) /\ u[x] = SlotOn(w, d)
  BY DEF SlotsAdded
<1>3. ASSUME NEW x \in X, x < m
      PROVE  u[x] = copied[x]
  <2>1. ASSUME NEW d \in D, x = m + DayRank(D, d)
        PROVE  FALSE
    <3>1. x >= m
      BY <1>2, <2>1
    <3>2. x \in Int
      OBVIOUS
    <3> QED  BY <1>3, <3>1, <3>2
  <2> QED  BY <1>2, <2>1
<1>4. \A y \in S : CopyOf(t, w, s, y).week = w
  BY DEF CopyOf
<1>5. ASSUME NEW x \in X, u[x].week = w
      PROVE  \/ \E y \in S : x = n + Rank(t, y) /\ u[x] = CopyOf(t, w, s, y)
             \/ \E d \in D : x = m + DayRank(D, d) /\ u[x] = SlotOn(w, d)
  <2>1. CASE u[x] = copied[x]
    <3>1. copied[x] # t[x]
      BY <1>5, <2>1
    <3> QED  BY <1>1, <2>1, <3>1
  <2> QED  BY <1>2, <2>1
<1>6. \A y \in S : n + Rank(t, y) \in X /\ u[n + Rank(t, y)] = CopyOf(t, w, s, y)
  BY <1>1, <1>3
<1>7. \A y \in S : CopyOf(t, w, s, y).day \notin D
  BY <1>1, <1>4
<1>8. ASSUME NEW x \in X, NEW z \in X, u[x].week = w, u[z].week = w, u[x].day = u[z].day
      PROVE  x = z
  <2>1. CASE \E y \in S : x = n + Rank(t, y) /\ u[x] = CopyOf(t, w, s, y)
    <3>1. PICK y \in S : x = n + Rank(t, y) /\ u[x] = CopyOf(t, w, s, y)
      BY <2>1
    <3>2. u[z].day \notin D
      BY <1>7, <1>8, <3>1
    <3>3. \A d \in D : u[z] # SlotOn(w, d)
      BY <3>2 DEF SlotOn
    <3>4. PICK b \in S : z = n + Rank(t, b) /\ u[z] = CopyOf(t, w, s, b)
      BY <1>5, <1>8, <3>3
    <3>5. s + Rank(t, y) = s + Rank(t, b)
      BY <1>8, <3>1, <3>4 DEF CopyOf
    <3> QED  BY <3>1, <3>4, <3>5
  <2>2. CASE \E d \in D : x = m + DayRank(D, d) /\ u[x] = SlotOn(w, d)
    <3>1. PICK d \in D : x = m + DayRank(D, d) /\ u[x] = SlotOn(w, d)
      BY <2>2
    <3>2. u[z].day \in D
      BY <1>8, <3>1 DEF SlotOn
    <3>3. \A y \in S : u[z] # CopyOf(t, w, s, y)
      BY <1>7, <3>2
    <3>4. PICK b \in D : z = m + DayRank(D, b) /\ u[z] = SlotOn(w, b)
      BY <1>5, <1>8, <3>3
    <3>5. d = b
      BY <1>8, <3>1, <3>4 DEF SlotOn
    <3> QED  BY <3>1, <3>4, <3>5
  <2> QED  BY <1>5, <1>8, <2>1, <2>2
<1> QED  BY <1>3, <1>5, <1>6, <1>7, <1>8

\* Plan w has one dinner on day d.
OnlyDinnerOn(X, t, w, d) ==
    \E x \in X : /\ t[x].week = w /\ t[x].day = d
                 /\ \A y \in X : t[y].week = w /\ t[y].day = d => y = x

\* What "one row on each day, none outside" means, row by row.
LEMMA ScheduleByRows ==
    ASSUME NEW X, IsFiniteSet(X), NEW C, NEW t \in Tables(X, C), NEW w,
           NEW s \in Int, NEW e \in Int
    PROVE  OneRowPerDay(t, w, s, e) <=>
             /\ \A d \in s..e : OnlyDinnerOn(X, t, w, d)
             /\ \A x \in X : t[x].week = w => s <= t[x].day /\ t[x].day <= e
<1>1. DinnersOf(t, w) = {x \in X : t[x].week = w}
  BY DEF DinnersOf, Tables
<1>2. ASSUME NEW d \in s..e
      PROVE  Cardinality({x \in DinnersOf(t, w) : t[x].day = d}) = 1
               <=> OnlyDinnerOn(X, t, w, d)
  <2> DEFINE R == {x \in DinnersOf(t, w) : t[x].day = d}
  <2>1. R = {x \in X : t[x].week = w /\ t[x].day = d}
    BY <1>1
  <2>2. IsFiniteSet(R)
    BY <2>1, FS_Subset
  <2> HIDE DEF R
  <2>3. Cardinality(R) = 1 <=> \E x : R = {x}
    BY <2>2, FS_Singleton
  <2>4. (\E x : R = {x}) <=> OnlyDinnerOn(X, t, w, d)
    <3>1. ASSUME NEW x, R = {x}
          PROVE  OnlyDinnerOn(X, t, w, d)
      BY <2>1, <3>1 DEF OnlyDinnerOn
    <3>2. ASSUME OnlyDinnerOn(X, t, w, d)
          PROVE  \E x : R = {x}
      <4>1. PICK x \in X : /\ t[x].week = w /\ t[x].day = d
                           /\ \A y \in X : t[y].week = w /\ t[y].day = d => y = x
        BY <3>2 DEF OnlyDinnerOn
      <4>2. R = {x}
        BY <2>1, <4>1
      <4> QED  BY <4>2
    <3> QED  BY <3>1, <3>2
  <2> QED  BY <2>3, <2>4 DEF R
<1>3. \A x \in X : t[x].day \in Int
  BY DEF Tables
<1>4. \A x \in DinnersOf(t, w) : t[x].day \in s..e <=> s <= t[x].day /\ t[x].day <= e
  BY <1>1, <1>3
<1> QED  BY <1>1, <1>2, <1>4 DEF OneRowPerDay

\* In a plan with one row per day from s on, the dinner of day d is number
\* d - s: packing such a plan only shifts it (weeks.go handleCloneWeek,
\* row_number() OVER (ORDER BY day_date, sort_order, id) - 1).
LEMMA ScheduledRank ==
    ASSUME NEW X, IsFiniteSet(X), X \subseteq Int, NEW C, NEW t \in Tables(X, C),
           NEW w, NEW s \in Int, NEW e \in Int, OneRowPerDay(t, w, s, e),
           NEW x \in DinnersOf(t, w)
    PROVE  Rank(t, x) = t[x].day - s
<1> DEFINE S == {y \in DOMAIN t : t[y].week = t[x].week /\ Before(t, y, x)}
           d == t[x].day
           f == [y \in S |-> t[y].day]
<1>1. DOMAIN t = X /\ x \in X /\ t[x].week = w /\ S \in SUBSET X
  BY DEF DinnersOf, Tables
<1>2. /\ \A c \in s..e : OnlyDinnerOn(X, t, w, c)
      /\ \A y \in X : t[y].week = w => s <= t[y].day /\ t[y].day <= e
  BY ScheduleByRows
<1>3. \A y \in X : t[y].day \in Int
  BY DEF Tables
<1>4. ASSUME NEW y \in X, NEW z \in X, t[y].week = w, t[z].week = w, t[y].day = t[z].day
      PROVE  y = z
  <2>1. t[y].day \in s..e
    BY <1>2, <1>3, <1>4
  <2>2. OnlyDinnerOn(X, t, w, t[y].day)
    BY <1>2, <2>1
  <2> QED  BY <1>4, <2>2 DEF OnlyDinnerOn
<1>5. ASSUME NEW y \in X
      PROVE  y \in S <=> t[y].week = w /\ t[y].day < d
  <2>1. ~Before(t, x, x)
    BY <1>1, BeforeIsOrder
  <2> QED  BY <1>1, <1>4, <2>1 DEF Before
<1>6. d \in Int /\ s <= d /\ d <= e /\ IsFiniteSet(S)
  BY <1>1, <1>2, <1>3, FS_Subset
<1> HIDE DEF S, d
<1>7. f \in Bijection(S, s..(d - 1))
  <2>1. \A y \in S : y \in X /\ t[y].week = w /\ t[y].day < d
    BY <1>1, <1>5
  <2>2. ASSUME NEW y \in S
        PROVE  t[y].day \in s..(d - 1)
    <3>1. t[y].day \in Int /\ s <= t[y].day /\ t[y].day < d
      BY <1>2, <1>3, <2>1
    <3> QED  BY <1>6, <3>1
  <2>3. f \in Injection(S, s..(d - 1))
    BY <1>4, <2>1, <2>2 DEF Injection, IsInjective
  <2>4. ASSUME NEW c \in s..(d - 1)
        PROVE  \E y \in S : t[y].day = c
    <3>1. c \in s..e /\ c < d
      BY <1>6
    <3>2. PICK y \in X : t[y].week = w /\ t[y].day = c
      BY <1>2, <3>1 DEF OnlyDinnerOn
    <3> QED  BY <1>5, <3>1, <3>2
  <2>5. f \in Surjection(S, s..(d - 1))
    BY <2>2, <2>4 DEF Surjection
  <2> QED  BY <2>3, <2>5 DEF Bijection
<1>8. ExistsBijection(S, s..(d - 1))
  BY <1>7 DEF ExistsBijection
<1>9. Cardinality(s..(d - 1)) = Cardinality(S)
  BY <1>6, <1>8, FS_Bijection
<1>10. Cardinality(s..(d - 1)) = d - s
  <2>1. d - 1 \in Int
    BY <1>6
  <2>2. Cardinality(s..(d - 1)) = IF s > d - 1 THEN 0 ELSE (d - 1) - s + 1
    BY <2>1, FS_Interval
  <2> QED  BY <1>6, <2>2
<1>11. Rank(t, x) = Cardinality(S)
  BY DEF Rank, S
<1> QED  BY <1>9, <1>10, <1>11 DEF d

\* u is the table t after the statements of a clone of v, which number the
\* copies of the dinners from n on.
Cloned(X, C, t, v, w, s, e, n, k, copied, D, u) ==
    /\ IsFiniteSet(X) /\ X \subseteq Int /\ t \in Tables(X, C)
    /\ v \in Nat \ {0} /\ w \in Nat \ {0} /\ s \in Int /\ e \in Int /\ n \in Nat
    /\ \A x \in X : t[x].week # w /\ (x >= n => t[x].week = 0)
    /\ k = Cardinality(DinnersOf(t, v))
    /\ copied = CopyDinners(t, v, w, s, n)
    /\ D = UncoveredDays(copied, w, s, e)
    /\ n..(n + k + Cardinality(D) - 1) \subseteq X
    /\ u = AddSlots(copied, w, D, n + k)

\* The table a clone leaves, when the new plan w had no rows and the ids from
\* n on were free: the source as it was, one row on each day of the copy, and
\* the source's dishes first (weeks.go handleCloneWeek).
LEMMA CloneRows ==
    ASSUME NEW X, NEW C, NEW t, NEW v, NEW w, NEW s, NEW e, NEW n, NEW k,
           NEW copied, NEW D, NEW u, Cloned(X, C, t, v, w, s, e, n, k, copied, D, u)
    PROVE  /\ \A x \in DinnersOf(t, v) : u[x] = t[x]
           /\ \A d \in s..e : \E x \in DinnersOf(u, w) : u[x].day = d
           /\ \A x, y \in DinnersOf(u, w) : u[x].day = u[y].day => x = y
           /\ \A x \in DinnersOf(t, v) : /\ n + Rank(t, x) \in DinnersOf(u, w)
                                         /\ u[n + Rank(t, x)] = CopyOf(t, w, s, x)
           /\ \A y \in DinnersOf(u, w) :
                (\A x \in DinnersOf(t, v) : n + Rank(t, x) # y) => u[y].dish = NoContent
<1>0. /\ IsFiniteSet(X) /\ X \subseteq Int /\ t \in Tables(X, C)
      /\ v \in Nat \ {0} /\ w \in Nat \ {0} /\ s \in Int /\ e \in Int /\ n \in Nat
      /\ \A x \in X : t[x].week # w /\ (x >= n => t[x].week = 0)
      /\ k = Cardinality(DinnersOf(t, v))
      /\ copied = CopyDinners(t, v, w, s, n)
      /\ D = UncoveredDays(copied, w, s, e)
      /\ n..(n + k + Cardinality(D) - 1) \subseteq X
      /\ u = AddSlots(copied, w, D, n + k)
  BY DEF Cloned
<1> USE <1>0
<1> DEFINE S == DinnersOf(t, v)
           m == n + k
<1>1. DOMAIN t = X /\ S \in SUBSET X /\ \A x \in S : t[x].week = v
  BY DEF Tables, DinnersOf
<1>2. k \in Nat /\ \A x \in S : Rank(t, x) \in Nat
  BY RanksCover DEF Numbered
<1>3. IsFiniteSet(D) /\ D \subseteq Int /\ Cardinality(D) \in Nat
  <2>1. D \in SUBSET (s..e) /\ IsFiniteSet(s..e)
    BY FS_Interval DEF UncoveredDays
  <2> QED  BY <2>1, FS_Subset, FS_CardinalityType
<1>4. /\ n..(n + k - 1) \subseteq X
      /\ m \in Nat /\ n <= m
      /\ m..(m + Cardinality(D) - 1) \subseteq X
  BY <1>2, <1>3
<1>5. copied \in Tables(X, C)
  BY CopyDinnersEdits DEF Edits
<1>6. DOMAIN copied = X /\ DOMAIN u = X
  BY <1>5 DEF AddSlots, Tables
<1>7. DinnersCopied(X, t, copied, v, w, s, n)
  BY <1>4, CopyDinnersRows
<1>8. SlotsAdded(X, copied, u, w, D, m)
  <2>1. PICK j \in Nat : j = m
    BY <1>4
  <2>2. j..(j + Cardinality(D) - 1) \subseteq X /\ u = AddSlots(copied, w, D, j)
    BY <1>4, <2>1
  <2> HIDE DEF m
  <2>3. SlotsAdded(X, copied, AddSlots(copied, w, D, j), w, D, j)
    BY ONLY <1>3, <1>5, <2>2, AddSlotsRows
  <2> QED  BY <2>1, <2>2, <2>3
<1>9. \A x \in X : copied[x].week = w => x \in DinnersOf(copied, w)
  BY <1>6 DEF DinnersOf
<1>10. \A d \in D, x \in X : copied[x].week = w => copied[x].day # d
  BY <1>9 DEF UncoveredDays
<1>11. S = DinnersOf(t, v) /\ m = n + Cardinality(S)
  OBVIOUS
<1> HIDE DEF S, m
<1>12. /\ \A x \in X : x < m => u[x] = copied[x]
       /\ \A x \in X : u[x].week = w =>
            \/ \E y \in S : x = n + Rank(t, y) /\ u[x] = CopyOf(t, w, s, y)
            \/ \E d \in D : x = m + DayRank(D, d) /\ u[x] = SlotOn(w, d)
       /\ \A y \in S : n + Rank(t, y) \in X /\ u[n + Rank(t, y)] = CopyOf(t, w, s, y)
       /\ \A x, z \in X : u[x].week = w /\ u[z].week = w /\ u[x].day = u[z].day
            => x = z
  <2>1. /\ X \subseteq Int /\ w \in Nat \ {0} /\ s \in Int /\ n \in Nat
        /\ \A x \in X : t[x].week # w
    OBVIOUS
  <2>2. CopiesBesideSlots(X, t, copied, u, S, D, v, w, s, n, m)
    BY ONLY <1>2, <1>3, <1>4, <1>7, <1>8, <1>10, <1>11, <2>1 DEF CopiesBesideSlots
  <2> QED  BY ONLY <2>2, CopiesAndSlots
<1>13. \A x \in X : \/ copied[x] = t[x]
                    \/ \E y \in S : x = n + Rank(t, y) /\ copied[x] = CopyOf(t, w, s, y)
  BY <1>7 DEF DinnersCopied, S
<1>14. \A x \in S : u[x] = t[x]
  <2> SUFFICES ASSUME NEW x \in S PROVE u[x] = t[x]
    OBVIOUS
  <2>1. x \in X /\ x < n
    BY <1>1
  <2>2. copied[x] = t[x]
    BY <1>2, <1>13, <2>1
  <2> QED  BY <1>4, <1>12, <2>1, <2>2
<1>15. ASSUME NEW d \in s..e
       PROVE  \E x \in X : u[x].week = w /\ u[x].day = d
  <2>1. CASE d \in D
    <3>1. PICK x \in X : u[x] = SlotOn(w, d)
      BY <1>8, <2>1 DEF SlotsAdded
    <3>2. SlotOn(w, d).week = w /\ SlotOn(w, d).day = d
      BY DEF SlotOn
    <3> QED  BY <3>1, <3>2
  <2>2. CASE d \notin D
    <3>1. PICK x \in DinnersOf(copied, w) : copied[x].day = d
      BY <2>2 DEF UncoveredDays
    <3>2. x \in X /\ copied[x].week = w
      BY <1>6 DEF DinnersOf
    <3>3. PICK y \in S : x = n + Rank(t, y) /\ copied[x] = CopyOf(t, w, s, y)
      BY <1>13, <3>2
    <3>4. u[x] = copied[x]
      BY <1>12, <3>3
    <3> QED  BY <3>1, <3>2, <3>4
  <2> QED  BY <2>1, <2>2
<1>16. ASSUME NEW y \in X, u[y].week = w, \A x \in S : n + Rank(t, x) # y
       PROVE  u[y].dish = NoContent
  <2>1. \E d \in D : u[y] = SlotOn(w, d)
    BY <1>12, <1>16
  <2> QED  BY <2>1 DEF SlotOn
<1>17. DinnersOf(u, w) = {x \in X : u[x].week = w}
  BY <1>6 DEF DinnersOf
<1>18. \A d \in s..e : \E x \in DinnersOf(u, w) : u[x].day = d
  BY <1>15, <1>17
<1>19. \A x, y \in DinnersOf(u, w) : u[x].day = u[y].day => x = y
  <2>1. \A x \in DinnersOf(u, w) : x \in X /\ u[x].week = w
    BY <1>17
  <2> SUFFICES ASSUME NEW x \in DinnersOf(u, w), NEW y \in DinnersOf(u, w),
                      u[x].day = u[y].day
               PROVE  x = y
    OBVIOUS
  <2> QED  BY <1>12, <2>1
<1>20. \A x \in S : /\ n + Rank(t, x) \in DinnersOf(u, w)
                    /\ u[n + Rank(t, x)] = CopyOf(t, w, s, x)
  BY <1>12, <1>17 DEF CopyOf
<1>21. \A y \in DinnersOf(u, w) :
         (\A x \in S : n + Rank(t, x) # y) => u[y].dish = NoContent
  BY <1>16, <1>17
<1> QED  BY <1>14, <1>18, <1>19, <1>20, <1>21 DEF S

\* handleCloneWeek's promise ("always has one row per day"), for every plan
\* and whatever happened to the source while the clone was in flight.
LEMMA CommitCloneComplete ==
    ASSUME BInv, NEW h \in Handlers, CommitClone(h)
    PROVE  LET v == pending[h].week
               w == pending[h].row
               s == weeks'[w].start
               source == DinnersOf(dinners, v)
               clone == DinnersOf(dinners', w)
           IN  /\ \A x \in source : dinners'[x] = dinners[x]
               /\ \A d \in s..weeks'[w].end : \E x \in clone : dinners'[x].day = d
               /\ \A x, y \in clone : dinners'[x].day = dinners'[y].day => x = y
               /\ \E copy \in [source -> clone] :
                    /\ \A x \in source : dinners'[copy[x]].dish = dinners[x].dish
                    /\ \A x, y \in source :
                          Before(dinners, x, y) => dinners'[copy[x]].day < dinners'[copy[y]].day
                    /\ \A y \in clone :
                          (\A x \in source : copy[x] # y) => dinners'[y].dish = NoContent
                    /\ Scheduled(v) =>
                          \A x \in source :
                             dinners'[copy[x]].day - s = dinners[x].day - weeks[v].start
<1> DEFINE v == pending[h].week
           w == pending[h].row
           s == pending[h].start
           e == pending[h].end
           k == Cardinality(DinnersOf(dinners, v))
           copied == CopyDinners(dinners, v, w, s, nextDinner)
           gaps == UncoveredDays(copied, w, s, e)
<1>1. w \in WeekIds /\ w \in Nat \ {0} /\ weeks[w] = NoWeek
  BY DinnerIdsFinite DEF CommitClone, BInv, IInv, PendingRows, CopiesApart, Procs
<1>2. s \in Int /\ e \in Int /\ v \in Nat /\ nextDinner \in Nat \ {0}
  BY DEF BInv, IInv, TypeOK, Procs
<1>3. /\ dinners' = AddSlots(copied, w, gaps, nextDinner + k)
      /\ nextDinner + k + Cardinality(gaps) <= MaxDinner + 1
      /\ weeks' = [weeks EXCEPT ![w] = [start |-> s, end |-> e, status |-> "draft"]]
  BY DEF CommitClone
<1>4. weeks'[w].start = s /\ weeks'[w].end = e
  BY <1>1, <1>3 DEF BInv, IInv, TypeOK
<1>5. /\ IsFiniteSet(DinnerIds) /\ DinnerIds \subseteq Int
      /\ dinners \in Tables(DinnerIds, Dishes) /\ NoContent \in Dishes
  BY DinnerIdsFinite, DinnersAreATable DEF BInv, IInv
<1>6. \A x \in DinnerIds : /\ dinners[x].week # w
                           /\ x >= nextDinner => dinners[x].week = 0
  BY <1>1 DEF BInv, IInv, NoOrphans, Exists, TypeOK, NoDinner
<1>7. copied = CopyDinners(dinners, v, w, s, nextDinner)
      /\ k = Cardinality(DinnersOf(dinners, v))
      /\ gaps = UncoveredDays(copied, w, s, e)
  OBVIOUS
<1> HIDE DEF v, w, s, e, k, copied, gaps
<1>8. k \in Nat /\ Cardinality(gaps) \in Nat
  <2>1. gaps \in SUBSET (s..e) /\ IsFiniteSet(s..e)
    BY <1>2, <1>7, FS_Interval DEF UncoveredDays
  <2>2. k \in Nat
    BY <1>5, <1>7, RanksCover DEF Numbered
  <2> QED  BY <2>1, <2>2, FS_Subset, FS_CardinalityType
<1>9. nextDinner..(nextDinner + k + Cardinality(gaps) - 1) \subseteq DinnerIds
  BY <1>2, <1>3, <1>8, ConstantsAssumption DEF DinnerIds
<1>10. ASSUME Scheduled(v), NEW x \in DinnersOf(dinners, v)
       PROVE  Rank(dinners, x) = dinners[x].day - weeks[v].start
  <2>1. v \in WeekIds
    BY DinnerIdsFinite DEF CommitClone, BInv, IInv, PendingRows, Procs, v
  <2>2. weeks[v].start \in Int /\ weeks[v].end \in Int
    BY <2>1 DEF BInv, IInv, TypeOK
  <2>3. OneRowPerDay(dinners, v, weeks[v].start, weeks[v].end)
    BY <1>10 DEF Scheduled
  <2> QED  BY ONLY <1>5, <1>10, <2>2, <2>3, ScheduledRank
<1>11. nextDinner \in Nat /\ \A x \in DinnerIds : /\ dinners[x].week # w
                                                  /\ x >= nextDinner => dinners[x].week = 0
  BY <1>2, <1>6
<1>12. v # 0
  BY DinnerIdsFinite DEF CommitClone, BInv, IInv, PendingRows, Procs, v
<1>13. /\ \A x \in DinnersOf(dinners, v) : dinners'[x] = dinners[x]
       /\ \A d \in s..e : \E x \in DinnersOf(dinners', w) : dinners'[x].day = d
       /\ \A x, y \in DinnersOf(dinners', w) :
            dinners'[x].day = dinners'[y].day => x = y
       /\ \A x \in DinnersOf(dinners, v) :
            /\ nextDinner + Rank(dinners, x) \in DinnersOf(dinners', w)
            /\ dinners'[nextDinner + Rank(dinners, x)] = CopyOf(dinners, w, s, x)
       /\ \A y \in DinnersOf(dinners', w) :
            (\A x \in DinnersOf(dinners, v) : nextDinner + Rank(dinners, x) # y)
              => dinners'[y].dish = NoContent
  <2>1. v \in Nat \ {0} /\ w \in Nat \ {0} /\ nextDinner \in Nat
    BY <1>1, <1>2, <1>12
  <2>2. Cloned(DinnerIds, Dishes, dinners, v, w, s, e, nextDinner, k, copied, gaps,
               dinners')
    BY ONLY <1>2, <1>3, <1>5, <1>7, <1>9, <1>11, <2>1 DEF Cloned
  <2> QED  BY ONLY <2>2, CloneRows
<1> DEFINE source == DinnersOf(dinners, v)
           copy == [x \in source |-> nextDinner + Rank(dinners, x)]
<1>14. \A x \in source : x \in DinnerIds /\ dinners[x].week = v /\ Rank(dinners, x) \in Nat
  BY <1>5, RanksCover DEF Numbered, DinnersOf, Tables
<1>15. copy \in [source -> DinnersOf(dinners', w)]
  BY <1>13
<1>16. ASSUME NEW x \in source
       PROVE  /\ dinners'[copy[x]].dish = dinners[x].dish
              /\ dinners'[copy[x]].day = s + Rank(dinners, x)
  <2>1. dinners'[copy[x]] = CopyOf(dinners, w, s, x)
    BY <1>13
  <2> QED  BY <2>1 DEF CopyOf
<1>17. \A x, y \in source :
         Before(dinners, x, y) => dinners'[copy[x]].day < dinners'[copy[y]].day
  <2> SUFFICES ASSUME NEW x \in source, NEW y \in source, Before(dinners, x, y)
               PROVE  dinners'[copy[x]].day < dinners'[copy[y]].day
    OBVIOUS
  <2>1. Rank(dinners, x) < Rank(dinners, y)
    BY <1>5, <1>14, RankFollowsOrder
  <2> QED  BY <1>2, <1>14, <1>16, <2>1
<1>18. \A y \in DinnersOf(dinners', w) :
         (\A x \in source : copy[x] # y) => dinners'[y].dish = NoContent
  BY <1>13
<1>19. Scheduled(v) =>
         \A x \in source : dinners'[copy[x]].day - s = dinners[x].day - weeks[v].start
  <2> SUFFICES ASSUME Scheduled(v), NEW x \in source
               PROVE  dinners'[copy[x]].day - s = dinners[x].day - weeks[v].start
    OBVIOUS
  <2>1. Rank(dinners, x) = dinners[x].day - weeks[v].start
    BY <1>10
  <2>2. (s + Rank(dinners, x)) - s = Rank(dinners, x)
    BY <1>2, <1>14
  <2> QED  BY <1>16, <2>1, <2>2
<1> HIDE DEF source, copy
<1>20. \E f \in [source -> DinnersOf(dinners', w)] :
         /\ \A x \in source : dinners'[f[x]].dish = dinners[x].dish
         /\ \A x, y \in source :
               Before(dinners, x, y) => dinners'[f[x]].day < dinners'[f[y]].day
         /\ \A y \in DinnersOf(dinners', w) :
               (\A x \in source : f[x] # y) => dinners'[y].dish = NoContent
         /\ Scheduled(v) =>
               \A x \in source : dinners'[f[x]].day - s = dinners[x].day - weeks[v].start
  BY <1>15, <1>16, <1>17, <1>18, <1>19
<1> QED  BY <1>4, <1>13, <1>20 DEF v, w, source

LEMMA BookClonesComplete == []BInv /\ [][Next]_vars => CloneIsComplete
<1> DEFINE Complete ==
      \A h \in Handlers :
         LET v == pending[h].week
             w == pending[h].row
             s == weeks'[w].start
             source == DinnersOf(dinners, v)
             clone == DinnersOf(dinners', w)
         IN  CommitClone(h) =>
             /\ \A x \in source : dinners'[x] = dinners[x]
             /\ \A d \in s..weeks'[w].end : \E x \in clone : dinners'[x].day = d
             /\ \A x, y \in clone : dinners'[x].day = dinners'[y].day => x = y
             /\ \E copy \in [source -> clone] :
                  /\ \A x \in source : dinners'[copy[x]].dish = dinners[x].dish
                  /\ \A x, y \in source :
                        Before(dinners, x, y) => dinners'[copy[x]].day < dinners'[copy[y]].day
                  /\ \A y \in clone :
                        (\A x \in source : copy[x] # y) => dinners'[y].dish = NoContent
                  /\ Scheduled(v) =>
                        \A x \in source :
                           dinners'[copy[x]].day - s = dinners[x].day - weeks[v].start
<1>1. BInv => Complete
  BY CommitCloneComplete
<1>2. BInv /\ [Next]_vars => [Complete]_vars
  BY <1>1
<1> HIDE DEF Complete
<1>3. []BInv /\ [][Next]_vars => [][Complete]_vars
  BY <1>2, PTL
<1> QED  BY <1>3 DEF CloneIsComplete, Complete

\* A clone is complete (weeks.go handleCloneWeek, "always has one row per
\* day"), for every plan cloned, however many requests and chats write to the
\* source between the clone's statements; of a source with one row per day it
\* keeps the calendar.
THEOREM ClonesAreComplete == Spec => CloneIsComplete
BY BookInductive, BookClonesComplete, PTL DEF Spec

(***************************************************************************)
(* The side effects of a PATCH on a plan with one row per day.             *)
(***************************************************************************)
\* A plan with one row per day has as many rows as days.
LEMMA ScheduleLength ==
    ASSUME NEW X, IsFiniteSet(X), NEW C, NEW t \in Tables(X, C), NEW w,
           NEW s \in Int, NEW e \in Int, s <= e, OneRowPerDay(t, w, s, e)
    PROVE  Cardinality(DinnersOf(t, w)) = e - s + 1
<1> DEFINE S == DinnersOf(t, w)
           f == [x \in S |-> t[x].day]
<1>1. S = {x \in X : t[x].week = w}
  BY DEF DinnersOf, Tables
<1>2. /\ \A d \in s..e : OnlyDinnerOn(X, t, w, d)
      /\ \A x \in X : t[x].week = w => s <= t[x].day /\ t[x].day <= e
  BY ScheduleByRows
<1>3. \A x \in S : t[x].day \in s..e
  BY <1>1, <1>2 DEF Tables
<1>4. \A x, y \in S : t[x].day = t[y].day => x = y
  BY <1>1, <1>2, <1>3 DEF OnlyDinnerOn
<1>5. \A d \in s..e : \E x \in S : t[x].day = d
  BY <1>1, <1>2 DEF OnlyDinnerOn
<1>6. IsFiniteSet(S)
  BY <1>1, FS_Subset
<1> HIDE DEF S
<1>7. f \in Bijection(S, s..e)
  <2>1. f \in [S -> s..e]
    BY <1>3
  <2>2. f \in Injection(S, s..e)
    BY <1>4, <2>1 DEF Injection, IsInjective
  <2>3. f \in Surjection(S, s..e)
    BY <1>5, <2>1 DEF Surjection
  <2> QED  BY <2>2, <2>3 DEF Bijection
<1>8. ExistsBijection(S, s..e)
  BY <1>7 DEF ExistsBijection
<1>9. Cardinality(s..e) = Cardinality(S)
  BY <1>6, <1>8, FS_Bijection
<1>10. Cardinality(s..e) = e - s + 1
  BY FS_Interval
<1> QED  BY <1>9, <1>10 DEF S

\* Packing a plan from day a leaves one row on each of the days that follow,
\* as many as it has rows (weeks.go handlePatchWeek, the moved start).
LEMMA PackSchedules ==
    ASSUME NEW X, IsFiniteSet(X), X \subseteq Int, NEW C, NEW t \in Tables(X, C),
           NEW w, NEW a \in Int
    PROVE  /\ Pack(t, w, a) \in Tables(X, C)
           /\ OneRowPerDay(Pack(t, w, a), w, a, a + Cardinality(DinnersOf(t, w)) - 1)
<1> DEFINE S == DinnersOf(t, w)
           k == Cardinality(S)
           u == Pack(t, w, a)
<1>1. S = {x \in X : t[x].week = w} /\ DOMAIN t = X
  BY DEF DinnersOf, Tables
<1>2. /\ k \in Nat
      /\ \A x \in S : Rank(t, x) \in Nat /\ Rank(t, x) < k
      /\ \A x, y \in S : Rank(t, x) = Rank(t, y) => x = y
      /\ \A i \in 0..(k - 1) : \E x \in S : Rank(t, x) = i
  <2>1. Numbered(t, S)
    BY RanksCover
  <2> HIDE DEF S
  <2> QED  BY <2>1 DEF Numbered
<1>3. u \in Tables(X, C)
  BY PackEdits DEF Edits
<1>4. \A x \in X : /\ u[x].week = t[x].week
                   /\ t[x].week = w => u[x].day = a + Rank(t, x)
  BY <1>1 DEF Pack, Tables
<1> HIDE DEF S, u, k
<1>5. ASSUME NEW d \in a..(a + k - 1)
      PROVE  OnlyDinnerOn(X, u, w, d)
  <2>1. d - a \in 0..(k - 1)
    BY <1>2
  <2>2. PICK x \in S : Rank(t, x) = d - a
    BY <1>2, <2>1
  <2>3. x \in X /\ u[x].week = w /\ u[x].day = d
    BY <1>1, <1>4, <2>2
  <2>4. ASSUME NEW y \in X, u[y].week = w, u[y].day = d
        PROVE  y = x
    <3>1. y \in S /\ a + Rank(t, y) = d
      BY <1>1, <1>4, <2>4
    <3>2. Rank(t, y) = Rank(t, x)
      BY <1>2, <2>2, <3>1
    <3> QED  BY <1>2, <3>1, <3>2
  <2> QED  BY <2>3, <2>4 DEF OnlyDinnerOn
<1>6. \A x \in X : u[x].week = w => a <= u[x].day /\ u[x].day <= a + k - 1
  BY <1>1, <1>2, <1>4
<1>7. a + k - 1 \in Int
  BY <1>2
<1> QED  BY <1>3, <1>5, <1>6, <1>7, ScheduleByRows DEF S, u, k

\* Cutting a plan off after day e keeps the rows of the days up to it.
LEMMA TruncateSchedules ==
    ASSUME NEW X, IsFiniteSet(X), X \subseteq Int, NEW C, NoContent \in C,
           NEW t \in Tables(X, C), NEW w \in Nat \ {0},
           NEW s \in Int, NEW b \in Int, NEW e \in Int, e <= b,
           OneRowPerDay(t, w, s, b)
    PROVE  OneRowPerDay(Truncate(t, w, e), w, s, e)
<1> DEFINE u == Truncate(t, w, e)
<1>1. /\ \A d \in s..b : OnlyDinnerOn(X, t, w, d)
      /\ \A x \in X : t[x].week = w => s <= t[x].day /\ t[x].day <= b
  BY ScheduleByRows
<1>2. u \in Tables(X, C)
  BY TruncateEdits DEF Edits
<1>3. \A x \in X : IF t[x].week = w /\ t[x].day > e THEN u[x].week = 0
                   ELSE u[x] = t[x]
  BY DEF Truncate, Tables, NoDinner
<1>4. \A x \in X : t[x].day \in Int
  BY DEF Tables
<1> HIDE DEF u
<1>5. ASSUME NEW d \in s..e
      PROVE  OnlyDinnerOn(X, u, w, d)
  <2>1. PICK x \in X : /\ t[x].week = w /\ t[x].day = d
                       /\ \A y \in X : t[y].week = w /\ t[y].day = d => y = x
    BY <1>1 DEF OnlyDinnerOn
  <2>2. u[x] = t[x]
    BY <1>3, <2>1
  <2>3. \A y \in X : u[y].week = w => u[y] = t[y]
    BY <1>3
  <2> QED  BY <2>1, <2>2, <2>3 DEF OnlyDinnerOn
<1>6. \A x \in X : u[x].week = w => s <= u[x].day /\ u[x].day <= e
  BY <1>1, <1>3, <1>4
<1> QED  BY <1>2, <1>5, <1>6, ScheduleByRows DEF u

\* Extending a plan to day e gives each new day its one row, under ids that
\* were free.
LEMMA AddSlotsSchedules ==
    ASSUME NEW X, IsFiniteSet(X), X \subseteq Int, NEW C, NoContent \in C,
           NEW t \in Tables(X, C), NEW w \in Nat \ {0},
           NEW s \in Int, NEW b \in Int, NEW e \in Int, NEW n \in Nat, b < e, s <= b,
           OneRowPerDay(t, w, s, b),
           \A x \in X : x >= n => t[x].week = 0,
           n..(n + (e - b) - 1) \subseteq X
    PROVE  OneRowPerDay(AddSlots(t, w, (b + 1)..e, n), w, s, e)
<1> DEFINE D == (b + 1)..e
           u == AddSlots(t, w, D, n)
<1>1. /\ \A d \in s..b : OnlyDinnerOn(X, t, w, d)
      /\ \A x \in X : t[x].week = w => s <= t[x].day /\ t[x].day <= b
  BY ScheduleByRows
<1>2. IsFiniteSet(D) /\ D \subseteq Int /\ Cardinality(D) = e - b
  <2>1. b + 1 \in Int
    OBVIOUS
  <2>2. IsFiniteSet(D) /\ Cardinality(D) = IF b + 1 > e THEN 0 ELSE e - (b + 1) + 1
    BY <2>1, FS_Interval
  <2> QED  BY <2>2
<1>3. u \in Tables(X, C)
  BY <1>2, AddSlotsEdits DEF Edits
<1>4. SlotsAdded(X, t, u, w, D, n)
  <2>1. n..(n + Cardinality(D) - 1) \subseteq X
    BY <1>2
  <2> HIDE DEF D
  <2> QED  BY <1>2, <2>1, AddSlotsRows
<1>5. \A d \in D : d > b /\ d <= e /\ d \in Int
  OBVIOUS
<1>6. \A d \in s..e : d \in s..b \/ d \in D
  OBVIOUS
<1>7. \A d : SlotOn(w, d).week = w /\ SlotOn(w, d).day = d
  BY DEF SlotOn
<1> HIDE DEF D, u
<1>8. \A x \in X : t[x].week = w => u[x] = t[x] /\ t[x].day <= b
  <2> SUFFICES ASSUME NEW x \in X, t[x].week = w, u[x] # t[x]
               PROVE  FALSE
    BY <1>1
  <2>1. x < n /\ x \in Int
    OBVIOUS
  <2>2. PICK d \in D : x = n + DayRank(D, d) /\ n + DayRank(D, d) >= n
    BY <1>4 DEF SlotsAdded
  <2> QED  BY <2>1, <2>2
<1>9. \A x \in X : u[x].week = w /\ t[x].week # w =>
         \E d \in D : x = n + DayRank(D, d) /\ u[x] = SlotOn(w, d)
  BY <1>4 DEF SlotsAdded
<1>10. ASSUME NEW d \in s..b
       PROVE  OnlyDinnerOn(X, u, w, d)
  <2>1. PICK x \in X : /\ t[x].week = w /\ t[x].day = d
                       /\ \A y \in X : t[y].week = w /\ t[y].day = d => y = x
    BY <1>1 DEF OnlyDinnerOn
  <2>2. ASSUME NEW y \in X, u[y].week = w, u[y].day = d
        PROVE  y = x
    <3>1. CASE t[y].week = w
      BY <1>8, <2>1, <2>2, <3>1
    <3>2. CASE t[y].week # w
      <4>1. PICK c \in D : u[y] = SlotOn(w, c)
        BY <1>9, <2>2, <3>2
      <4>2. c = d
        BY <1>7, <2>2, <4>1
      <4> QED  BY <1>5, <4>2
    <3> QED  BY <3>1, <3>2
  <2> QED  BY <1>8, <2>1, <2>2 DEF OnlyDinnerOn
<1>11. ASSUME NEW d \in D
       PROVE  OnlyDinnerOn(X, u, w, d)
  <2>1. n + DayRank(D, d) \in X /\ u[n + DayRank(D, d)] = SlotOn(w, d)
    BY <1>4 DEF SlotsAdded
  <2>2. PICK x \in X : x = n + DayRank(D, d)
    BY <2>1
  <2>3. ASSUME NEW y \in X, u[y].week = w, u[y].day = d
        PROVE  y = x
    <3>1. CASE t[y].week = w
      BY <1>5, <1>8, <2>3, <3>1 DEF Tables
    <3>2. CASE t[y].week # w
      <4>1. PICK c \in D : y = n + DayRank(D, c) /\ u[y] = SlotOn(w, c)
        BY <1>9, <2>3, <3>2
      <4>2. c = d
        BY <1>7, <2>3, <4>1
      <4> QED  BY <2>2, <4>1, <4>2
    <3> QED  BY <3>1, <3>2
  <2> QED  BY <1>7, <2>1, <2>2, <2>3 DEF OnlyDinnerOn
<1>12. \A x \in X : u[x].week = w => s <= u[x].day /\ u[x].day <= e
  <2> SUFFICES ASSUME NEW x \in X, u[x].week = w
               PROVE  s <= u[x].day /\ u[x].day <= e
    OBVIOUS
  <2>1. CASE t[x].week = w
    <3>1. u[x] = t[x] /\ s <= t[x].day /\ t[x].day <= b /\ t[x].day \in Int
      BY <1>1, <1>8, <2>1 DEF Tables
    <3> QED  BY <3>1
  <2>2. CASE t[x].week # w
    <3>1. PICK d \in D : u[x] = SlotOn(w, d)
      BY <1>9, <2>2
    <3>2. u[x].day = d
      BY <1>7, <3>1
    <3> QED  BY <1>5, <3>2
  <2> QED  BY <2>1, <2>2
<1> QED  BY <1>3, <1>6, <1>10, <1>11, <1>12, ScheduleByRows DEF u, D

\* A PATCH that names the start alone: the plan slides, packed, with its
\* length (weeks.go handlePatchWeek).
LEMMA MoveKeepsSchedule ==
    ASSUME IInv, NEW h \in Handlers, NEW w \in WeekIds, NEW d \in Days, NEW st,
           FreshPatch(h, w), DatesOrdered(w), Scheduled(w),
           CommitPatch(h, d, NoDate, st)
    PROVE  DatesOrdered(w)' /\ Scheduled(w)'
<1> DEFINE s == weeks[w].start
           e == weeks[w].end
           p == PatchDates(pending[h], d, NoDate)
<1>1. pending[h].week = w /\ pending[h].start = s /\ pending[h].end = e
  BY DEF FreshPatch
<1>2. s \in Int /\ e \in Int /\ s <= e /\ d \in Int /\ d # NoDate
  BY ConstantsAssumption DEF IInv, TypeOK, DatesOrdered
<1>3. /\ p.moved = (d # s) /\ p.start = d /\ (p.endSet <=> d # s)
      /\ p.end = (IF d # s THEN e + (d - s) ELSE e)
      /\ p.base = p.end
  BY <1>1, <1>2 DEF PatchDates
<1>4. /\ dinners' = PatchDinners(dinners, w, p, nextDinner)
      /\ weeks' = [weeks EXCEPT ![w] =
           [start  |-> IF d # NoDate THEN d ELSE @.start,
            end    |-> IF p.endSet THEN p.end ELSE @.end,
            status |-> IF st # "none" THEN st ELSE @.status]]
  BY <1>1 DEF CommitPatch
<1>5. /\ IsFiniteSet(DinnerIds) /\ DinnerIds \subseteq Int
      /\ dinners \in Tables(DinnerIds, Dishes)
  BY DinnerIdsFinite, DinnersAreATable DEF IInv
<1>6. OneRowPerDay(dinners, w, s, e)
  BY DEF Scheduled
<1>7. weeks'[w].start = d /\ weeks'[w].end = d + (e - s)
  <2>1. weeks \in [WeekIds -> [start : Int, end : Int, status : Statuses \cup {"none"}]]
    BY DEF IInv, TypeOK
  <2>2. weeks'[w].start = d /\ weeks'[w].end = IF p.endSet THEN p.end ELSE e
    BY <1>2, <1>4, <2>1
  <2> HIDE DEF p
  <2>3. CASE d = s
    <3>1. ~p.endSet
      BY <1>3, <2>3
    <3>2. d + (e - s) = e
      BY <1>2, <2>3
    <3> QED  BY <2>2, <3>1, <3>2
  <2>4. CASE d # s
    <3>1. p.endSet /\ p.end = e + (d - s)
      BY <1>3, <2>4
    <3>2. e + (d - s) = d + (e - s)
      BY <1>2
    <3> QED  BY <2>2, <3>1, <3>2
  <2> QED  BY <2>3, <2>4
<1>8. dinners' = IF d # s THEN Pack(dinners, w, d) ELSE dinners
  <2>1. e + (d - s) \in Int /\ e \in Int
    BY <1>2
  <2>2. ~(p.end < p.base) /\ ~(p.end > p.base)
    BY <1>3, <2>1
  <2> HIDE DEF p
  <2> QED  BY <1>3, <1>4, <2>2 DEF PatchDinners
<1> HIDE DEF s, e, p
<1>9. OneRowPerDay(dinners', w, d, d + (e - s))
  <2>1. CASE d = s
    <3>1. d + (e - s) = e
      BY <1>2, <2>1
    <3> QED  BY <1>6, <1>8, <2>1, <3>1
  <2>2. CASE d # s
    <3>1. OneRowPerDay(Pack(dinners, w, d), w, d,
                       d + Cardinality(DinnersOf(dinners, w)) - 1)
      BY <1>2, <1>5, PackSchedules
    <3>2. Cardinality(DinnersOf(dinners, w)) = e - s + 1
      BY <1>2, <1>5, <1>6, ScheduleLength
    <3>3. d + (e - s + 1) - 1 = d + (e - s)
      BY <1>2
    <3> QED  BY <1>8, <2>2, <3>1, <3>2, <3>3
  <2> QED  BY <2>1, <2>2
<1>10. d <= d + (e - s)
  BY <1>2
<1> QED  BY <1>7, <1>9, <1>10 DEF DatesOrdered, Scheduled

\* A PATCH that names the end alone: the plan is cut off, or gets a slot on
\* each new day (weeks.go handlePatchWeek).
LEMMA ResizeKeepsSchedule ==
    ASSUME IInv, NEW h \in Handlers, NEW w \in WeekIds, NEW d \in Days, NEW st,
           FreshPatch(h, w), DatesOrdered(w), Scheduled(w),
           CommitPatch(h, NoDate, d, st)
    PROVE  DatesOrdered(w)' /\ Scheduled(w)'
<1> DEFINE s == weeks[w].start
           e == weeks[w].end
           p == PatchDates(pending[h], NoDate, d)
           added == IF d > e THEN d - e ELSE 0
<1>1. pending[h].week = w /\ pending[h].start = s /\ pending[h].end = e
  BY DEF FreshPatch
<1>2. s \in Int /\ e \in Int /\ s <= e /\ d \in Int /\ d # NoDate /\ w \in Nat \ {0}
  BY ConstantsAssumption, DinnerIdsFinite DEF IInv, TypeOK, DatesOrdered
<1>3. p.moved = FALSE /\ p.endSet /\ p.end = d /\ p.base = e /\ p.start = s
  BY <1>1, <1>2 DEF PatchDates
<1>4. /\ dinners' = PatchDinners(dinners, w, p, nextDinner)
      /\ ~EndBeforeStart(p)
      /\ nextDinner + (IF p.end > p.base THEN p.end - p.base ELSE 0) <= MaxDinner + 1
      /\ weeks' = [weeks EXCEPT ![w] =
           [start  |-> IF NoDate # NoDate THEN NoDate ELSE @.start,
            end    |-> IF p.endSet THEN p.end ELSE @.end,
            status |-> IF st # "none" THEN st ELSE @.status]]
  BY <1>1 DEF CommitPatch
<1>5. /\ IsFiniteSet(DinnerIds) /\ DinnerIds \subseteq Int
      /\ dinners \in Tables(DinnerIds, Dishes) /\ NoContent \in Dishes
  BY DinnerIdsFinite, DinnersAreATable DEF IInv
<1>6. OneRowPerDay(dinners, w, s, e)
  BY DEF Scheduled
<1>7. weeks'[w].start = s /\ weeks'[w].end = d
  <2>1. weeks \in [WeekIds -> [start : Int, end : Int, status : Statuses \cup {"none"}]]
    BY DEF IInv, TypeOK
  <2> QED  BY <1>3, <1>4, <2>1
<1>8. s <= d
  BY <1>2, <1>3, <1>4 DEF EndBeforeStart
<1>9. nextDinner + added <= MaxDinner + 1
  BY <1>3, <1>4
<1>10. dinners' = CASE d < e -> Truncate(dinners, w, d)
                    [] d > e -> AddSlots(dinners, w, (e + 1)..d, nextDinner)
                    [] OTHER -> dinners
  BY <1>3, <1>4, Zenon DEF PatchDinners
<1>11. nextDinner \in Nat \ {0} /\ \A x \in DinnerIds : x >= nextDinner => dinners[x].week = 0
  BY DEF IInv, TypeOK, NoDinner
<1> HIDE DEF s, e, p
<1>12. OneRowPerDay(dinners', w, s, d)
  <2>1. CASE d < e
    <3>1. dinners' = Truncate(dinners, w, d) /\ d <= e
      BY <1>2, <1>10, <2>1
    <3> QED  BY <1>2, <1>5, <1>6, <3>1, TruncateSchedules
  <2>2. CASE d > e
    <3>1. dinners' = AddSlots(dinners, w, (e + 1)..d, nextDinner) /\ e < d
      BY <1>2, <1>10, <2>2
    <3>2. nextDinner..(nextDinner + (d - e) - 1) \subseteq DinnerIds
      BY <1>2, <1>9, <1>11, <2>2, ConstantsAssumption DEF DinnerIds
    <3>3. nextDinner \in Nat
      BY <1>11
    <3> QED  BY ONLY <1>2, <1>5, <1>6, <1>11, <3>1, <3>2, <3>3, AddSlotsSchedules
  <2>3. CASE d = e
    BY <1>2, <1>6, <1>10, <2>3
  <2> QED  BY <1>2, <2>1, <2>2, <2>3
<1> QED  BY <1>7, <1>8, <1>12 DEF DatesOrdered, Scheduled

LEMMA BookPatchesKeep == []BInv /\ [][Next]_vars => FreshPatchKeepsSchedule
<1> DEFINE Keeps ==
      \A h \in Handlers, w \in WeekIds :
         /\ FreshPatch(h, w) /\ DatesOrdered(w) /\ Scheduled(w)
         /\ \E st \in Statuses \cup {"none"}, d \in Days :
               CommitPatch(h, d, NoDate, st) \/ CommitPatch(h, NoDate, d, st)
         => DatesOrdered(w)' /\ Scheduled(w)'
<1>1. IInv => Keeps
  BY MoveKeepsSchedule, ResizeKeepsSchedule
<1>2. IInv /\ [Next]_vars => [Keeps]_vars
  BY <1>1
<1> HIDE DEF Keeps
<1>3. []BInv /\ [][Next]_vars => [][Keeps]_vars
  BY <1>2, PTL DEF BInv
<1> QED  BY <1>3 DEF FreshPatchKeepsSchedule, Keeps

\* A PATCH of one date that has read true dates keeps one row per day, for
\* plans of every length and dates of every distance: sliding, packing,
\* cutting off and adding slots agree (weeks.go handlePatchWeek).
THEOREM FreshPatchesKeepSchedules == Spec => FreshPatchKeepsSchedule
BY BookInductive, BookPatchesKeep, PTL DEF Spec

(***************************************************************************)
(* From the seeded states.                                                 *)
(***************************************************************************)
LEMMA MoreRows ==
    ASSUME NEW D, D \subseteq Int, NEW C
    PROVE  [week : {1}, day : D, dish : C] \subseteq [week : Nat, day : Int, dish : C]
<1> SUFFICES ASSUME NEW r \in [week : {1}, day : D, dish : C]
             PROVE  r \in [week : Nat, day : Int, dish : C]
  OBVIOUS
<1>1. r = [week |-> r.week, day |-> r.day, dish |-> r.dish]
  OBVIOUS
<1>2. r.week \in {1} /\ r.day \in D /\ r.dish \in C
  OBVIOUS
<1>3. r.week = 1 /\ r.day \in Int
  BY <1>2
<1> QED  BY <1>1, <1>2, <1>3

LEMMA SeedsAreBooks ==
    ASSUME SeedInit
    PROVE  BInv
<1>1. /\ \A p \in Procs : pending[p] = Request("idle", 0, 0)
      /\ pending \in [Procs -> {Request("idle", 0, 0)}]
  BY DEF SeedInit, Idle
<1>2. Request("idle", 0, 0) \in Requests /\ Request("idle", 0, 0).op = "idle"
  BY DEF Request, Requests, Ops
<1>3. \A p \in Procs : pending[p].op = "idle"
  BY <1>1, <1>2
<1>4. PendingInScope /\ PendingRows /\ CopiesApart
  BY <1>3 DEF PendingInScope, PendingRows, MenuOps, DinnerOps, ExceptionOps, Procs, CopiesApart
<1>5. PICK s \in Days, e \in Days, k \in 0..Seeded :
        \E f \in [1..k -> SeedRow] :
          /\ weeks = [w \in WeekIds |->
                        IF w = 1 THEN [start |-> s, end |-> e, status |-> "draft"] ELSE NoWeek]
          /\ dinners = [x \in DinnerIds |-> IF x <= k THEN f[x] ELSE NoDinner]
          /\ nextDinner = k + 1
  BY DEF SeedInit
<1>6. /\ rating = [x \in DinnerIds |-> "none"] /\ retros = [w \in WeekIds |-> 0]
      /\ exceptions = [x \in ExceptionIds |-> NoException]
      /\ nextWeek = 2 /\ nextException = 1 /\ bound = [c \in Chats |-> 0]
  BY DEF SeedInit
<1>7. k \in Nat /\ s \in Int /\ e \in Int
  BY <1>5, ConstantsAssumption DEF Seeded
<1>8. \A x \in DinnerIds : x <= k => dinners[x] \in SeedRow
  BY <1>5, <1>7 DEF DinnerIds
<1>9. \A x \in DinnerIds : x > k => dinners[x] = NoDinner
  BY <1>5, <1>7 DEF DinnerIds
<1>10. Exists(1)
  BY <1>5, PlanSeedAssumption, ConstantsAssumption DEF Exists, NoWeek
<1>11. NoOrphans
  BY <1>6, <1>7, <1>8, <1>9, <1>10 DEF NoOrphans, NoDinner, NoException, SeedRow, DinnerIds
<1>12. KnownStatuses
  BY <1>5, ConstantsAssumption DEF KnownStatuses
<1>13. TypeOK
  <2>1. pending \in [Procs -> [op : Ops, week : Nat, row : Nat, start : Int, end : Int]]
    BY <1>1, <1>2 DEF Requests
  <2>2. weeks \in [WeekIds -> [start : Int, end : Int, status : Statuses \cup {"none"}]]
    BY <1>5, <1>7, ConstantsAssumption DEF NoWeek
  <2>3. dinners \in [DinnerIds -> [week : Nat, day : Int, dish : Contents \cup {NoContent}]]
    <3>1. SeedRow \subseteq [week : Nat, day : Int, dish : Contents \cup {NoContent}]
      BY ConstantsAssumption, MoreRows DEF SeedRow
    <3>2. NoDinner \in [week : Nat, day : Int, dish : Contents \cup {NoContent}]
      BY DEF NoDinner
    <3>3. \A x \in DinnerIds : x <= k \/ x > k
      BY <1>7 DEF DinnerIds
    <3> QED  BY <1>5, <1>8, <1>9, <3>1, <3>2, <3>3
  <2>4. exceptions \in [ExceptionIds -> [week : Nat, text : Contents \cup {NoContent}]]
    BY <1>6 DEF NoException
  <2>5. /\ \A w \in WeekIds : w >= nextWeek => weeks[w] = NoWeek
        /\ \A x \in DinnerIds : x >= nextDinner => dinners[x] = NoDinner
        /\ \A x \in ExceptionIds : x >= nextException => exceptions[x] = NoException
    BY <1>5, <1>6, <1>7, <1>9 DEF WeekIds, DinnerIds
  <2> QED  BY <1>5, <1>6, <1>7, <2>1, <2>2, <2>3, <2>4, <2>5 DEF TypeOK
<1> QED  BY <1>4, <1>11, <1>12, <1>13 DEF IInv, BInv

\* Clones are complete and PATCHes keep the schedule from every state of a
\* database in use as well, whatever days its plan and its dinners have: create_week,
\* update_week and add_dinner check nothing about dates (weeks.go handleCloneWeek,
\* handlePatchWeek).
THEOREM SchedulesFromSeeds == SeededSpec => CloneIsComplete /\ FreshPatchKeepsSchedule
<1>1. SeedInit => BInv
  BY SeedsAreBooks
<1>2. BInv /\ [Next]_vars => BInv'
  BY BookStepHolds
<1> QED  BY <1>1, <1>2, BookClonesComplete, BookPatchesKeep, PTL DEF SeededSpec

\* From a new installation and from any schedule of a plan in use the store is
\* a book of plans, whose clones are complete and whose PATCHes keep one row per
\* day (weeks.go handleCloneWeek, handlePatchWeek).
THEOREM PlansFromSeeds ==
    PlansSpec => /\ [](TypeOK /\ NoOrphans /\ PendingInScope) /\ KeepsBook
                 /\ CloneIsComplete /\ FreshPatchKeepsSchedule
<1>1. PlansInit => BInv /\ Book!BookInit
  <2>1. CASE SeedInit
    BY <2>1, SeedsAreBooks, AtRestIsABook DEF BInv, SeedInit, Procs
  <2> QED  BY <2>1, BookInit DEF PlansInit
<1>2. [PlansNext]_<<focus, vars>> => [Next]_vars
  BY DEF PlansNext, DatesNext, Next, Procs
<1>3. BInv /\ [Next]_vars => BInv' /\ [Book!BookNext]_Book!bookVars
  BY BookStepHolds DEF BookStep, Book!bookVars, Documents, Reserved
<1>4. BInv => TypeOK /\ NoOrphans /\ PendingInScope
  BY DEF BInv, IInv
<1>5. PlansSpec => []BInv /\ [][Next]_vars /\ KeepsBook
  BY <1>1, <1>2, <1>3, PTL DEF PlansSpec, KeepsBook, Book!BookSpec
<1> QED  BY <1>4, <1>5, BookClonesComplete, BookPatchesKeep, PTL
=============================================================================
