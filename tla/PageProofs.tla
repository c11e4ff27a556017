----------------------------- MODULE PageProofs -----------------------------
(***************************************************************************)
(* Proofs about the page of a plan, for any plans, texts, requests at a    *)
(* time, attempts and room for notices: its types; that errors are not     *)
(* pushed out of the queue of notices; that the URL wins over answers that *)
(* come late; that retries stop, and text that waits for its debounce is   *)
(* of the plan on the screen; and, for a user who waits for what is under  *)
(* way, that retries write what the field holds, that the warning on       *)
(* leaving is armed while it is not stored, and that the page is as stored.*)
(***************************************************************************)
EXTENDS PlanPage, FiniteSetTheorems, TLAPS

(***************************************************************************)
(* The queue of notices.                                                   *)
(***************************************************************************)
\* A queue of notices of S that fits, each under an id of its own.
QueueOf(q, S) == q \in Seq(S) /\ Len(q) <= MaxVisible /\ Distinct(q)

\* A set of numbers has a least one.
LEMMA LeastOf ==
    ASSUME NEW S, S \subseteq Nat, S # {}
    PROVE  \E a \in S : \A b \in S : a <= b
<1> DEFINE R == OpToRel(<, Nat)
<1>1. \E a \in S : \A b \in S : ~(<<b, a>> \in R)
  <2>1. IsWellFoundedOn(R, Nat)
    BY NatLessThanWellFounded
  <2> HIDE DEF R
  <2> QED  BY <2>1, WFMin
<1>2. R = {ss \in Nat \X Nat : ss[1] < ss[2]}
  BY Zenon DEF OpToRel
<1> HIDE DEF R
<1>3. \A a, b \in Nat : a < b => <<a, b>> \in R
  BY <1>2
<1>4. PICK a \in S : \A b \in S : ~(<<b, a>> \in R)
  BY <1>1
<1>5. ASSUME NEW b \in S PROVE a <= b
  <2>1. ~(b < a) /\ a \in Nat /\ b \in Nat
    BY <1>3, <1>4
  <2> QED  BY <2>1
<1> QED  BY <1>5

\* What is left of q in u when only its ith notice is gone.
TakenOut(u, q, i, S) ==
    /\ u \in Seq(S) /\ Len(u) = Len(q) - 1
    /\ Distinct(q) => Distinct(u)
    /\ \A j \in 1..Len(u) : \E m \in (1..Len(q)) \ {i} : u[j] = q[m]
    /\ \A m \in (1..Len(q)) \ {i} : \E j \in 1..Len(u) : u[j] = q[m]

\* Taking the ith notice out leaves the others, in their order.
LEMMA WithoutOne ==
    ASSUME NEW S, NEW q \in Seq(S), NEW i \in 1..Len(q)
    PROVE  TakenOut(Without(q, i), q, i, S)
<1> DEFINE u == Without(q, i)
<1>1. PICK n \in Nat : Len(q) = n + 1
  <2>1. Len(q) - 1 \in Nat /\ Len(q) = (Len(q) - 1) + 1
    OBVIOUS
  <2> QED  BY <2>1
<1>2. u = [j \in 1..n |-> IF j < i THEN q[j] ELSE q[j + 1]]
  BY <1>1 DEF Without
<1>3. \A j \in 1..n : u[j] = IF j < i THEN q[j] ELSE q[j + 1]
  BY <1>2
<1>4. \A j \in 1..n : u[j] \in S
  <2> SUFFICES ASSUME NEW j \in 1..n PROVE u[j] \in S
    OBVIOUS
  <2>1. j \in 1..Len(q) /\ j + 1 \in 1..Len(q)
    BY <1>1
  <2> HIDE DEF u
  <2> QED  BY <1>3, <2>1
<1>5. u \in Seq(S) /\ Len(u) = n
  <2>1. u = [j \in 1..n |-> u[j]]
    BY <1>2
  <2> HIDE DEF u
  <2>2. u \in [1..n -> S]
    BY <1>4, <2>1
  <2> QED  BY <2>2
<1> HIDE DEF u
<1>6. \A j \in 1..n : \E m \in (1..Len(q)) \ {i} :
        u[j] = q[m] /\ m = IF j < i THEN j ELSE j + 1
  BY <1>1, <1>3
<1>7. ASSUME NEW m \in (1..Len(q)) \ {i}
      PROVE  \E j \in 1..n : u[j] = q[m]
  <2>1. CASE m < i
    <3>1. m \in 1..n
      BY <1>1, <2>1
    <3> QED  BY <1>3, <2>1, <3>1
  <2>2. CASE m > i
    <3>1. m - 1 \in 1..n /\ ~(m - 1 < i) /\ (m - 1) + 1 = m
      BY <1>1, <2>2
    <3> QED  BY <1>3, <3>1
  <2> QED  BY <2>1, <2>2
<1>8. ASSUME Distinct(q)
      PROVE  Distinct(u)
  <2> SUFFICES ASSUME NEW a \in 1..n, NEW b \in 1..n, u[a].id = u[b].id
               PROVE  a = b
    BY <1>5 DEF Distinct
  <2>1. PICK x \in (1..Len(q)) \ {i} : u[a] = q[x] /\ x = IF a < i THEN a ELSE a + 1
    BY <1>6
  <2>2. PICK y \in (1..Len(q)) \ {i} : u[b] = q[y] /\ y = IF b < i THEN b ELSE b + 1
    BY <1>6
  <2>3. x = y
    BY <1>8, <2>1, <2>2 DEF Distinct
  <2> QED  BY <1>1, <2>1, <2>2, <2>3
<1>9. Len(q) - 1 = n
  BY <1>1
<1>10. TakenOut(u, q, i, S)
  BY <1>5, <1>6, <1>7, <1>8, <1>9 DEF TakenOut
<1> QED  BY <1>10 DEF u

\* All of r is in q; t may be new; and none has that id.
PartOf(r, q) == \A j \in 1..Len(r) : \E m \in 1..Len(q) : r[j] = q[m]
GrownBy(r, q, t) == \A j \in 1..Len(r) : r[j] = t \/ \E m \in 1..Len(q) : r[j] = q[m]
Lacks(r, id) == \A j \in 1..Len(r) : r[j].id # id

\* Dismissing takes out the notice of that id, if there is one (dismiss).
LEMMA DismissOne ==
    ASSUME NEW S, NEW q, NEW id, QueueOf(q, S)
    PROVE  /\ QueueOf(Dismiss(q, id), S)
           /\ PartOf(Dismiss(q, id), q) /\ Lacks(Dismiss(q, id), id)
           /\ Dismiss(q, id) = q \/ Len(Dismiss(q, id)) < Len(q)
<1>1. q \in Seq(S) /\ Len(q) <= MaxVisible /\ Distinct(q) /\ Len(q) \in Nat
  BY DEF QueueOf
<1>2. CASE \E i \in 1..Len(q) : q[i].id = id
  <2> DEFINE i == CHOOSE i \in 1..Len(q) : q[i].id = id
  <2>1. i \in 1..Len(q) /\ q[i].id = id
    BY <1>2
  <2>2. Dismiss(q, id) = Without(q, i)
    BY <1>2 DEF Dismiss
  <2> HIDE DEF i
  <2>3. TakenOut(Without(q, i), q, i, S)
    BY <1>1, <2>1, WithoutOne
  <2>4. \A m \in (1..Len(q)) \ {i} : q[m].id # id
    BY <1>1, <2>1 DEF Distinct
  <2>5. QueueOf(Without(q, i), S)
    BY <1>1, <2>3, MaxVisibleAssumption DEF QueueOf, TakenOut
  <2>6. Len(Without(q, i)) < Len(q)
    BY <1>1, <2>3 DEF TakenOut
  <2>7. PartOf(Without(q, i), q) /\ Lacks(Without(q, i), id)
    <3> SUFFICES ASSUME NEW j \in 1..Len(Without(q, i))
                 PROVE  Without(q, i)[j].id # id /\ \E m \in 1..Len(q) : Without(q, i)[j] = q[m]
      BY DEF PartOf, Lacks
    <3>1. PICK m \in (1..Len(q)) \ {i} : Without(q, i)[j] = q[m]
      BY <2>3 DEF TakenOut
    <3> QED  BY <2>4, <3>1
  <2> QED  BY ONLY <2>2, <2>5, <2>6, <2>7
<1>3. CASE ~ \E i \in 1..Len(q) : q[i].id = id
  BY <1>1, <1>3 DEF Dismiss, QueueOf, PartOf, Lacks
<1> QED  BY <1>2, <1>3

LEMMA DismissTyped ==
    ASSUME NEW S, NEW q, NEW id, QueueOf(q, S)
    PROVE  QueueOf(Dismiss(q, id), S)
BY DismissOne

\* A full queue that gets one more notice gives one up: the oldest that is no
\* error, and an error only when there is nothing else (capQueue).
LEMMA CapOne ==
    ASSUME NEW S, NEW q \in Seq(S), Distinct(q), Len(q) <= MaxVisible + 1
    PROVE  /\ QueueOf(CapQueue(q), S)
           /\ \A j \in 1..Len(CapQueue(q)) : \E m \in 1..Len(q) : CapQueue(q)[j] = q[m]
           /\ Len(q) <= MaxVisible => CapQueue(q) = q
           /\ \/ \A m \in 1..Len(q) : IsError(q[m]) =>
                   \E j \in 1..Len(CapQueue(q)) : CapQueue(q)[j] = q[m]
              \/ \A j \in 1..Len(CapQueue(q)) : IsError(CapQueue(q)[j])
<1> DEFINE others == {i \in 1..Len(q) : ~IsError(q[i])}
<1>1. MaxVisible \in Nat \ {0} /\ Len(q) \in Nat
  BY MaxVisibleAssumption
<1>2. CASE Len(q) <= MaxVisible
  BY <1>2 DEF CapQueue, QueueOf
<1>3. CASE Len(q) > MaxVisible /\ others = {}
  <2>1. CapQueue(q) = Without(q, 1) /\ 1 \in 1..Len(q) /\ Len(q) - 1 <= MaxVisible
    BY <1>1, <1>3 DEF CapQueue
  <2>2. TakenOut(Without(q, 1), q, 1, S)
    BY <2>1, WithoutOne
  <2>3. \A m \in 1..Len(q) : IsError(q[m])
    BY <1>3
  <2>4. \A j \in 1..Len(Without(q, 1)) : \E m \in 1..Len(q) : Without(q, 1)[j] = q[m]
    BY <2>2 DEF TakenOut
  <2> QED  BY <1>1, <1>3, <2>1, <2>2, <2>3, <2>4 DEF QueueOf, TakenOut
<1>4. CASE Len(q) > MaxVisible /\ others # {}
  <2> DEFINE i == CHOOSE i \in others : \A j \in others : i <= j
  <2>1. i \in others
    <3>1. \E a \in others : \A b \in others : a <= b
      <4>1. others \subseteq Nat
        OBVIOUS
      <4> HIDE DEF others
      <4> QED  BY <1>4, <4>1, LeastOf
    <3> QED  BY <3>1
  <2>2. i \in 1..Len(q) /\ ~IsError(q[i])
    BY <2>1
  <2>3. CapQueue(q) = Without(q, i)
    BY <1>1, <1>4 DEF CapQueue
  <2> HIDE DEF i
  <2>4. TakenOut(Without(q, i), q, i, S)
    BY <2>2, WithoutOne
  <2>5. Len(q) - 1 <= MaxVisible
    BY <1>1
  <2>6. \A m \in 1..Len(q) : IsError(q[m]) => m \in (1..Len(q)) \ {i}
    BY <2>2
  <2> QED  BY <1>1, <1>4, <2>3, <2>4, <2>5, <2>6 DEF QueueOf, TakenOut
<1> QED  BY <1>1, <1>2, <1>3, <1>4

\* Adding keeps the queue one, and what is in it afterwards is the new notice
\* or was there; nothing else pushes an error out (add, capQueue).
LEMMA AddOne ==
    ASSUME NEW S, NEW q, NEW t \in S, QueueOf(q, S)
    PROVE  /\ QueueOf(Add(q, t), S)
           /\ GrownBy(Add(q, t), q, t)
           /\ \/ \A m \in 1..Len(q) : IsError(q[m]) =>
                   \E j \in 1..Len(Add(q, t)) : Add(q, t)[j].id = q[m].id
              \/ \A j \in 1..Len(Add(q, t)) : IsError(Add(q, t)[j])
<1>1. q \in Seq(S) /\ Len(q) <= MaxVisible /\ Distinct(q) /\ Len(q) \in Nat
  BY DEF QueueOf
<1>2. CASE \E i \in 1..Len(q) : q[i].id = t.id
  <2> DEFINE u == [i \in 1..Len(q) |-> IF q[i].id = t.id THEN t ELSE q[i]]
  <2>1. Add(q, t) = u
    BY <1>2 DEF Add
  <2>2. u \in Seq(S) /\ Len(u) = Len(q)
    <3>1. u \in [1..Len(q) -> S]
      BY <1>1
    <3> QED  BY <1>1, <3>1
  <2>3. \A i \in 1..Len(q) : u[i].id = q[i].id /\ (u[i] = t \/ u[i] = q[i])
    OBVIOUS
  <2> HIDE DEF u
  <2>4. Distinct(u)
    BY <1>1, <2>2, <2>3 DEF Distinct
  <2> QED  BY <1>1, <2>1, <2>2, <2>3, <2>4 DEF QueueOf, GrownBy
<1>3. CASE ~ \E i \in 1..Len(q) : q[i].id = t.id
  <2> DEFINE u == Append(q, t)
  <2>1. Add(q, t) = CapQueue(u)
    BY <1>3 DEF Add
  <2>2. /\ u \in Seq(S) /\ Len(u) = Len(q) + 1 /\ u[Len(q) + 1] = t
        /\ \A i \in 1..Len(q) : u[i] = q[i]
    BY <1>1
  <2> HIDE DEF u
  <2>3. \A i \in 1..Len(u) : i \in 1..Len(q) \/ i = Len(q) + 1
    BY <1>1, <2>2
  <2>4. Distinct(u)
    BY <1>1, <1>3, <2>2, <2>3 DEF Distinct
  <2>5. Len(u) <= MaxVisible + 1
    BY <1>1, <2>2, MaxVisibleAssumption
  <2>6. /\ QueueOf(CapQueue(u), S)
        /\ \A j \in 1..Len(CapQueue(u)) : \E m \in 1..Len(u) : CapQueue(u)[j] = u[m]
        /\ \/ \A m \in 1..Len(u) : IsError(u[m]) =>
                \E j \in 1..Len(CapQueue(u)) : CapQueue(u)[j] = u[m]
           \/ \A j \in 1..Len(CapQueue(u)) : IsError(CapQueue(u)[j])
    BY <2>2, <2>4, <2>5, CapOne
  <2>7. \A m \in 1..Len(q) : m \in 1..Len(u)
    BY <1>1, <2>2
  <2>8. GrownBy(CapQueue(u), q, t)
    BY <2>2, <2>3, <2>6 DEF GrownBy
  <2>9. \/ \A m \in 1..Len(q) : IsError(q[m]) =>
             \E j \in 1..Len(CapQueue(u)) : CapQueue(u)[j].id = q[m].id
        \/ \A j \in 1..Len(CapQueue(u)) : IsError(CapQueue(u)[j])
    BY <2>2, <2>6, <2>7
  <2> QED  BY <2>1, <2>6, <2>8, <2>9
<1> QED  BY <1>2, <1>3

(***************************************************************************)
(* Types.  A notice that can be retried is the one of its plan, and holds  *)
(* a request to be sent again.                                             *)
(***************************************************************************)
Jobs == {j \in JobType :
    /\ j.kind \in {"retro", "rate", "notes"} => j.text \in Texts
    /\ j.kind = "end" => j.text \in 1..MaxDays
    /\ j.kind = "rate" => j.mark \in Marks
    /\ j.kind = "status" => j.mark \in Statuses
    /\ j.kind \notin {"none", "create"} \/ j.st = "done" => j.plan \in PlanIds
    /\ j.st \in {"wait", "timer"} => j.kind \in {"retro", "rate"}
    /\ j.kind = "none" => j = NoJob}
Ids == ({"retro"} \X PlanIds) \cup ({"t"} \X (1..(MaxVisible + 1)))
Notices == {n \in [id : Ids, variant : {"error", "success"}, again : Jobs] :
    n.again = NoJob \/ (n.again.kind = "retro" /\ n.again.st = "sent"
                        /\ n.id = RetroToast(n.again.plan))}

ReviewTypes ==
    /\ plans \in [PlanIds -> RowType]
    /\ jobs \in [Slots -> Jobs]
    /\ QueueOf(toasts, Notices)
    /\ retro \in [value : Texts, saved : Texts, dirty : BOOLEAN,
                  waiting : 0..MaxJobs, retrying : 0..MaxJobs, inst : Insts]
    /\ tries \in [Insts -> Nat]
    /\ verdict \in [mark : Marks \cup {"none"}, words : Texts, timer : 0..MaxJobs]

Pages == [plan : 0..MaxPlan, row : RowType]
PageTypes ==
    /\ route \in Routes
    /\ page \in Pages /\ (page.plan = 0 => page = NoPage)
    /\ status \in {"loading", "ready", "empty", "error"}
    /\ load \in [st : {"none", "asked", "answered"}, plan : 0..MaxPlan, row : RowType]
    /\ load.plan = 0 => load.row = Row("unborn")
    /\ edit \in [open : BOOLEAN, draft : Texts, job : 0..MaxJobs]
    /\ edit.open => Shown.row.status = "draft"
    /\ form \in 0..MaxJobs /\ dup \in [source : 0..MaxPlan, busy : BOOLEAN]
    /\ work \in 0..(MaxWork + MaxCalm) /\ calm \in BOOLEAN
    /\ props = Rateable(Shown)

TypeInv == ReviewTypes /\ PageTypes

UrlInv ==
    route \in PlanIds =>
        /\ load.st # "none" => load.plan = route
        /\ load.st = "none" /\ status = "ready" => page.plan = route

RetroJobs(i) == {k \in Slots : jobs[k].kind = "retro" /\ jobs[k].inst = i}
RetriesInv == \A i \in Insts : tries[i] + Cardinality(RetroJobs(i)) < MaxAttempts + MaxJobs

(***************************************************************************)
(* Calm behaviours.                                                        *)
(***************************************************************************)
Done(k) == jobs[k].st = "done"

\* There is one thing under way at a time.
OneJob == \A k, l \in Slots : jobs[k] # NoJob /\ jobs[l] # NoJob => k = l
LoadAlone == load.st # "none" => \A k \in Slots : jobs[k] = NoJob
CommentTimer == \A k \in Slots :
    jobs[k].kind = "rate" /\ jobs[k].st = "wait" => k = verdict.timer

OfField(j) == j.plan = props.plan /\ j.inst = retro.inst /\ j.text = retro.value
JobsOfField == \A k \in Slots : jobs[k].kind = "retro" => OfField(jobs[k])
RetriesOfField == \A n \in 1..Len(toasts) :
    toasts[n].again.kind = "retro" /\ toasts[n].again.plan = props.plan => OfField(toasts[n].again)

DirtyField == props.plan # 0 => (retro.dirty <=> retro.value # retro.saved)
RetroDone == \E k \in Slots : jobs[k].kind = "retro" /\ Done(k)
SavedIsStored == props.plan # 0 /\ Live(props.plan) =>
    \/ retro.saved = plans[props.plan].retro
    \/ RetroDone
    \/ load.st # "none" /\ retro.saved = props.row.retro

DoneIsStored == \A k \in Slots : Done(k) =>
    /\ jobs[k].kind \in Patches \cup {"create"} =>
          jobs[k].row = plans[jobs[k].plan] /\ jobs[k].row.status # "unborn"
    /\ jobs[k].kind = "retro" => plans[jobs[k].plan].retro = jobs[k].text
LoadIsStored == load.st = "answered" /\ load.plan # 0 => load.row = plans[load.plan]
DeleteKnows == \A k \in Slots :
    jobs[k].kind = "delete" => (jobs[k].mark = "loaded" <=> page.plan = jobs[k].plan)
PageBorn == page.plan # 0 => plans[page.plan].status # "unborn"

Same(a, b) == [a EXCEPT !.retro = 0] = [b EXCEPT !.retro = 0]
Reloads(j) == j.kind \in Patches \cup {"rate", "unrate"} \/ (j.kind = "delete" /\ j.mark = "loaded")
PageFresh == Shown.plan # 0 /\ load.st = "none" =>
    \/ Same(Shown.row, plans[Shown.plan])
    \/ \E k \in Slots : Done(k) /\ Reloads(jobs[k])

CalmInv == calm =>
    /\ OneJob /\ LoadAlone /\ CommentTimer
    /\ JobsOfField /\ RetriesOfField
    /\ DirtyField /\ SavedIsStored /\ DoneIsStored /\ LoadIsStored
    /\ DeleteKnows /\ PageBorn /\ PageFresh

(***************************************************************************)
(* Values have their types.                                                *)
(***************************************************************************)
LEMMA Numbers ==
    /\ MaxPlan \in Nat /\ MaxJobs \in Nat /\ MaxAttempts \in Nat \ {0}
    /\ MaxVisible \in Nat \ {0} /\ MaxDays \in Nat \ {0} /\ MaxWork \in Nat /\ MaxCalm \in Nat
    /\ 0 \in Texts /\ Texts \subseteq Nat
    /\ {"draft", "ordered"} \subseteq Statuses /\ "unborn" \notin Statuses /\ "gone" \notin Statuses
    /\ "none" \notin Marks /\ 0 \in Insts
BY MaxVisibleAssumption, ReviewAssumption, PageAssumption DEF Insts

LEMMA RowTyped ==
    ASSUME NEW s \in Statuses \cup {"unborn", "gone"}
    PROVE  Row(s) \in RowType
BY Numbers DEF Row, RowType

LEMMA NoJobTyped == NoJob \in Jobs
<1>1. NoJob \in JobType
  BY Numbers, RowTyped DEF NoJob, JobType
<1> QED  BY <1>1 DEF Jobs, NoJob

\* What a request may ask.
Asks(kind, p, t, m) ==
    /\ kind \in Patches \cup {"retro", "rate", "unrate", "create", "clone", "delete"}
    /\ p \in 0..MaxPlan /\ (kind # "create" => p \in PlanIds)
    /\ t \in Nat /\ (kind \in {"retro", "rate", "notes"} => t \in Texts)
    /\ kind = "end" => t \in 1..MaxDays
    /\ m \in Marks \cup Statuses \cup {"none", "asked", "loaded"}
    /\ kind = "rate" => m \in Marks
    /\ kind = "status" => m \in Statuses

LEMMA JobTyped ==
    ASSUME NEW kind, NEW p, NEW t, NEW m, Asks(kind, p, t, m)
    PROVE  Job(kind, p, t, m) \in Jobs
<1>1. Job(kind, p, t, m) \in JobType
  BY Numbers, RowTyped DEF Asks, Job, JobType
<1> QED  BY <1>1 DEF Asks, Job, Jobs, Patches

\* Only these may wait, and a retrospective knows the instance it is from.
LEMMA LaterTyped ==
    ASSUME NEW kind \in {"retro", "rate"}, NEW p, NEW t, NEW m, Asks(kind, p, t, m),
           NEW i \in Insts
    PROVE  /\ Later(Job(kind, p, t, m)) \in Jobs
           /\ [Later(Job(kind, p, t, m)) EXCEPT !.inst = i] \in Jobs
<1> DEFINE J(n) == [kind |-> kind, st |-> "wait", plan |-> p, text |-> t, mark |-> m, inst |-> n,
                    row |-> Row("unborn")]
<1>1. Later(Job(kind, p, t, m)) = J(0) /\ [Later(Job(kind, p, t, m)) EXCEPT !.inst = i] = J(i)
  <2>1. Later(Job(kind, p, t, m)) = J(0)
    BY DEF Job, Later
  <2>2. [J(0) EXCEPT !.inst = i] = J(i)
    OBVIOUS
  <2> QED  BY <2>1, <2>2
<1>2. /\ Later(Job(kind, p, t, m)) \in JobType
      /\ [Later(Job(kind, p, t, m)) EXCEPT !.inst = i] \in JobType
  BY <1>1, Numbers, RowTyped DEF Asks, JobType
<1> QED  BY <1>1, <1>2 DEF Asks, Jobs, PlanIds

\* A job in another state, or with an answer.
LEMMA StateTyped ==
    ASSUME NEW j \in Jobs, j.kind # "none",
           NEW st \in {"sent", "refused"} \cup (IF j.kind = "retro" THEN {"timer"} ELSE {})
                      \cup (IF j.kind # "create" THEN {"done"} ELSE {})
    PROVE  [j EXCEPT !.st = st] \in Jobs
<1>1. [j EXCEPT !.st = st] \in JobType
  BY DEF Jobs, JobType
<1> QED  BY <1>1 DEF Jobs, JobType

LEMMA AnsweredRecord ==
    ASSUME NEW K, NEW S, NEW P, NEW T, NEW M, NEW I, NEW R,
           NEW j \in [kind : K, st : S, plan : P, text : T, mark : M, inst : I, row : R],
           NEW s \in S, NEW p \in P, NEW r \in R
    PROVE  /\ [j EXCEPT !.st = s, !.plan = p, !.row = r]
                \in [kind : K, st : S, plan : P, text : T, mark : M, inst : I, row : R]
           /\ [j EXCEPT !.st = s, !.plan = p, !.row = r].kind = j.kind
           /\ [j EXCEPT !.st = s, !.plan = p, !.row = r].st = s
           /\ [j EXCEPT !.st = s, !.plan = p, !.row = r].plan = p
           /\ [j EXCEPT !.st = s, !.plan = p, !.row = r].text = j.text
           /\ [j EXCEPT !.st = s, !.plan = p, !.row = r].mark = j.mark
           /\ [j EXCEPT !.st = s, !.plan = p, !.row = r].inst = j.inst
           /\ [j EXCEPT !.st = s, !.plan = p, !.row = r].row = r
OBVIOUS

LEMMA AnsweredTyped ==
    ASSUME NEW j \in Jobs, j.kind # "none", NEW p \in PlanIds, NEW row \in RowType
    PROVE  [j EXCEPT !.st = "done", !.plan = p, !.row = row] \in Jobs
<1> DEFINE a == [j EXCEPT !.st = "done", !.plan = p, !.row = row]
<1>1. p \in 0..MaxPlan
  BY Numbers DEF PlanIds
<1>2. /\ a \in JobType
      /\ a.kind = j.kind /\ a.st = "done" /\ a.plan = p /\ a.text = j.text /\ a.mark = j.mark
  BY <1>1, AnsweredRecord DEF Jobs, JobType
<1> HIDE DEF a
<1>3. a \in Jobs
  BY <1>2 DEF Jobs
<1> QED  BY <1>3 DEF a

LEMMA StopTyped ==
    ASSUME NEW js \in [Slots -> Jobs], NEW handles
    PROVE  Stop(js, handles) \in [Slots -> Jobs]
BY NoJobTyped DEF Stop

LEMMA EndTyped ==
    ASSUME jobs \in [Slots -> Jobs], NEW k \in Slots
    PROVE  End(k) \in [Slots -> Jobs]
BY NoJobTyped DEF End

\* Not all of more than n values are among the n of f.
Misses(f, n, S) == \E s \in S : \A d \in 1..n : f[d] # s

LEMMA FreshOf ==
    ASSUME NEW n \in Nat, NEW S, IsFiniteSet(S), Cardinality(S) = n + 1, NEW f
    PROVE  Misses(f, n, S)
<1> SUFFICES ASSUME \A s \in S : \E d \in 1..n : f[d] = s
             PROVE  FALSE
  BY DEF Misses
<1> DEFINE g == [s \in S |-> CHOOSE d \in 1..n : f[d] = s]
<1>1. IsFiniteSet(1..n) /\ Cardinality(1..n) = n
  BY FS_Interval
<1>2. \A s \in S : g[s] \in 1..n /\ f[g[s]] = s
  OBVIOUS
<1>3. g \in [S -> 1..n]
  <2>1. \A s \in S : g[s] \in 1..n
    BY <1>2
  <2>2. g = [s \in S |-> g[s]]
    OBVIOUS
  <2> HIDE DEF g
  <2> QED  BY <2>1, <2>2
<1> HIDE DEF g
<1>4. Cardinality(1..n) < Cardinality(S)
  BY <1>1
<1>5. \E x, y \in S : x # y /\ g[x] = g[y]
  BY <1>1, <1>3, <1>4, FS_PigeonHole
<1> QED  BY <1>2, <1>5

\* The requests, timers and notices do not know every instance.
LEMMA FreshInstance ==
    ASSUME NEW js, NEW ts, Len(ts) \in 0..MaxVisible
    PROVE  \E i \in Insts : ~Known(i, js, ts)
<1> DEFINE n == MaxJobs + MaxVisible
           f == [d \in 1..n |-> IF d <= MaxJobs THEN js[d].inst ELSE ts[d - MaxJobs].again.inst]
<1>1. n \in Nat
  BY Numbers
<1>2. Misses(f, n, 0..n)
  <2> HIDE DEF f, n
  <2>1. IsFiniteSet(0..n) /\ Cardinality(0..n) = n + 1
    BY <1>1, FS_Interval
  <2> QED  BY <1>1, <2>1, FreshOf
<1>3. PICK i \in Insts : \A d \in 1..n : f[d] # i
  BY <1>2 DEF Insts, Misses
<1>4. ASSUME NEW k \in Slots PROVE js[k].inst # i
  <2>1. k \in 1..n /\ k <= MaxJobs
    BY Numbers DEF Slots
  <2> QED  BY <1>3, <2>1
<1>5. ASSUME NEW m \in 1..Len(ts) PROVE ts[m].again.inst # i
  <2>1. m + MaxJobs \in 1..n /\ ~(m + MaxJobs <= MaxJobs) /\ (m + MaxJobs) - MaxJobs = m
    BY Numbers
  <2> QED  BY <1>3, <2>1
<1>6. ~Known(i, js, ts)
  BY <1>4, <1>5 DEF Known
<1> QED  BY <1>6

\* There is an id left for one more notice.
LEMMA NewToastTyped ==
    ASSUME NEW q, Len(q) \in 0..MaxVisible
    PROVE  /\ NewToast(q) \in {"t"} \X (1..(MaxVisible + 1))
           /\ \A i \in 1..Len(q) : q[i].id # NewToast(q)
<1> DEFINE Free(n) == \A i \in 1..Len(q) : q[i].id # <<"t", n>>
           f == [d \in 1..MaxVisible |-> q[d].id[2]]
<1>1. Misses(f, MaxVisible, 1..(MaxVisible + 1))
  <2>1. /\ MaxVisible \in Nat /\ IsFiniteSet(1..(MaxVisible + 1))
        /\ Cardinality(1..(MaxVisible + 1)) = MaxVisible + 1
    BY Numbers, FS_Interval
  <2> HIDE DEF f
  <2> QED  BY <2>1, FreshOf
<1>2. \E n \in 1..(MaxVisible + 1) : Free(n)
  <2>1. PICK n \in 1..(MaxVisible + 1) : \A d \in 1..MaxVisible : f[d] # n
    BY <1>1 DEF Misses
  <2>2. ASSUME NEW i \in 1..Len(q) PROVE q[i].id # <<"t", n>>
    <3>1. i \in 1..MaxVisible
      BY Numbers
    <3>2. q[i].id[2] # n
      BY <2>1, <3>1
    <3> QED  BY <3>2
  <2> QED  BY <2>2
<1>3. PICK n \in 1..(MaxVisible + 1) : NewToast(q) = <<"t", n>> /\ Free(n)
  <2> DEFINE c == CHOOSE n \in 1..(MaxVisible + 1) : Free(n)
  <2>1. c \in 1..(MaxVisible + 1) /\ Free(c)
    BY <1>2
  <2>2. NewToast(q) = <<"t", c>>
    BY DEF NewToast
  <2> QED  BY <2>1, <2>2
<1> QED  BY <1>3

\* A notice that is reported.
LEMMA ReportTyped ==
    ASSUME QueueOf(toasts, Notices), NEW variant \in {"error", "success"}
    PROVE  QueueOf(Report(toasts, variant), Notices)
<1>1. Len(toasts) \in 0..MaxVisible
  BY Numbers DEF QueueOf
<1>2. NewToast(toasts) \in Ids
  BY <1>1, NewToastTyped DEF Ids
<1>3. Notice(NewToast(toasts), variant, NoJob) \in Notices
  BY <1>2, NoJobTyped DEF Notices, Notice
<1> QED  BY <1>3, AddOne DEF Report

(***************************************************************************)
(* Rendering keeps the types.                                              *)
(***************************************************************************)
Loads == [st : {"none", "asked", "answered"}, plan : 0..MaxPlan, row : RowType]
Edited == [open : BOOLEAN, draft : Texts, job : 0..MaxJobs]
Retros == [value : Texts, saved : Texts, dirty : BOOLEAN,
           waiting : 0..MaxJobs, retrying : 0..MaxJobs, inst : Insts]
Verdicts == [mark : Marks \cup {"none"}, words : Texts, timer : 0..MaxJobs]

\* What a step may render.
Queued(js, ts) == js \in [Slots -> Jobs] /\ QueueOf(ts, Notices)
PageOf(pg) == pg \in Pages /\ (pg.plan = 0 => pg = NoPage)
LoadOf(ld) == ld \in Loads /\ (ld.plan = 0 => ld.row = Row("unborn"))

LEMMA EmptyTyped ==
    /\ NoPage \in Pages /\ NoLoad \in Loads /\ NoEdit \in Edited
    /\ NoPage.plan = 0 /\ NoPage.row = Row("unborn") /\ NoPage.row.status = "unborn"
    /\ LoadOf(NoLoad) /\ PageOf(NoPage) /\ NoLoad.st = "none"
    /\ \A s : Row(s).status = s
<1>1. NoPage \in Pages /\ NoLoad \in Loads /\ NoEdit \in Edited
  BY Numbers, RowTyped DEF NoPage, NoLoad, NoEdit, Pages, Loads, Edited
<1> QED  BY <1>1 DEF NoPage, NoLoad, PageOf, LoadOf, Row

LEMMA AskIs ==
    ASSUME NEW p \in 0..MaxPlan
    PROVE  /\ Ask(p) = [st |-> "asked", plan |-> p, row |-> Row("unborn")]
           /\ LoadOf(Ask(p))
<1>1. Ask(p) = [st |-> "asked", plan |-> p, row |-> Row("unborn")]
  BY DEF Ask
<1> QED  BY <1>1, RowTyped DEF LoadOf, Loads

\* The loader asks for the plan of the URL, or the one a dialog lies over.
LEMMA LoadingTyped ==
    ASSUME NEW r \in Routes, NEW pg \in Pages
    PROVE  /\ LoadOf(Loading(r, pg))
           /\ r \in PlanIds => Loading(r, pg) = Ask(r)
           /\ r \notin {Home, New} => Loading(r, pg).st = "asked"
<1>1. pg.plan \in 0..MaxPlan /\ 0 \in 0..MaxPlan
  BY Numbers DEF Pages
<1>2. r = Home \/ r = New \/ r = Dialog \/ r \in PlanIds
  BY Numbers DEF Routes, PlanIds, Home, New, Dialog
<1>3. ~(Home = New) /\ ~(Home = Dialog) /\ ~(New = Dialog)
      /\ Home \notin PlanIds /\ New \notin PlanIds /\ Dialog \notin PlanIds
  BY Numbers DEF PlanIds, Home, New, Dialog
<1>4. CASE r = Home
  BY <1>3, <1>4, EmptyTyped DEF Loading
<1>5. CASE r = New
  BY <1>1, <1>3, <1>5, EmptyTyped, AskIs DEF Loading
<1>6. CASE r = Dialog
  BY <1>1, <1>3, <1>6, AskIs DEF Loading
<1>7. CASE r \in PlanIds
  <2>1. r \in 0..MaxPlan
    BY <1>7, Numbers DEF PlanIds
  <2> QED  BY <1>3, <1>7, <2>1, AskIs DEF Loading
<1> QED  BY <1>2, <1>4, <1>5, <1>6, <1>7

LEMMA WeekViewTyped ==
    ASSUME NEW r, NEW pg, NEW st, PageOf(pg)
    PROVE  PageOf(WeekView(r, pg, st)) /\ PageOf(Rateable(WeekView(r, pg, st)))
BY EmptyTyped DEF WeekView, Rateable, PageOf

LEMMA RedraftTyped ==
    ASSUME NEW ed \in Edited, NEW w \in Pages
    PROVE  /\ Redraft(ed, w) \in Edited
           /\ Redraft(ed, w).open => w.row.status = "draft"
<1>1. NoEdit \in Edited /\ ~NoEdit.open
  BY EmptyTyped DEF NoEdit
<1>2. w.row.notes \in Texts
  BY DEF Pages, RowType
<1>3. /\ [NoEdit EXCEPT !.draft = w.row.notes] \in Edited
      /\ [ed EXCEPT !.draft = w.row.notes] \in Edited
  <2> DEFINE n == w.row.notes
  <2> HIDE DEF n
  <2>1. n \in Texts
    BY <1>2 DEF n
  <2>2. \A e \in Edited : [e EXCEPT !.draft = n] \in Edited
    BY <2>1 DEF Edited
  <2> QED  BY <1>1, <2>2 DEF n
<1> QED  BY <1>1, <1>3 DEF Redraft

LEMMA EditorTyped ==
    ASSUME NEW t \in Texts, NEW i \in Insts
    PROVE  Editor(t, i) \in Retros
BY Numbers DEF Editor, Retros

\* The controls after a rendering.
LEMMA RenderTyped ==
    ASSUME ReviewTypes, PageOf(props), NEW pg, PageOf(pg), NEW js, NEW ts, Queued(js, ts),
           Render(pg, js, ts), plans' = plans
    PROVE  ReviewTypes'
<1>1. retro \in Retros /\ tries \in [Insts -> Nat] /\ verdict \in Verdicts
  BY DEF ReviewTypes, Retros, Verdicts
<1>2. pg.row.retro \in Texts /\ pg.row.mark \in Marks \cup {"none"} /\ pg.row.words \in Texts
  BY DEF PageOf, Pages, RowType
<1>3. verdict' \in Verdicts
  <2> DEFINE m == pg.row.mark
             w == pg.row.words
  <2> HIDE DEF m, w
  <2>1. m \in Marks \cup {"none"} /\ w \in Texts
    BY <1>2 DEF m, w
  <2>2. /\ [mark |-> m, words |-> w, timer |-> 0] \in Verdicts
        /\ [verdict EXCEPT !.mark = m, !.words = w] \in Verdicts
    <3>1. [mark |-> m, words |-> w, timer |-> 0] \in Verdicts
      BY <2>1, Numbers DEF Verdicts
    <3>2. [verdict EXCEPT !.mark = m, !.words = w] \in Verdicts
      BY <1>1, <2>1 DEF Verdicts
    <3> QED  BY <3>1, <3>2
  <2>3. verdict' = Verdict(pg)
    BY DEF Render
  <2> QED  BY <1>1, <2>2, <2>3 DEF Verdict, m, w
<1>4. jobs' \in [Slots -> Jobs] /\ QueueOf(toasts', Notices)
      /\ retro' \in Retros /\ tries' \in [Insts -> Nat]
  <2>1. CASE pg.plan = props.plan /\ pg.row.retro = props.row.retro
    BY <1>1, <2>1 DEF Render, Queued
  <2>2. CASE ~(pg.plan = props.plan /\ pg.row.retro = props.row.retro) /\ pg.plan = 0
    <3> DEFINE left == Stop(js, {retro.waiting, retro.retrying})
               i == CHOOSE i \in Insts : ~Known(i, left, ts)
    <3>1. Leave(js, ts)
      BY <2>2 DEF Render
    <3>2. jobs' = left /\ toasts' = ts /\ retro' = Editor(0, i) /\ tries' = [tries EXCEPT ![i] = 0]
      BY <3>1 DEF Leave
    <3>3. Len(ts) \in 0..MaxVisible
      BY Numbers DEF Queued, QueueOf
    <3>4. i \in Insts
      <4> HIDE DEF left
      <4> QED  BY <3>3, FreshInstance
    <3>5. left \in [Slots -> Jobs]
      BY StopTyped DEF Queued
    <3> HIDE DEF i, left
    <3> QED  BY <1>1, <3>2, <3>4, <3>5, EditorTyped, Numbers DEF Queued
  <2>3. CASE ~(pg.plan = props.plan /\ pg.row.retro = props.row.retro) /\ pg.plan # 0
    <3>1. Reset(pg, js, ts)
      BY <2>3 DEF Render
    <3>2. retro.inst \in Insts
      BY <1>1 DEF Retros
    <3>3. jobs' \in [Slots -> Jobs]
      BY <3>1, StopTyped DEF Reset, Queued
    <3>4. QueueOf(toasts', Notices)
      <4>1. QueueOf(ts, Notices) /\ toasts' = Dismiss(ts, RetroToast(pg.plan))
        BY <3>1 DEF Reset, Queued
      <4> QED  BY ONLY <4>1, DismissTyped
    <3>5. retro' \in Retros /\ tries' \in [Insts -> Nat]
      BY <1>1, <1>2, <3>1, <3>2, EditorTyped DEF Reset
    <3> QED  BY <3>3, <3>4, <3>5
  <2> QED  BY <2>1, <2>2, <2>3
<1> QED  BY <1>3, <1>4 DEF ReviewTypes, Retros, Verdicts

\* What a step may show.
ShowArgs(r, pg, st, ld, ed, js, ts) ==
    /\ r \in Routes /\ PageOf(pg) /\ st \in {"loading", "ready", "empty", "error"}
    /\ LoadOf(ld) /\ ed \in Edited /\ Queued(js, ts)
Others(dp) == plans' = plans /\ dup' = dp /\ dp \in [source : 0..MaxPlan, busy : BOOLEAN]
              /\ UNCHANGED <<work, calm>>

LEMMA ShowTyped ==
    ASSUME TypeInv, NEW r, NEW pg, NEW st, NEW ld, NEW ed, NEW js, NEW ts, NEW dp,
           ShowArgs(r, pg, st, ld, ed, js, ts), Others(dp), Show(r, pg, st, ld, ed, js, ts)
    PROVE  TypeInv'
<1> DEFINE w == WeekView(r, pg, st)
<1>1. PageOf(w) /\ PageOf(Rateable(w)) /\ PageOf(props)
  BY WeekViewTyped DEF ShowArgs, TypeInv, PageTypes, Shown, PageOf
<1>2. /\ route' = r /\ page' = pg /\ status' = st
      /\ load' = IF r # route \/ pg.plan # page.plan THEN Loading(r, pg) ELSE ld
      /\ edit' = Redraft(ed, w)
      /\ form' = IF Form(r, st) = Form(route, status) THEN form ELSE 0
      /\ Render(Rateable(w), js, ts)
  BY DEF Show
<1>3. Shown' = w
  BY <1>2 DEF Shown
<1>4. props' = Rateable(w)
  BY <1>2 DEF Render
<1> HIDE DEF w
<1>5. ReviewTypes'
  BY <1>1, <1>2, RenderTyped DEF TypeInv, ShowArgs, Others
<1>6. LoadOf(load')
  BY <1>2, LoadingTyped DEF ShowArgs, PageOf
<1>7. edit' \in Edited /\ (edit'.open => Shown'.row.status = "draft")
  BY <1>1, <1>2, <1>3, RedraftTyped DEF ShowArgs, PageOf
<1>8. form' \in 0..MaxJobs
  BY <1>2, Numbers DEF TypeInv, PageTypes
<1>9. PageTypes'
  BY <1>2, <1>3, <1>4, <1>6, <1>7, <1>8
     DEF PageTypes, TypeInv, ShowArgs, Others, PageOf, LoadOf, Loads, Edited
<1> QED  BY <1>5, <1>9 DEF TypeInv

(***************************************************************************)
(* Steps keep the types.                                                   *)
(***************************************************************************)
\* What is counted, and what a step leaves of the page.
Counts == work' \in 0..(MaxWork + MaxCalm) /\ calm' = calm

LEMMA WorkTyped ==
    ASSUME TypeInv, Works \/ Rests
    PROVE  Counts
<1>1. work \in 0..(MaxWork + MaxCalm) /\ calm \in BOOLEAN
  BY DEF TypeInv, PageTypes
<1>2. CASE Rests
  BY <1>1, <1>2 DEF Rests, Counts
<1>3. CASE Works
  <2>1. work < (IF calm THEN MaxCalm ELSE MaxWork) /\ work' = work + 1 /\ calm' = calm
    BY <1>3 DEF Works
  <2> QED  BY <1>1, <2>1, Numbers DEF Counts
<1> QED  BY <1>2, <1>3

LEMMA PageKept ==
    ASSUME TypeInv, Counts, UNCHANGED <<route, page, status, props>>, LoadOf(load'),
           edit' \in Edited, edit'.open => Shown.row.status = "draft",
           form' \in 0..MaxJobs, dup' \in [source : 0..MaxPlan, busy : BOOLEAN]
    PROVE  PageTypes'
<1>1. Shown' = Shown
  BY DEF Shown
<1> QED  BY <1>1 DEF TypeInv, PageTypes, Counts, LoadOf, Loads, Edited

LEMMA PageStays ==
    ASSUME TypeInv, Counts, UNCHANGED pageVars, UNCHANGED props
    PROVE  PageTypes'
<1>1. /\ LoadOf(load) /\ edit \in Edited /\ (edit.open => Shown.row.status = "draft")
      /\ form \in 0..MaxJobs /\ dup \in [source : 0..MaxPlan, busy : BOOLEAN]
  BY DEF TypeInv, PageTypes, LoadOf, Loads, Edited
<1> QED  BY <1>1, PageKept DEF pageVars

\* The plan that the controls render is one, unless they are not mounted.
LEMMA PropsTyped ==
    ASSUME TypeInv
    PROVE  PageOf(props) /\ PageOf(Shown) /\ PageOf(page)
<1>1. PageOf(page)
  BY DEF TypeInv, PageTypes, PageOf
<1> QED  BY <1>1, WeekViewTyped DEF TypeInv, PageTypes, Shown

LEMMA PlanTyped ==
    ASSUME NEW pg, PageOf(pg), pg.plan # 0 \/ pg.row.status # "unborn"
    PROVE  pg.plan \in PlanIds
<1>1. pg.plan \in 0..MaxPlan
  BY DEF PageOf, Pages
<1>2. pg.plan # 0
  BY EmptyTyped DEF PageOf
<1> QED  BY <1>1, <1>2, Numbers DEF PlanIds

LEMMA RetroEdited ==
    ASSUME NEW r \in Retros, NEW t \in Texts, NEW d \in BOOLEAN, NEW w \in 0..MaxJobs,
           NEW y \in 0..MaxJobs
    PROVE  [r EXCEPT !.value = t, !.dirty = d, !.waiting = w, !.retrying = y] \in Retros
BY DEF Retros

LEMMA RetroRefs ==
    ASSUME NEW r \in Retros, NEW t \in Texts, NEW w \in 0..MaxJobs, NEW y \in 0..MaxJobs
    PROVE  /\ [r EXCEPT !.saved = t, !.dirty = FALSE] \in Retros
           /\ [r EXCEPT !.waiting = w, !.retrying = y] \in Retros
           /\ [r EXCEPT !.retrying = y] \in Retros
BY DEF Retros

\* A request of the controls.
LEMMA FieldAsks ==
    ASSUME TypeInv, props.plan # 0, NEW t \in Texts
    PROVE  /\ Asks("retro", props.plan, t, "none") /\ Asks("unrate", props.plan, 0, "none")
           /\ \A m \in Marks : Asks("rate", props.plan, t, m)
<1>1. props.plan \in PlanIds /\ props.plan \in 0..MaxPlan /\ t \in Nat /\ 0 \in Nat
  BY PropsTyped, PlanTyped, Numbers DEF PageOf, Pages
<1> QED  BY <1>1 DEF Asks

LEMMA ReviewIs ==
    ASSUME ReviewTypes
    PROVE  /\ plans \in [PlanIds -> RowType] /\ jobs \in [Slots -> Jobs]
           /\ QueueOf(toasts, Notices) /\ retro \in Retros /\ retro.inst \in Insts
           /\ tries \in [Insts -> Nat] /\ verdict \in Verdicts
           /\ verdict.words \in Texts /\ verdict.mark \in Marks \cup {"none"}
BY DEF ReviewTypes, Retros, Verdicts

LEMMA TypeTypes ==
    ASSUME TypeInv, NEW t \in Texts, Type(t)
    PROVE  ReviewTypes'
<1> DEFINE stopped == Stop(jobs, {retro.waiting, retro.retrying})
           j == [Later(Job("retro", props.plan, t, "none")) EXCEPT !.inst = retro.inst]
           d == t # retro.saved
<1>1. PICK k \in Slots :
        /\ jobs' = [stopped EXCEPT ![k] = j]
        /\ retro' = [retro EXCEPT !.value = t, !.dirty = d, !.waiting = k, !.retrying = 0]
  BY DEF Type
<1>2. /\ props.plan # 0 /\ toasts' = Dismiss(toasts, RetroToast(props.plan))
      /\ tries' = [tries EXCEPT ![retro.inst] = 0] /\ UNCHANGED <<plans, verdict>>
  BY DEF Type
<1>3. stopped \in [Slots -> Jobs]
  BY ReviewIs, StopTyped DEF TypeInv
<1>4. j \in Jobs
  <2>1. Asks("retro", props.plan, t, "none") /\ retro.inst \in Insts
    BY <1>2, FieldAsks, ReviewIs DEF TypeInv
  <2> QED  BY <2>1, LaterTyped
<1>5. d \in BOOLEAN /\ k \in 0..MaxJobs /\ 0 \in 0..MaxJobs
  BY Numbers DEF Slots
<1> HIDE DEF stopped, j, d
<1>6. retro' \in Retros
  BY <1>1, <1>5, RetroEdited, ReviewIs DEF TypeInv
<1>7. QueueOf(toasts', Notices)
  BY <1>2, DismissTyped, ReviewIs DEF TypeInv
<1>8. tries' \in [Insts -> Nat]
  BY <1>2, ReviewIs DEF TypeInv
<1>9. jobs' \in [Slots -> Jobs]
  BY <1>1, <1>3, <1>4
<1> QED  BY <1>2, <1>6, <1>7, <1>8, <1>9 DEF TypeInv, ReviewTypes, Retros

\* A step that leaves the fields alone but for the verdict's.
LEMMA PoolTyped ==
    ASSUME TypeInv, jobs' \in [Slots -> Jobs], plans' \in [PlanIds -> RowType],
           QueueOf(toasts', Notices), retro' \in Retros, tries' \in [Insts -> Nat],
           verdict' \in Verdicts
    PROVE  ReviewTypes'
BY DEF ReviewTypes, Retros, Verdicts

LEMMA CommentTypes ==
    ASSUME TypeInv, NEW t \in Texts, Comment(t)
    PROVE  ReviewTypes'
<1> DEFINE stopped == Stop(jobs, {verdict.timer})
           j == Later(Job("rate", props.plan, t, verdict.mark))
<1>1. PICK k \in Slots : /\ jobs' = [stopped EXCEPT ![k] = j]
                         /\ verdict' = [verdict EXCEPT !.words = t, !.timer = k]
  BY DEF Comment
<1>2. /\ props.plan # 0 /\ verdict.mark # "none" /\ UNCHANGED <<plans, toasts, retro, tries>>
  BY DEF Comment
<1>3. stopped \in [Slots -> Jobs]
  BY ReviewIs, StopTyped DEF TypeInv
<1>4. j \in Jobs
  <2>1. Asks("rate", props.plan, t, verdict.mark) /\ 0 \in Insts
    BY <1>2, FieldAsks, ReviewIs, Numbers DEF TypeInv
  <2> QED  BY <2>1, LaterTyped
<1> HIDE DEF stopped, j
<1>5. verdict' \in Verdicts
  <2>1. k \in 0..MaxJobs /\ verdict \in Verdicts
    BY Numbers, ReviewIs DEF Slots, TypeInv
  <2> QED  BY <1>1, <2>1 DEF Verdicts
<1>6. jobs' \in [Slots -> Jobs]
  BY <1>1, <1>3, <1>4
<1> QED  BY <1>2, <1>5, <1>6, PoolTyped, ReviewIs DEF TypeInv

LEMMA RateTypes ==
    ASSUME TypeInv, NEW m \in Marks, Rate(m)
    PROVE  ReviewTypes'
<1> DEFINE stopped == Stop(jobs, {verdict.timer})
           j == Job("rate", props.plan, verdict.words, m)
<1>1. PICK k \in Slots : jobs' = [stopped EXCEPT ![k] = j]
  BY DEF Rate
<1>2. /\ props.plan # 0 /\ UNCHANGED <<plans, toasts, retro, tries>>
      /\ verdict' = [verdict EXCEPT !.mark = m, !.timer = 0]
  BY DEF Rate
<1>3. stopped \in [Slots -> Jobs]
  BY ReviewIs, StopTyped DEF TypeInv
<1>4. j \in Jobs
  <2>1. Asks("rate", props.plan, verdict.words, m)
    BY <1>2, FieldAsks, ReviewIs DEF TypeInv
  <2> QED  BY <2>1, JobTyped
<1> HIDE DEF stopped, j
<1>5. verdict' \in Verdicts
  <2>1. 0 \in 0..MaxJobs /\ verdict \in Verdicts
    BY Numbers, ReviewIs DEF TypeInv
  <2> QED  BY <1>2, <2>1 DEF Verdicts
<1>6. jobs' \in [Slots -> Jobs]
  BY <1>1, <1>3, <1>4
<1> QED  BY <1>2, <1>5, <1>6, PoolTyped, ReviewIs DEF TypeInv

LEMMA UnrateTypes ==
    ASSUME TypeInv, Unrate
    PROVE  ReviewTypes'
<1> DEFINE j == Job("unrate", props.plan, 0, "none")
<1>1. PICK k \in Slots : jobs' = [jobs EXCEPT ![k] = j]
  BY DEF Unrate
<1>2. /\ props.plan # 0 /\ UNCHANGED <<plans, toasts, retro, tries>>
      /\ verdict' = [verdict EXCEPT !.mark = "none", !.words = 0]
  BY DEF Unrate
<1>3. j \in Jobs
  <2>1. Asks("unrate", props.plan, 0, "none")
    BY <1>2, FieldAsks, Numbers
  <2> QED  BY <2>1, JobTyped
<1> HIDE DEF j
<1>4. verdict' \in Verdicts
  <2>1. 0 \in Texts /\ verdict \in Verdicts
    BY Numbers, ReviewIs DEF TypeInv
  <2> QED  BY <1>2, <2>1 DEF Verdicts
<1>5. jobs' \in [Slots -> Jobs]
  BY <1>1, <1>3, ReviewIs DEF TypeInv
<1> QED  BY <1>2, <1>4, <1>5, PoolTyped, ReviewIs DEF TypeInv

LEMMA NoticeIs ==
    ASSUME QueueOf(toasts, Notices), NEW n \in 1..Len(toasts)
    PROVE  /\ toasts[n] \in Notices /\ toasts[n].again \in Jobs
           /\ toasts[n].again.kind # "none" =>
                /\ toasts[n].again.kind = "retro" /\ toasts[n].again.st = "sent"
                /\ toasts[n].id = RetroToast(toasts[n].again.plan)
                /\ toasts[n].again.plan \in PlanIds
<1>1. toasts[n] \in Notices
  BY DEF QueueOf
<1>2. NoJob.kind = "none"
  BY DEF NoJob
<1> QED  BY <1>1, <1>2 DEF Notices, Jobs

LEMMA AgainTypes ==
    ASSUME TypeInv, NEW n \in 1..Len(toasts), Again(n)
    PROVE  ReviewTypes'
<1> DEFINE j == toasts[n].again
<1>1. PICK k \in Slots : jobs' = [jobs EXCEPT ![k] = j]
  BY DEF Again
<1>2. /\ tries' = [tries EXCEPT ![j.inst] = 0] /\ toasts' = Dismiss(toasts, toasts[n].id)
      /\ UNCHANGED <<plans, retro, verdict>>
  BY DEF Again
<1>3. j \in Jobs /\ j.inst \in Insts
  BY NoticeIs, ReviewIs DEF TypeInv, Jobs, JobType
<1> HIDE DEF j
<1>4. jobs' \in [Slots -> Jobs] /\ tries' \in [Insts -> Nat]
  BY <1>1, <1>2, <1>3, ReviewIs DEF TypeInv
<1>5. QueueOf(toasts', Notices)
  BY <1>2, DismissTyped, ReviewIs DEF TypeInv
<1> QED  BY <1>2, <1>4, <1>5, PoolTyped, ReviewIs DEF TypeInv

LEMMA CloseTypes ==
    ASSUME TypeInv, NEW n \in 1..Len(toasts), Close(n)
    PROVE  ReviewTypes'
<1>1. toasts' = Dismiss(toasts, toasts[n].id) /\ UNCHANGED <<plans, jobs, retro, tries, verdict>>
  BY DEF Close
<1>2. QueueOf(toasts', Notices)
  BY <1>1, DismissTyped, ReviewIs DEF TypeInv
<1> QED  BY <1>1, <1>2, PoolTyped, ReviewIs DEF TypeInv

LEMMA JobIn ==
    ASSUME TypeInv, NEW k \in Slots
    PROVE  /\ jobs[k] \in Jobs /\ jobs[k].inst \in Insts /\ jobs[k].text \in Nat
           /\ jobs[k].kind = "none" <=> jobs[k] = NoJob
           /\ jobs[k].st # "none" => jobs[k].kind # "none"
           /\ jobs[k].kind \notin {"none", "create"} \/ jobs[k].st = "done" =>
                jobs[k].plan \in PlanIds
           /\ jobs[k].kind \in {"retro", "rate", "notes"} => jobs[k].text \in Texts
           /\ jobs[k].row \in RowType
<1>1. NoJob.kind = "none" /\ NoJob.st = "none"
  BY DEF NoJob
<1> QED  BY <1>1, ReviewIs DEF TypeInv, Jobs, JobType

LEMMA RetroSavedTypes ==
    ASSUME TypeInv, NEW k \in Slots, RetroSaved(k)
    PROVE  ReviewTypes'
<1>1. /\ jobs' = End(k) /\ toasts' = Dismiss(toasts, RetroToast(jobs[k].plan))
      /\ tries' = [tries EXCEPT ![jobs[k].inst] = 0] /\ UNCHANGED <<plans, verdict>>
      /\ retro' = IF Mine(k) THEN [retro EXCEPT !.saved = jobs[k].text, !.dirty = FALSE] ELSE retro
      /\ jobs[k].kind = "retro"
  BY DEF RetroSaved
<1>2. retro' \in Retros
  <2>1. jobs[k].text \in Texts /\ retro \in Retros /\ 0 \in 0..MaxJobs
    BY <1>1, JobIn, ReviewIs, Numbers DEF TypeInv
  <2>2. [retro EXCEPT !.saved = jobs[k].text, !.dirty = FALSE] \in Retros
    BY ONLY <2>1, RetroRefs
  <2> QED  BY <1>1, <2>1, <2>2
<1>3. jobs' \in [Slots -> Jobs] /\ tries' \in [Insts -> Nat]
  BY <1>1, EndTyped, JobIn, ReviewIs DEF TypeInv
<1>4. QueueOf(toasts', Notices)
  BY <1>1, DismissTyped, ReviewIs DEF TypeInv
<1> QED  BY <1>1, <1>2, <1>3, <1>4, PoolTyped, ReviewIs DEF TypeInv

\* A failed save is reported, under the id of its plan.
LEMMA RetryNotice ==
    ASSUME TypeInv, NEW k \in Slots, jobs[k].kind = "retro",
           NEW a \in {[jobs[k] EXCEPT !.st = "sent"], NoJob}
    PROVE  Notice(RetroToast(jobs[k].plan), "error", a) \in Notices
<1>1. jobs[k] \in Jobs /\ jobs[k].plan \in PlanIds
  BY JobIn
<1>2. RetroToast(jobs[k].plan) \in Ids
  BY <1>1 DEF RetroToast, Ids
<1>3. [jobs[k] EXCEPT !.st = "sent"] \in Jobs
  BY <1>1, StateTyped
<1>4. a \in Jobs /\ (a = NoJob \/ (a.kind = "retro" /\ a.st = "sent" /\ a.plan = jobs[k].plan))
  BY <1>1, <1>3, NoJobTyped DEF Jobs, JobType
<1> QED  BY <1>2, <1>4 DEF Notices, Notice

LEMMA RetroFailedTypes ==
    ASSUME TypeInv, NEW k \in Slots, RetroFailed(k)
    PROVE  ReviewTypes'
<1> DEFINE last == tries[jobs[k].inst] + 1 >= MaxAttempts
           a == IF last THEN [jobs[k] EXCEPT !.st = "sent"] ELSE NoJob
           n == Notice(RetroToast(jobs[k].plan), "error", a)
           j == [jobs[k] EXCEPT !.st = "timer"]
<1>1. /\ tries' = [tries EXCEPT ![jobs[k].inst] = @ + 1] /\ toasts' = Add(toasts, n)
      /\ jobs' = IF last THEN End(k) ELSE [jobs EXCEPT ![k] = j]
      /\ retro' = IF Mine(k) /\ ~last THEN [retro EXCEPT !.retrying = k] ELSE retro
      /\ UNCHANGED <<plans, verdict>> /\ jobs[k].kind = "retro"
  BY DEF RetroFailed
<1>2. QueueOf(toasts', Notices)
  <2>1. n \in Notices
    BY <1>1, RetryNotice
  <2> HIDE DEF n
  <2> QED  BY <1>1, <2>1, AddOne, ReviewIs DEF TypeInv
<1>3. j \in Jobs /\ End(k) \in [Slots -> Jobs]
  BY <1>1, StateTyped, EndTyped, JobIn, ReviewIs DEF TypeInv
<1> HIDE DEF last, a, n, j
<1>4. jobs' \in [Slots -> Jobs]
  BY <1>1, <1>3, ReviewIs DEF TypeInv
<1>5. retro' \in Retros
  <2>1. retro \in Retros /\ k \in 0..MaxJobs
    BY ReviewIs, Numbers DEF TypeInv, Slots
  <2>2. [retro EXCEPT !.retrying = k] \in Retros
    BY <2>1 DEF Retros
  <2> QED  BY <1>1, <2>1, <2>2
<1>6. tries' \in [Insts -> Nat]
  BY <1>1, JobIn, ReviewIs DEF TypeInv
<1> QED  BY <1>1, <1>2, <1>4, <1>5, <1>6, PoolTyped, ReviewIs DEF TypeInv

\* A job ends, and something may be reported.
LEMMA EndReported ==
    ASSUME TypeInv, NEW k \in Slots, jobs' = End(k), UNCHANGED <<plans, retro, tries, verdict>>,
           NEW variant \in {"error", "success"},
           toasts' = toasts \/ toasts' = Report(toasts, variant)
    PROVE  ReviewTypes'
<1>1. QueueOf(toasts', Notices)
  BY ReportTyped, ReviewIs DEF TypeInv
<1>2. jobs' \in [Slots -> Jobs]
  BY EndTyped, ReviewIs DEF TypeInv
<1> QED  BY <1>1, <1>2, PoolTyped, ReviewIs DEF TypeInv

LEMMA DueTypes ==
    ASSUME TypeInv, NEW k \in Slots, Due(k)
    PROVE  ReviewTypes'
<1> DEFINE j == [jobs[k] EXCEPT !.st = "sent"]
           w == IF retro.waiting = k THEN 0 ELSE retro.waiting
           y == IF retro.retrying = k THEN 0 ELSE retro.retrying
           v == IF verdict.timer = k THEN 0 ELSE verdict.timer
<1>1. /\ jobs' = [jobs EXCEPT ![k] = j]
      /\ retro' = [retro EXCEPT !.waiting = w, !.retrying = y]
      /\ verdict' = [verdict EXCEPT !.timer = v]
      /\ UNCHANGED <<plans, toasts, tries>> /\ jobs[k].st # "none"
  BY DEF Due
<1>2. j \in Jobs
  BY <1>1, StateTyped, JobIn
<1>3. w \in 0..MaxJobs /\ y \in 0..MaxJobs /\ v \in 0..MaxJobs
  BY ReviewIs, Numbers DEF TypeInv, Retros, Verdicts
<1> HIDE DEF j, w, y, v
<1>4. retro' \in Retros
  BY <1>1, <1>3, ReviewIs DEF TypeInv, Retros
<1>5. verdict' \in Verdicts
  BY <1>1, <1>3, ReviewIs DEF TypeInv, Verdicts
<1>6. jobs' \in [Slots -> Jobs]
  BY <1>1, <1>2, ReviewIs DEF TypeInv
<1> QED  BY <1>1, <1>4, <1>5, <1>6, PoolTyped, ReviewIs DEF TypeInv

LEMMA ReviewedTyped ==
    ASSUME TypeInv, NEW k \in Slots, jobs[k].kind \in {"retro", "rate", "unrate"}
    PROVE  Reviewed(jobs[k]) \in RowType
<1>1. plans[jobs[k].plan] \in RowType
  BY JobIn, ReviewIs DEF TypeInv
<1>2. /\ jobs[k].kind \in {"retro", "rate"} => jobs[k].text \in Texts
      /\ jobs[k].kind = "rate" => jobs[k].mark \in Marks
  BY ReviewIs DEF TypeInv, Jobs
<1> DEFINE r == plans[jobs[k].plan]
<1> HIDE DEF r
<1>3. CASE jobs[k].kind = "retro"
  <2>1. [r EXCEPT !.retro = jobs[k].text] \in RowType
    BY <1>1, <1>2, <1>3 DEF r, RowType
  <2> QED  BY <1>3, <2>1 DEF Reviewed, r
<1>4. CASE jobs[k].kind = "rate"
  <2> DEFINE m == jobs[k].mark
             t == jobs[k].text
  <2> HIDE DEF m, t
  <2>1. r \in RowType /\ m \in Marks \cup {"none"} /\ t \in Texts
    BY <1>1, <1>2, <1>4 DEF r, m, t
  <2>2. [r EXCEPT !.mark = m, !.words = t] \in RowType
    BY <2>1 DEF RowType
  <2> QED  BY <1>4, <2>2 DEF Reviewed, r, m, t
<1>5. CASE jobs[k].kind = "unrate"
  <2>1. r \in RowType /\ "none" \in Marks \cup {"none"} /\ 0 \in Texts
    BY <1>1, Numbers DEF r
  <2>2. [r EXCEPT !.mark = "none", !.words = 0] \in RowType
    BY <2>1 DEF RowType
  <2> QED  BY <1>5, <2>2 DEF Reviewed, r
<1> QED  BY <1>3, <1>4, <1>5

LEMMA ServeReviewTypes ==
    ASSUME TypeInv, NEW k \in Slots, ServeReview(k)
    PROVE  ReviewTypes'
<1> DEFINE st == IF Live(jobs[k].plan) \/ jobs[k].kind = "unrate" THEN "done" ELSE "refused"
           j == [jobs[k] EXCEPT !.st = st]
<1>1. /\ jobs[k].kind \in {"retro", "rate", "unrate"}
      /\ plans' = plans \/ plans' = [plans EXCEPT ![jobs[k].plan] = Reviewed(jobs[k])]
      /\ jobs' = [jobs EXCEPT ![k] = j] /\ UNCHANGED <<toasts, retro, tries, verdict>>
  BY DEF ServeReview
<1>2. j \in Jobs
  BY <1>1, StateTyped, JobIn
<1> HIDE DEF st, j
<1>3. plans' \in [PlanIds -> RowType]
  BY <1>1, ReviewedTyped, JobIn, ReviewIs DEF TypeInv
<1>4. jobs' \in [Slots -> Jobs]
  BY <1>1, <1>2, ReviewIs DEF TypeInv
<1> QED  BY <1>1, <1>3, <1>4, PoolTyped, ReviewIs DEF TypeInv

\* The variables of the page.
LEMMA PageIs ==
    ASSUME TypeInv
    PROVE  /\ route \in Routes /\ PageOf(page) /\ page.plan \in 0..MaxPlan
           /\ status \in {"loading", "ready", "empty", "error"}
           /\ LoadOf(load) /\ edit \in Edited /\ (edit.open => Shown.row.status = "draft")
           /\ form \in 0..MaxJobs /\ dup \in [source : 0..MaxPlan, busy : BOOLEAN]
           /\ Queued(jobs, toasts) /\ page.row.notes \in Texts
BY DEF TypeInv, PageTypes, ReviewTypes, PageOf, Pages, LoadOf, Loads, Edited, Queued, RowType

LEMMA GoTypes ==
    ASSUME TypeInv, NEW r \in Routes, Go(r)
    PROVE  TypeInv'
<1> DEFINE st == IF r = Home THEN "ready" ELSE status
<1>1. Show(r, page, st, load, edit, jobs, toasts) /\ Others(dup)
  BY PageIs DEF Go, Rests, Others
<1>2. ShowArgs(r, page, st, load, edit, jobs, toasts)
  BY PageIs DEF ShowArgs
<1> HIDE DEF st
<1> QED  BY <1>1, <1>2, ShowTyped

\* A step that does not touch what the controls have.
LEMMA ReviewStays ==
    ASSUME TypeInv, UNCHANGED reviewVars
    PROVE  ReviewTypes' /\ UNCHANGED props
BY DEF TypeInv, ReviewTypes, reviewVars

LEMMA RefreshTypes ==
    ASSUME TypeInv, Refresh
    PROVE  TypeInv'
<1>1. /\ UNCHANGED <<reviewVars, route, page, status, edit, form, dup>> /\ Counts
      /\ load' = Loading(route, page)
  BY WorkTyped DEF Refresh
<1>2. LoadOf(load')
  BY <1>1, LoadingTyped, PageIs DEF PageOf
<1>3. PageTypes'
  BY <1>1, <1>2, PageKept, PageIs, ReviewStays
<1> QED  BY <1>1, <1>3, ReviewStays DEF TypeInv

LEMMA EditsTypes ==
    ASSUME TypeInv, NEW ed \in Edited, ed.open => Shown.row.status = "draft", Edits(ed)
    PROVE  TypeInv'
<1>1. /\ UNCHANGED <<reviewVars, route, page, status, load, form, dup>> /\ Counts
      /\ edit' = ed
  BY WorkTyped DEF Edits
<1>2. PageTypes'
  BY <1>1, PageKept, PageIs, ReviewStays
<1> QED  BY <1>1, <1>2, ReviewStays DEF TypeInv

LEMMA NotesTypes ==
    ASSUME TypeInv, OpenNotes \/ (\E t \in Texts : DraftNotes(t)) \/ CloseNotes
    PROVE  TypeInv'
<1>1. CASE OpenNotes
  <2>1. [edit EXCEPT !.open = TRUE] \in Edited
    BY PageIs DEF Edited
  <2> QED  BY <1>1, <2>1, EditsTypes DEF OpenNotes
<1>2. ASSUME NEW t \in Texts, DraftNotes(t)
      PROVE  TypeInv'
  <2>1. /\ [edit EXCEPT !.draft = t] \in Edited
        /\ [edit EXCEPT !.draft = t].open => Shown.row.status = "draft"
    BY PageIs DEF Edited
  <2> QED  BY <1>2, <2>1, EditsTypes DEF DraftNotes
<1>3. CASE CloseNotes
  <2>1. \A t \in Texts : /\ [NoEdit EXCEPT !.draft = t] \in Edited
                         /\ ~[NoEdit EXCEPT !.draft = t].open
    BY EmptyTyped DEF NoEdit, Edited
  <2> QED  BY <1>3, <2>1, EditsTypes, PageIs DEF CloseNotes
<1> QED  BY <1>1, <1>2, <1>3

LEMMA BeginTypes ==
    ASSUME TypeInv, NEW j \in Jobs, NEW ed, NEW fm,
           NEW dp \in [source : 0..MaxPlan, busy : BOOLEAN], Begin(j, ed, fm, dp)
    PROVE  TypeInv'
<1>1. PICK k \in Slots : /\ jobs' = [jobs EXCEPT ![k] = j]
                         /\ edit' = IF ed THEN [edit EXCEPT !.job = k] ELSE edit
                         /\ form' = IF fm THEN k ELSE form
  BY DEF Begin
<1>2. /\ dup' = dp /\ UNCHANGED <<plans, toasts, editorVars, route, page, status, load>>
      /\ Counts
  BY WorkTyped DEF Begin
<1>3. edit' \in Edited /\ (edit'.open => Shown.row.status = "draft") /\ form' \in 0..MaxJobs
  <2>1. k \in 0..MaxJobs
    BY Numbers DEF Slots
  <2>2. [edit EXCEPT !.job = k] \in Edited /\ [edit EXCEPT !.job = k].open = edit.open
    BY <2>1, PageIs DEF Edited
  <2> QED  BY <1>1, <2>1, <2>2, PageIs
<1>4. jobs' \in [Slots -> Jobs]
  BY <1>1, ReviewIs DEF TypeInv
<1>5. ReviewTypes'
  BY <1>2, <1>4, PoolTyped, ReviewIs DEF TypeInv, editorVars
<1>6. PageTypes'
  BY <1>2, <1>3, PageKept, PageIs DEF editorVars
<1> QED  BY <1>5, <1>6 DEF TypeInv

LEMMA RequestTypes ==
    ASSUME TypeInv, NEW kind, NEW p, NEW t, NEW m, Asks(kind, p, t, m), NEW ed, NEW fm,
           NEW dp \in [source : 0..MaxPlan, busy : BOOLEAN], Begin(Job(kind, p, t, m), ed, fm, dp)
    PROVE  TypeInv'
BY JobTyped, BeginTypes

LEMMA BeginsTypes ==
    ASSUME TypeInv,
           \/ CommitNotes \/ Submit \/ ConfirmDuplicate
           \/ \E s \in Statuses : PickStatus(s)
           \/ \E n \in 1..MaxDays : PickEnd(n)
           \/ \E p \in PlanIds : Delete(p)
    PROVE  TypeInv'
<1>1. dup \in [source : 0..MaxPlan, busy : BOOLEAN]
  BY PageIs
<1>2. CASE CommitNotes
  <2>1. page.plan \in PlanIds
    BY <1>2, PageIs, PropsTyped, PlanTyped, EmptyTyped DEF CommitNotes, Shown, WeekView
  <2>2. edit.draft \in Texts /\ edit.draft \in Nat
    BY PageIs, Numbers DEF Edited
  <2>3. Asks("notes", page.plan, edit.draft, "none")
    BY <2>1, <2>2, Numbers DEF Asks, Patches, PlanIds
  <2> QED  BY <1>1, <1>2, <2>3, RequestTypes DEF CommitNotes
<1>3. CASE Submit
  <2>1. Asks("create", 0, 0, "none")
    BY Numbers DEF Asks
  <2> QED  BY <1>1, <1>3, <2>1, RequestTypes DEF Submit
<1>4. CASE ConfirmDuplicate
  <2>1. dup.source \in PlanIds
    BY <1>1, <1>4, Numbers DEF ConfirmDuplicate, PlanIds
  <2>2. Asks("clone", dup.source, 0, "none")
    BY <2>1, Numbers DEF Asks, PlanIds
  <2>3. [dup EXCEPT !.busy = TRUE] \in [source : 0..MaxPlan, busy : BOOLEAN]
    BY <1>1
  <2> QED  BY <1>4, <2>2, <2>3, RequestTypes DEF ConfirmDuplicate
<1>5. ASSUME NEW s \in Statuses, PickStatus(s)
      PROVE  TypeInv'
  <2>1. Shown.plan \in PlanIds
    BY <1>5, PropsTyped, PlanTyped DEF PickStatus
  <2>2. Asks("status", Shown.plan, 0, s)
    BY <2>1, Numbers DEF Asks, Patches, PlanIds
  <2> QED  BY <1>1, <1>5, <2>2, RequestTypes DEF PickStatus
<1>6. ASSUME NEW n \in 1..MaxDays, PickEnd(n)
      PROVE  TypeInv'
  <2> DEFINE m == IF n < Shown.row.days THEN "asked" ELSE "none"
  <2>1. Shown.plan \in PlanIds
    BY <1>6, PropsTyped, PlanTyped DEF PickEnd
  <2>2. Asks("end", Shown.plan, n, m)
    BY <2>1, Numbers DEF Asks, Patches, PlanIds
  <2>3. Begin(Job("end", Shown.plan, n, m), FALSE, FALSE, dup)
    BY <1>6 DEF PickEnd
  <2> HIDE DEF m
  <2> QED  BY <1>1, <2>2, <2>3, RequestTypes
<1>7. ASSUME NEW p \in PlanIds, Delete(p)
      PROVE  TypeInv'
  <2> DEFINE m == IF page.plan = p THEN "loaded" ELSE "none"
  <2>1. Asks("delete", p, 0, m)
    BY Numbers DEF Asks, PlanIds
  <2>2. Begin(Job("delete", p, 0, m), FALSE, FALSE, dup)
    BY <1>7 DEF Delete
  <2> HIDE DEF m
  <2> QED  BY <1>1, <2>1, <2>2, RequestTypes
<1> QED  BY <1>2, <1>3, <1>4, <1>5, <1>6, <1>7

LEMMA DuplicateTypes ==
    ASSUME TypeInv, (\E p \in PlanIds : Duplicate(p)) \/ CancelDuplicate
    PROVE  TypeInv'
<1>1. /\ UNCHANGED <<reviewVars, route, page, status, load, edit, form>> /\ Counts
      /\ dup' \in [source : 0..MaxPlan, busy : BOOLEAN]
  <2>1. CASE \E p \in PlanIds : Duplicate(p)
    <3>1. \A p \in PlanIds : p \in 0..MaxPlan
      BY Numbers DEF PlanIds
    <3> QED  BY <2>1, <3>1, WorkTyped DEF Duplicate
  <2>2. CASE CancelDuplicate
    <3>1. NoDup \in [source : 0..MaxPlan, busy : BOOLEAN]
      BY Numbers DEF NoDup
    <3> QED  BY <2>2, <3>1, WorkTyped DEF CancelDuplicate
  <2> QED  BY <2>1, <2>2
<1>2. PageTypes'
  BY <1>1, PageKept, PageIs, ReviewStays
<1> QED  BY <1>1, <1>2, ReviewStays DEF TypeInv

\* What the server answers.
LEMMA ServedTypes ==
    ASSUME TypeInv, NEW k \in Slots, jobs[k].kind # "none", Serving,
           \/ Refuses(k)
           \/ \E p \in PlanIds, row \in RowType : Answers(k, p, row)
    PROVE  TypeInv'
<1>1. UNCHANGED <<toasts, retro, tries, verdict, props, pageVars>> /\ Counts
  BY WorkTyped DEF Serving, editorVars
<1>2. plans' \in [PlanIds -> RowType] /\ jobs' \in [Slots -> Jobs]
  <2>1. CASE Refuses(k)
    <3>1. [jobs[k] EXCEPT !.st = "refused"] \in Jobs
      BY StateTyped, JobIn
    <3> QED  BY <2>1, <3>1, ReviewIs DEF Refuses, TypeInv
  <2>2. ASSUME NEW p \in PlanIds, NEW row \in RowType, Answers(k, p, row)
        PROVE  plans' \in [PlanIds -> RowType] /\ jobs' \in [Slots -> Jobs]
    <3> DEFINE j == [jobs[k] EXCEPT !.st = "done", !.plan = p, !.row = row]
    <3>1. j \in Jobs
      BY AnsweredTyped, JobIn
    <3>2. jobs' = [jobs EXCEPT ![k] = j] /\ plans' = [plans EXCEPT ![p] = row]
      BY <2>2 DEF Answers
    <3> HIDE DEF j
    <3> QED  BY <3>1, <3>2, ReviewIs DEF TypeInv
  <2> QED  BY <2>1, <2>2
<1>3. ReviewTypes'
  BY <1>1, <1>2, PoolTyped, ReviewIs DEF TypeInv
<1>4. PageTypes'
  BY <1>1, PageStays
<1> QED  BY <1>3, <1>4 DEF TypeInv

LEMMA PatchedTyped ==
    ASSUME TypeInv, NEW k \in Slots, jobs[k].kind \in Patches
    PROVE  Patched(jobs[k]) \in RowType
<1>1. plans[jobs[k].plan] \in RowType
  BY JobIn, ReviewIs DEF TypeInv, Patches
<1>2. /\ jobs[k].kind = "notes" => jobs[k].text \in Texts
      /\ jobs[k].kind = "end" => jobs[k].text \in 1..MaxDays
      /\ jobs[k].kind = "status" => jobs[k].mark \in Statuses
  BY ReviewIs DEF TypeInv, Jobs
<1> DEFINE r == plans[jobs[k].plan]
<1> HIDE DEF r
<1>3. CASE jobs[k].kind = "notes"
  <2>1. [r EXCEPT !.notes = jobs[k].text] \in RowType
    BY <1>1, <1>2, <1>3 DEF r, RowType
  <2> QED  BY <1>3, <2>1 DEF Patched, r
<1>4. CASE jobs[k].kind = "status"
  <2>1. [r EXCEPT !.status = jobs[k].mark] \in RowType
    BY <1>1, <1>2, <1>4 DEF r, RowType
  <2> QED  BY <1>4, <2>1 DEF Patched, r
<1>5. CASE jobs[k].kind = "end"
  <2>1. [r EXCEPT !.days = jobs[k].text] \in RowType
    BY <1>1, <1>2, <1>5 DEF r, RowType
  <2> QED  BY <1>5, <2>1 DEF Patched, r
<1> QED  BY <1>3, <1>4, <1>5 DEF Patches

LEMMA ServeTypes ==
    ASSUME TypeInv, NEW k \in Slots, ServePatch(k) \/ ServeNew(k) \/ ServeDelete(k)
    PROVE  TypeInv'
<1>1. CASE ServePatch(k)
  <2>1. jobs[k].kind \in Patches /\ jobs[k].kind # "none" /\ Serving
    BY <1>1 DEF ServePatch, Patches
  <2>2. jobs[k].plan \in PlanIds /\ Patched(jobs[k]) \in RowType
    BY <2>1, JobIn, PatchedTyped DEF Patches
  <2> QED  BY <1>1, <2>1, <2>2, ServedTypes DEF ServePatch
<1>2. CASE ServeNew(k)
  <2>1. jobs[k].kind \in {"create", "clone"} /\ Serving
    BY <1>2 DEF ServeNew
  <2>2. CASE Refuses(k)
    BY <2>1, <2>2, ServedTypes
  <2>3. CASE ~Refuses(k)
    <3> DEFINE row == IF jobs[k].kind = "create" THEN Row("draft")
                      ELSE [Row("draft") EXCEPT !.days = plans[jobs[k].plan].days]
    <3>1. PICK p \in PlanIds : Answers(k, p, row)
      BY <1>2, <2>3 DEF ServeNew
    <3>2. row \in RowType
      <4>1. Row("draft") \in RowType
        BY RowTyped, Numbers
      <4>2. jobs[k].kind = "clone" => plans[jobs[k].plan].days \in 1..MaxDays
        BY JobIn, ReviewIs DEF TypeInv, RowType
      <4>3. \A r \in RowType, d \in 1..MaxDays : [r EXCEPT !.days = d] \in RowType
        BY DEF RowType
      <4> QED  BY <2>1, <4>1, <4>2, <4>3
    <3> HIDE DEF row
    <3> QED  BY <2>1, <3>1, <3>2, ServedTypes
  <2> QED  BY <2>2, <2>3
<1>3. CASE ServeDelete(k)
  <2>1. /\ jobs[k].kind = "delete" /\ Serving /\ Answers(k, jobs[k].plan, Row("gone"))
        /\ jobs[k].plan \in PlanIds /\ Row("gone") \in RowType
    BY <1>3, JobIn, RowTyped DEF ServeDelete
  <2> QED  BY <2>1, ServedTypes
<1> QED  BY <1>1, <1>2, <1>3

\* The notes' editor closes.
LEMMA EditClosed ==
    ASSUME NEW e \in Edited, NEW n \in 0..MaxJobs
    PROVE  [e EXCEPT !.open = FALSE, !.job = n] \in Edited
BY DEF Edited

\* A row in an answer.
LEMMA AnswerPage ==
    ASSUME TypeInv, NEW k \in Slots, jobs[k].st = "done"
    PROVE  /\ PageOf([plan |-> jobs[k].plan, row |-> jobs[k].row])
           /\ jobs[k].plan \in PlanIds /\ jobs[k].plan \in Routes
<1>1. jobs[k].plan \in PlanIds /\ jobs[k].row \in RowType
  BY JobIn
<1>2. jobs[k].plan \in 0..MaxPlan /\ jobs[k].plan # 0 /\ jobs[k].plan \in Routes
  BY <1>1, Numbers DEF PlanIds, Routes
<1> QED  BY <1>1, <1>2 DEF PageOf, Pages

LEMMA EndQueued ==
    ASSUME TypeInv, NEW k \in Slots
    PROVE  /\ Queued(End(k), toasts)
           /\ \A v \in {"error", "success"} : Queued(End(k), Report(toasts, v))
BY EndTyped, ReportTyped, ReviewIs DEF TypeInv, Queued

LEMMA ShownTypes ==
    ASSUME TypeInv, NEW k \in Slots,
           PatchDone(k) \/ Created(k) \/ Cloned(k)
             \/ (jobs[k].kind = "delete" /\ Deleted(k) /\ jobs[k].mark = "loaded")
    PROVE  TypeInv'
<1>1. CASE PatchDone(k)
  <2> DEFINE ed == IF edit.job = k THEN [edit EXCEPT !.open = FALSE, !.job = 0] ELSE edit
             pg == [plan |-> jobs[k].plan, row |-> jobs[k].row]
  <2>1. Show(route, pg, status, load, ed, End(k), toasts) /\ Others(dup) /\ jobs[k].st = "done"
    BY <1>1, PageIs DEF PatchDone, Rests, Others
  <2>2. ed \in Edited
    <3>1. edit \in Edited /\ 0 \in 0..MaxJobs
      BY PageIs, Numbers
    <3>2. [edit EXCEPT !.open = FALSE, !.job = 0] \in Edited
      BY ONLY <3>1, EditClosed
    <3> QED  BY <3>1, <3>2
  <2>3. ShowArgs(route, pg, status, load, ed, End(k), toasts)
    BY <2>1, <2>2, PageIs, AnswerPage, EndQueued DEF ShowArgs
  <2> HIDE DEF ed, pg
  <2> QED  BY <2>1, <2>3, ShowTyped
<1>2. CASE Created(k)
  <2> DEFINE pg == [plan |-> jobs[k].plan, row |-> jobs[k].row]
  <2>1. /\ Show(jobs[k].plan, pg, "ready", load, edit, End(k), toasts)
        /\ Others(dup) /\ jobs[k].st = "done"
    BY <1>2, PageIs DEF Created, Rests, Others
  <2>2. ShowArgs(jobs[k].plan, pg, "ready", load, edit, End(k), toasts)
    BY <2>1, PageIs, AnswerPage, EndQueued DEF ShowArgs
  <2> HIDE DEF pg
  <2> QED  BY <2>1, <2>2, ShowTyped
<1>3. CASE Cloned(k)
  <2>1. /\ Show(jobs[k].plan, page, status, load, edit, End(k), toasts)
        /\ Others(NoDup) /\ jobs[k].st = "done"
    BY <1>3, Numbers DEF Cloned, Rests, Others, NoDup
  <2>2. ShowArgs(jobs[k].plan, page, status, load, edit, End(k), toasts)
    BY <2>1, PageIs, AnswerPage, EndQueued DEF ShowArgs
  <2> QED  BY <2>1, <2>2, ShowTyped
<1>4. CASE Deleted(k) /\ jobs[k].mark = "loaded"
  <2>1. /\ Show(Home, NoPage, "ready", load, edit, End(k), Report(toasts, "success"))
        /\ Others(dup)
    BY <1>4, PageIs DEF Deleted, Rests, Others
  <2>2. Home \in Routes
    BY Numbers DEF Home, Routes
  <2>3. ShowArgs(Home, NoPage, "ready", load, edit, End(k), Report(toasts, "success"))
    BY <2>2, PageIs, EmptyTyped, EndQueued DEF ShowArgs
  <2> QED  BY <2>1, <2>3, ShowTyped
<1> QED  BY <1>1, <1>2, <1>3, <1>4

\* Jobs that end without a rendering.
LEMMA EndedTypes ==
    ASSUME TypeInv, NEW k \in Slots,
           \/ PatchFailed(k) \/ CreateFailed(k) \/ CloneFailed(k) \/ DeleteFailed(k)
           \/ Deleted(k) /\ jobs[k].mark # "loaded"
    PROVE  TypeInv'
<1>1. /\ jobs' = End(k) /\ UNCHANGED <<plans, editorVars, route, page, status, load>> /\ Counts
      /\ toasts' = toasts \/ toasts' = Report(toasts, "error") \/ toasts' = Report(toasts, "success")
  BY WorkTyped DEF PatchFailed, CreateFailed, CloneFailed, DeleteFailed, Deleted, pageVars
<1>2. ReviewTypes'
  <2>1. UNCHANGED <<plans, retro, tries, verdict>>
    BY <1>1 DEF editorVars
  <2>2. CASE toasts' = toasts \/ toasts' = Report(toasts, "error")
    <3>1. "error" \in {"error", "success"}
      OBVIOUS
    <3> QED  BY <1>1, <2>1, <2>2, <3>1, EndReported
  <2>3. CASE toasts' = Report(toasts, "success")
    <3>1. "success" \in {"error", "success"}
      OBVIOUS
    <3> QED  BY <1>1, <2>1, <2>3, <3>1, EndReported
  <2> QED  BY <1>1, <2>2, <2>3
<1>3. edit' = edit \/ edit' = [edit EXCEPT !.job = 0]
  BY DEF PatchFailed, CreateFailed, CloneFailed, DeleteFailed, Deleted, pageVars
<1>4. edit' \in Edited /\ (edit'.open => Shown.row.status = "draft")
  <2>1. [edit EXCEPT !.job = 0] \in Edited /\ [edit EXCEPT !.job = 0].open = edit.open
    BY PageIs, Numbers DEF Edited
  <2> QED  BY <1>3, <2>1, PageIs
<1>5. form' \in 0..MaxJobs
  <2>1. form' = form \/ form' = 0
    BY DEF PatchFailed, CreateFailed, CloneFailed, DeleteFailed, Deleted, pageVars
  <2> QED  BY <2>1, PageIs, Numbers
<1>6. dup' \in [source : 0..MaxPlan, busy : BOOLEAN]
  <2>1. dup' = dup \/ dup' = [dup EXCEPT !.busy = FALSE]
    BY DEF PatchFailed, CreateFailed, CloneFailed, DeleteFailed, Deleted, pageVars
  <2> QED  BY <2>1, PageIs
<1>7. PageTypes'
  BY <1>1, <1>4, <1>5, <1>6, PageKept, PageIs DEF editorVars
<1> QED  BY <1>2, <1>7 DEF TypeInv

LEMMA ElsewhereTypes ==
    ASSUME TypeInv, NEW p \in PlanIds, Elsewhere(p)
    PROVE  TypeInv'
<1>1. UNCHANGED <<jobs, toasts, editorVars, pageVars>> /\ Counts
  BY WorkTyped DEF Elsewhere
<1>2. plans' \in [PlanIds -> RowType]
  <2>1. plans[p] \in RowType /\ Row("gone") \in RowType
    BY ReviewIs, RowTyped DEF TypeInv
  <2>2. \A s \in Statuses, r \in RowType : [r EXCEPT !.status = s] \in RowType
    BY DEF RowType
  <2>3. \A t \in Texts, r \in RowType : [r EXCEPT !.retro = t] \in RowType
    BY DEF RowType
  <2>4. ASSUME NEW s \in Statuses \cup {"gone"},
               plans' = [plans EXCEPT ![p] = IF s = "gone" THEN Row(s) ELSE [@ EXCEPT !.status = s]]
        PROVE  plans' \in [PlanIds -> RowType]
    <3> DEFINE row == IF s = "gone" THEN Row(s) ELSE [plans[p] EXCEPT !.status = s]
    <3>1. row \in RowType
      BY <2>1, <2>2
    <3>2. plans' = [plans EXCEPT ![p] = row]
      BY <2>4
    <3> HIDE DEF row
    <3> QED  BY <3>1, <3>2, ReviewIs DEF TypeInv
  <2>5. ASSUME NEW t \in Texts, plans' = [plans EXCEPT ![p].retro = t]
        PROVE  plans' \in [PlanIds -> RowType]
    BY <2>1, <2>3, <2>5, ReviewIs DEF TypeInv
  <2> QED  BY <2>4, <2>5 DEF Elsewhere
<1>3. ReviewTypes'
  BY <1>1, <1>2, PoolTyped, ReviewIs DEF TypeInv, editorVars
<1>4. PageTypes'
  BY <1>1, PageStays DEF editorVars
<1> QED  BY <1>3, <1>4 DEF TypeInv

LEMMA ServeLoadTypes ==
    ASSUME TypeInv, ServeLoad
    PROVE  TypeInv'
<1>1. UNCHANGED <<reviewVars, route, page, status, edit, form, dup>> /\ Counts
  BY WorkTyped DEF ServeLoad
<1>2. LoadOf(load')
  <2>1. load \in Loads /\ load.plan \in 0..MaxPlan /\ (load.plan = 0 => load.row = Row("unborn"))
    BY PageIs DEF LoadOf, Loads
  <2>2. \A p \in PlanIds : plans[p] \in RowType /\ p \in 0..MaxPlan /\ p # 0
    BY ReviewIs, Numbers DEF TypeInv, PlanIds
  <2>3. CASE load.plan # 0 /\ load' = [load EXCEPT !.st = "answered", !.row = plans[load.plan]]
    <3>1. plans[load.plan] \in RowType
      BY <2>1, <2>2, <2>3, Numbers DEF PlanIds
    <3>2. \A l \in Loads, r \in RowType : /\ [l EXCEPT !.st = "answered", !.row = r] \in Loads
                                          /\ [l EXCEPT !.st = "answered", !.row = r].plan = l.plan
      BY DEF Loads
    <3>3. load' \in Loads /\ load'.plan = load.plan
      BY <2>1, <2>3, <3>1, <3>2
    <3> QED  BY <2>3, <3>3 DEF LoadOf
  <2>4. CASE load.plan = 0 /\ load' = [load EXCEPT !.st = "answered"]
    BY <2>1, <2>4 DEF LoadOf, Loads
  <2>5. CASE \E p \in PlanIds : load' = [st |-> "answered", plan |-> p, row |-> plans[p]]
    BY <2>2, <2>5 DEF LoadOf, Loads
  <2> QED  BY <2>3, <2>4, <2>5 DEF ServeLoad
<1>3. PageTypes'
  BY <1>1, <1>2, PageKept, PageIs, ReviewStays
<1> QED  BY <1>1, <1>3, ReviewStays DEF TypeInv

LEMMA LoadedTypes ==
    ASSUME TypeInv, Loaded \/ LoadFailed
    PROVE  TypeInv'
<1>1. Others(dup)
  BY PageIs DEF Loaded, LoadFailed, Rests, Others
<1>2. load \in Loads /\ (load.plan = 0 => load.row = Row("unborn"))
  BY PageIs DEF LoadOf
<1>3. CASE Loaded /\ load.row.status \in Statuses
  <2> DEFINE pg == [plan |-> load.plan, row |-> load.row]
  <2>1. Show(route, pg, "ready", NoLoad, edit, jobs, toasts)
    BY <1>3 DEF Loaded
  <2>2. PageOf(pg)
    BY <1>2, <1>3, EmptyTyped, Numbers DEF Loads, PageOf, Pages
  <2>3. ShowArgs(route, pg, "ready", NoLoad, edit, jobs, toasts)
    BY <2>2, PageIs, EmptyTyped DEF ShowArgs
  <2> HIDE DEF pg
  <2> QED  BY <1>1, <2>1, <2>3, ShowTyped
<1>4. ASSUME NEW st \in {"loading", "ready", "empty", "error"},
             Show(route, page, st, NoLoad, edit, jobs, toasts)
      PROVE  TypeInv'
  <2>1. ShowArgs(route, page, st, NoLoad, edit, jobs, toasts)
    BY PageIs, EmptyTyped DEF ShowArgs
  <2> QED  BY <1>1, <1>4, <2>1, ShowTyped
<1>5. CASE Loaded /\ load.row.status \notin Statuses
  <2> DEFINE st == CASE load.plan # 0 -> "error"
                     [] load.plan = 0 /\ route = New -> status
                     [] load.plan = 0 /\ route # New -> "empty"
  <2>1. st \in {"loading", "ready", "empty", "error"}
    BY PageIs
  <2>2. Show(route, page, st, NoLoad, edit, jobs, toasts)
    BY <1>5 DEF Loaded
  <2> HIDE DEF st
  <2> QED  BY <1>4, <2>1, <2>2
<1>6. CASE LoadFailed
  BY <1>4, <1>6 DEF LoadFailed
<1> QED  BY <1>3, <1>5, <1>6

\* What happens to the jobs of the controls.
LEMMA ReviewStepTypes ==
    ASSUME TypeInv, NEW k \in Slots,
           \/ (Due(k) \/ ServeReview(k) \/ RetroSaved(k) \/ RetroFailed(k) \/ RateFailed(k))
                /\ UNCHANGED pageVars /\ Rests
           \/ RateSaved(k) /\ load' = Loading(route, page)
                /\ UNCHANGED <<route, page, status, edit, form, dup>> /\ Rests
    PROVE  TypeInv'
<1>1. CASE /\ Due(k) \/ ServeReview(k) \/ RetroSaved(k) \/ RetroFailed(k) \/ RateFailed(k)
           /\ UNCHANGED pageVars /\ Rests
  <2>1. UNCHANGED props
    BY <1>1 DEF Due, ServeReview, RetroSaved, RetroFailed, RateFailed
  <2>2. PageTypes'
    BY <1>1, <2>1, PageStays, WorkTyped
  <2>3. CASE RateFailed(k)
    <3>1. /\ jobs' = End(k) /\ toasts' = Report(toasts, "error")
          /\ UNCHANGED <<plans, retro, tries, verdict>> /\ "error" \in {"error", "success"}
      BY <2>3 DEF RateFailed
    <3> QED  BY <2>2, <3>1, EndReported DEF TypeInv
  <2> QED  BY <1>1, <2>2, <2>3, DueTypes, ServeReviewTypes, RetroSavedTypes, RetroFailedTypes
           DEF TypeInv
<1>2. CASE /\ RateSaved(k) /\ load' = Loading(route, page)
           /\ UNCHANGED <<route, page, status, edit, form, dup>> /\ Rests
  <2>1. /\ jobs' = End(k) /\ toasts' = toasts /\ UNCHANGED <<plans, retro, tries, verdict, props>>
        /\ "error" \in {"error", "success"}
    BY <1>2 DEF RateSaved
  <2>2. ReviewTypes'
    BY <2>1, EndReported
  <2>3. LoadOf(load')
    BY <1>2, LoadingTyped, PageIs DEF PageOf
  <2>4. PageTypes'
    BY <1>2, <2>1, <2>3, PageKept, PageIs, WorkTyped
  <2> QED  BY <2>2, <2>4 DEF TypeInv
<1> QED  BY <1>1, <1>2

LEMMA ReviewsTypes ==
    ASSUME TypeInv, Reviews
    PROVE  TypeInv'
<1>1. UNCHANGED pageVars /\ Counts
  BY WorkTyped DEF Reviews
<1>2. UNCHANGED props /\ ReviewTypes'
  <2>1. ASSUME NEW t \in Texts, Type(t) PROVE UNCHANGED props /\ ReviewTypes'
    BY <2>1, TypeTypes DEF Type
  <2>2. ASSUME NEW t \in Texts, Comment(t) PROVE UNCHANGED props /\ ReviewTypes'
    BY <2>2, CommentTypes DEF Comment
  <2>3. ASSUME NEW m \in Marks, Rate(m) PROVE UNCHANGED props /\ ReviewTypes'
    BY <2>3, RateTypes DEF Rate
  <2>4. ASSUME Unrate PROVE UNCHANGED props /\ ReviewTypes'
    BY <2>4, UnrateTypes DEF Unrate
  <2>5. ASSUME NEW n \in 1..Len(toasts), Again(n) PROVE UNCHANGED props /\ ReviewTypes'
    BY <2>5, AgainTypes DEF Again
  <2>6. ASSUME NEW n \in 1..Len(toasts), Close(n) PROVE UNCHANGED props /\ ReviewTypes'
    BY <2>6, CloseTypes DEF Close
  <2> QED  BY <2>1, <2>2, <2>3, <2>4, <2>5, <2>6 DEF Reviews
<1> QED  BY <1>1, <1>2, PageStays DEF TypeInv

LEMMA TypeStep ==
    ASSUME TypeInv, [Next]_vars
    PROVE  TypeInv'
<1>1. CASE UNCHANGED vars
  <2>1. UNCHANGED reviewVars /\ UNCHANGED pageVars /\ UNCHANGED props /\ Counts
    BY <1>1, WorkTyped DEF vars, reviewVars, pageVars, Rests
  <2> QED  BY <2>1, ReviewStays, PageStays DEF TypeInv
<1>2. CASE UserActs
  <2>1. ASSUME NEW r \in Routes, Go(r) PROVE TypeInv'
    BY <2>1, GoTypes
  <2> QED  BY <1>2, <2>1, RefreshTypes, ReviewsTypes, NotesTypes, BeginsTypes, DuplicateTypes
           DEF UserActs
<1>3. CASE \E p \in PlanIds : Elsewhere(p)
  BY <1>3, ElsewhereTypes
<1>4. CASE ServeLoad \/ Loaded \/ LoadFailed
  BY <1>4, ServeLoadTypes, LoadedTypes
<1>5. ASSUME NEW k \in Slots, Serve(k)
      PROVE  TypeInv'
  BY <1>5, ReviewStepTypes, ServeTypes DEF Serve
<1>6. ASSUME NEW k \in Slots, Answered(k)
      PROVE  TypeInv'
  <2>1. CASE Deleted(k) /\ jobs[k].mark = "loaded"
    <3>1. jobs[k].kind = "delete"
      BY <2>1 DEF Deleted
    <3> QED  BY <2>1, <3>1, ShownTypes
  <2>2. CASE Deleted(k) /\ jobs[k].mark # "loaded"
    BY <2>2, EndedTypes
  <2> QED  BY <1>6, <2>1, <2>2, ReviewStepTypes, ShownTypes DEF Answered
<1>7. ASSUME NEW k \in Slots, Fails(k)
      PROVE  TypeInv'
  BY <1>7, ReviewStepTypes, EndedTypes DEF Fails
<1> QED  BY <1>1, <1>2, <1>3, <1>4, <1>5, <1>6, <1>7 DEF Next

LEMMA TypeInit ==
    ASSUME Init
    PROVE  TypeInv
<1>1. plans \in [PlanIds -> RowType]
  <2>1. {Row(s) : s \in {"unborn", "draft", "ordered"}} \subseteq RowType
    BY RowTyped, Numbers
  <2> QED  BY <2>1 DEF Init
<1>2. jobs \in [Slots -> Jobs]
  BY NoJobTyped DEF Init
<1>3. QueueOf(toasts, Notices)
  BY Numbers DEF Init, QueueOf, Distinct
<1>4. /\ retro \in Retros /\ tries \in [Insts -> Nat] /\ verdict \in Verdicts
  BY Numbers, EditorTyped DEF Init, Verdicts
<1>5. ReviewTypes
  BY <1>1, <1>2, <1>3, <1>4 DEF ReviewTypes, Retros, Verdicts
<1>6. route \in Routes /\ status \in {"loading", "ready", "empty", "error"} /\ page = NoPage
  <2>1. Home \in Routes /\ New \in Routes /\ Dialog \in Routes /\ 1 \in Routes
    BY Numbers DEF Routes, Home, New, Dialog
  <2> QED  BY <2>1 DEF Init
<1>7. LoadOf(load)
  BY <1>6, EmptyTyped, LoadingTyped DEF Init
<1>8. /\ PageOf(page) /\ edit \in Edited /\ ~edit.open
      /\ form \in 0..MaxJobs /\ dup \in [source : 0..MaxPlan, busy : BOOLEAN]
      /\ work \in 0..(MaxWork + MaxCalm) /\ calm \in BOOLEAN
  <2>1. NoDup \in [source : 0..MaxPlan, busy : BOOLEAN]
    BY Numbers DEF NoDup
  <2> QED  BY <2>1, EmptyTyped, Numbers DEF Init, NoEdit
<1>9. props = Rateable(Shown)
  <2>1. Shown = NoPage
    BY <1>6 DEF Shown, WeekView
  <2> QED  BY <2>1, EmptyTyped DEF Init, Rateable
<1> QED  BY <1>5, <1>6, <1>7, <1>8, <1>9 DEF TypeInv, PageTypes, PageOf, LoadOf, Loads, Edited

LEMMA TypesHold == TypeInv => TypeOK
<1> SUFFICES ASSUME TypeInv PROVE TypeOK
  OBVIOUS
<1>1. plans \in [PlanIds -> RowType] /\ jobs \in [Slots -> JobType]
      /\ Len(toasts) <= MaxVisible /\ Distinct(toasts)
  BY ReviewIs DEF TypeInv, QueueOf, Jobs
<1>2. props \in [plan : 0..MaxPlan, row : RowType]
  BY PropsTyped DEF PageOf, Pages
<1> QED  BY <1>1, <1>2 DEF TypeInv, ReviewTypes, PageTypes, TypeOK, Pages

\* In every behaviour of the page every variable has its type, the queue of
\* notices fits and none of them has the id of another (add, capQueue).
THEOREM PageTypesHold == Spec => []TypeOK
<1>1. Init => TypeInv
  BY TypeInit
<1>2. TypeInv /\ [Next]_vars => TypeInv'
  BY TypeStep
<1> QED  BY <1>1, <1>2, TypesHold, PTL DEF Spec

(***************************************************************************)
(* Errors stay.                                                            *)
(***************************************************************************)
\* What ErrorsStay asks of a step from q to r.
Stays(q, r) ==
    \A i \in 1..Len(q) :
        /\ IsError(q[i])
        /\ \A j \in 1..Len(r) : r[j].id # q[i].id
        => \/ Len(r) < Len(q)
           \/ \A j \in 1..Len(r) : IsError(r[j])

LEMMA DismissStays ==
    ASSUME QueueOf(toasts, Notices), NEW id
    PROVE  Stays(toasts, Dismiss(toasts, id))
<1>1. Dismiss(toasts, id) = toasts \/ Len(Dismiss(toasts, id)) < Len(toasts)
  BY DismissOne
<1> QED  BY <1>1 DEF Stays

LEMMA AddStays ==
    ASSUME QueueOf(toasts, Notices), NEW n \in Notices
    PROVE  Stays(toasts, Add(toasts, n))
<1>1. \/ \A m \in 1..Len(toasts) : IsError(toasts[m]) =>
           \E j \in 1..Len(Add(toasts, n)) : Add(toasts, n)[j].id = toasts[m].id
      \/ \A j \in 1..Len(Add(toasts, n)) : IsError(Add(toasts, n)[j])
  BY AddOne
<1> QED  BY <1>1 DEF Stays

LEMMA ReportStays ==
    ASSUME QueueOf(toasts, Notices), NEW variant \in {"error", "success"}
    PROVE  Stays(toasts, Report(toasts, variant))
<1>1. Len(toasts) \in 0..MaxVisible
  BY Numbers DEF QueueOf
<1>2. NewToast(toasts) \in Ids
  BY <1>1, NewToastTyped DEF Ids
<1>3. Notice(NewToast(toasts), variant, NoJob) \in Notices
  BY <1>2, NoJobTyped DEF Notices, Notice
<1> QED  BY <1>3, AddStays DEF Report

\* A rendering may dismiss a notice.
LEMMA ShowToasts ==
    ASSUME NEW r, NEW pg, NEW st, NEW ld, NEW ed, NEW js, NEW ts,
           Show(r, pg, st, ld, ed, js, ts)
    PROVE  toasts' = ts \/ \E id : toasts' = Dismiss(ts, id)
<1>1. \E w : Render(w, js, ts)
  BY DEF Show
<1> QED  BY <1>1 DEF Render, Leave, Reset

\* How the queue changes in a step.
QueueStep ==
    \/ toasts' = toasts
    \/ \E id : toasts' = Dismiss(toasts, id)
    \/ \E variant \in {"error", "success"} : toasts' = Report(toasts, variant)
    \/ \E n \in Notices : toasts' = Add(toasts, n)

LEMMA ToastsStep ==
    ASSUME TypeInv, [Next]_vars
    PROVE  QueueStep
<1>1. ASSUME toasts' = toasts PROVE QueueStep
  BY <1>1 DEF QueueStep
<1>2. ASSUME NEW id, toasts' = Dismiss(toasts, id) PROVE QueueStep
  BY <1>2 DEF QueueStep
<1>3. ASSUME toasts' = Report(toasts, "error") \/ toasts' = Report(toasts, "success") PROVE QueueStep
  BY <1>3 DEF QueueStep
<1>4. ASSUME NEW n \in Notices, toasts' = Add(toasts, n) PROVE QueueStep
  BY <1>4 DEF QueueStep
<1>5. ASSUME NEW r, NEW pg, NEW st, NEW ld, NEW ed, NEW js,
             Show(r, pg, st, ld, ed, js, toasts)
      PROVE  QueueStep
  BY <1>5, ShowToasts DEF QueueStep
<1>6. CASE UNCHANGED vars
  BY <1>1, <1>6 DEF vars, reviewVars
<1>7. CASE UserActs
  <2>1. CASE Reviews
    <3>1. ASSUME NEW t \in Texts, Type(t) PROVE QueueStep
      BY <1>2, <3>1 DEF Type
    <3>2. ASSUME NEW n \in 1..Len(toasts), Again(n) PROVE QueueStep
      BY <1>2, <3>2 DEF Again
    <3>3. ASSUME NEW n \in 1..Len(toasts), Close(n) PROVE QueueStep
      BY <1>2, <3>3 DEF Close
    <3>4. ASSUME NEW t \in Texts, Comment(t) PROVE QueueStep
      BY <1>1, <3>4 DEF Comment
    <3>5. ASSUME NEW m \in Marks, Rate(m) PROVE QueueStep
      BY <1>1, <3>5 DEF Rate
    <3>6. CASE Unrate
      BY <1>1, <3>6 DEF Unrate
    <3> QED  BY <2>1, <3>1, <3>2, <3>3, <3>4, <3>5, <3>6 DEF Reviews
  <2>2. ASSUME NEW r \in Routes, Go(r) PROVE QueueStep
    <3> DEFINE st == IF r = Home THEN "ready" ELSE status
    <3>1. Show(r, page, st, load, edit, jobs, toasts)
      BY <2>2 DEF Go
    <3> HIDE DEF st
    <3> QED  BY <1>5, <3>1
  <2>3. CASE ~Reviews /\ ~ \E r \in Routes : Go(r)
    <3>1. ASSUME NEW j, NEW ed, NEW fm, NEW dp, Begin(j, ed, fm, dp) PROVE QueueStep
      BY <1>1, <3>1 DEF Begin
    <3>2. ASSUME NEW ed, Edits(ed) PROVE QueueStep
      BY <1>1, <3>2 DEF Edits, reviewVars
    <3>3. CASE Refresh \/ (\E p \in PlanIds : Duplicate(p)) \/ CancelDuplicate
      BY <1>1, <3>3 DEF Refresh, Duplicate, CancelDuplicate, reviewVars
    <3>4. CASE OpenNotes \/ (\E t \in Texts : DraftNotes(t)) \/ CloseNotes
      BY <3>2, <3>4 DEF OpenNotes, DraftNotes, CloseNotes
    <3>5. CASE CommitNotes \/ Submit \/ ConfirmDuplicate
      BY <3>1, <3>5 DEF CommitNotes, Submit, ConfirmDuplicate
    <3>6. ASSUME NEW s \in Statuses, PickStatus(s) PROVE QueueStep
      BY <3>1, <3>6 DEF PickStatus
    <3>7. ASSUME NEW n \in 1..MaxDays, PickEnd(n) PROVE QueueStep
      BY <3>1, <3>7 DEF PickEnd
    <3>8. ASSUME NEW p \in PlanIds, Delete(p) PROVE QueueStep
      BY <3>1, <3>8 DEF Delete
    <3> QED  BY <1>7, <2>3, <3>3, <3>4, <3>5, <3>6, <3>7, <3>8 DEF UserActs
  <2> QED  BY <2>1, <2>2, <2>3
<1>8. CASE \E p \in PlanIds : Elsewhere(p)
  BY <1>1, <1>8 DEF Elsewhere
<1>9. CASE ServeLoad \/ Loaded \/ LoadFailed
  <2>1. CASE ServeLoad
    BY <1>1, <2>1 DEF ServeLoad, reviewVars
  <2>2. CASE Loaded \/ LoadFailed
    <3>1. PICK pg, st : Show(route, pg, st, NoLoad, edit, jobs, toasts)
      BY <2>2 DEF Loaded, LoadFailed
    <3> QED  BY <1>5, <3>1
  <2> QED  BY <1>9, <2>1, <2>2
<1>10. ASSUME NEW k \in Slots, Serve(k)
       PROVE  QueueStep
  BY <1>1, <1>10 DEF Serve, Due, ServeReview, ServePatch, ServeNew, ServeDelete, Serving
<1>11. ASSUME NEW k \in Slots, Answered(k)
       PROVE  QueueStep
  <2>1. CASE RetroSaved(k)
    BY <1>2, <2>1 DEF RetroSaved
  <2>2. CASE RateSaved(k)
    BY <1>1, <2>2 DEF RateSaved
  <2>3. CASE PatchDone(k) \/ Created(k) \/ Cloned(k)
    BY <1>5, <2>3 DEF PatchDone, Created, Cloned
  <2>4. CASE Deleted(k)
    <3>1. CASE jobs[k].mark # "loaded"
      BY <1>3, <2>4, <3>1 DEF Deleted
    <3>2. CASE jobs[k].mark = "loaded"
      <4>1. toasts' = Report(toasts, "success")
        <5>1. /\ Render(Rateable(WeekView(Home, NoPage, "ready")), End(k), Report(toasts, "success"))
              /\ Rateable(WeekView(Home, NoPage, "ready")) = NoPage
          BY <2>4, <3>2, EmptyTyped DEF Deleted, Show, WeekView, Rateable
        <5> QED  BY <5>1, EmptyTyped DEF Render, Leave
      <4> QED  BY <1>3, <4>1
    <3> QED  BY <3>1, <3>2
  <2> QED  BY <1>11, <2>1, <2>2, <2>3, <2>4 DEF Answered
<1>12. ASSUME NEW k \in Slots, Fails(k)
       PROVE  QueueStep
  <2>1. CASE RetroFailed(k)
    <3> DEFINE last == tries[jobs[k].inst] + 1 >= MaxAttempts
               a == IF last THEN [jobs[k] EXCEPT !.st = "sent"] ELSE NoJob
               n == Notice(RetroToast(jobs[k].plan), "error", a)
    <3>1. jobs[k].kind = "retro" /\ toasts' = Add(toasts, n)
      BY <2>1 DEF RetroFailed
    <3>2. n \in Notices
      BY <3>1, RetryNotice
    <3> HIDE DEF n
    <3> QED  BY <1>4, <3>1, <3>2
  <2>2. CASE RateFailed(k) \/ PatchFailed(k) \/ CreateFailed(k) \/ CloneFailed(k) \/ DeleteFailed(k)
    BY <1>1, <1>3, <2>2 DEF RateFailed, PatchFailed, CreateFailed, CloneFailed, DeleteFailed
  <2> QED  BY <1>12, <2>1, <2>2 DEF Fails
<1> QED  BY <1>6, <1>7, <1>8, <1>9, <1>10, <1>11, <1>12 DEF Next

LEMMA StaysStep ==
    ASSUME TypeInv, [Next]_vars
    PROVE  Stays(toasts, toasts')
<1>1. QueueOf(toasts, Notices)
  BY ReviewIs DEF TypeInv
<1>2. Stays(toasts, toasts)
  BY DEF Stays
<1>3. CASE toasts' = toasts
  BY <1>2, <1>3
<1>4. CASE \E id : toasts' = Dismiss(toasts, id)
  BY <1>1, <1>4, DismissStays
<1>5. CASE \E variant \in {"error", "success"} : toasts' = Report(toasts, variant)
  BY <1>1, <1>5, ReportStays
<1>6. CASE \E n \in Notices : toasts' = Add(toasts, n)
  BY <1>1, <1>6, AddStays
<1> QED  BY <1>3, <1>4, <1>5, <1>6, ToastsStep DEF QueueStep

\* An error is given up only when a notice is dismissed or the queue is full of
\* errors (capQueue), for every size of the queue.
THEOREM ErrorsHold == Spec => ErrorsStay
<1>1. Init => TypeInv
  BY TypeInit
<1>2. TypeInv /\ [Next]_vars => TypeInv'
  BY TypeStep
<1>3. TypeInv /\ [Next]_vars =>
        [\A i \in 1..Len(toasts) :
            /\ IsError(toasts[i])
            /\ \A j \in 1..Len(toasts') : toasts'[j].id # toasts[i].id
            => \/ Len(toasts') < Len(toasts)
               \/ \A j \in 1..Len(toasts') : IsError(toasts'[j])]_vars
  BY StaysStep DEF Stays
<1> QED  BY <1>1, <1>2, <1>3, PTL DEF Spec, ErrorsStay

(***************************************************************************)
(* The URL and the loader.                                                 *)
(***************************************************************************)
\* The loader was asked again, or knows the plan of the URL already.
LEMMA ShowUrl ==
    ASSUME NEW r \in Routes, NEW pg \in Pages, NEW st, NEW ld, NEW ed, NEW js, NEW ts,
           Show(r, pg, st, ld, ed, js, ts),
           r = route /\ pg.plan = page.plan /\ r \in PlanIds =>
               /\ ld.st # "none" => ld.plan = r
               /\ ld.st = "none" /\ st = "ready" => pg.plan = r
    PROVE  UrlInv'
<1>1. /\ route' = r /\ page' = pg /\ status' = st
      /\ load' = IF r # route \/ pg.plan # page.plan THEN Loading(r, pg) ELSE ld
  BY DEF Show
<1>2. CASE r # route \/ pg.plan # page.plan
  <2>1. r \in PlanIds => load'.plan = r /\ load'.st = "asked"
    <3>1. r \in PlanIds => r \in 0..MaxPlan
      BY Numbers DEF PlanIds
    <3> QED  BY <1>1, <1>2, <3>1, LoadingTyped, AskIs
  <2> QED  BY <1>1, <2>1 DEF UrlInv
<1>3. CASE ~(r # route \/ pg.plan # page.plan)
  BY <1>1, <1>3 DEF UrlInv
<1> QED  BY <1>2, <1>3

LEMMA UrlStays ==
    ASSUME UrlInv, UNCHANGED <<route, page, status, load>>
    PROVE  UrlInv'
BY DEF UrlInv

LEMMA ReloadUrl ==
    ASSUME TypeInv, UNCHANGED <<route, page, status>>, load' = Loading(route, page)
    PROVE  UrlInv'
<1>1. route \in PlanIds => load'.plan = route /\ load'.st = "asked"
  <2>1. route \in PlanIds => route \in 0..MaxPlan
    BY Numbers DEF PlanIds
  <2> QED  BY <2>1, LoadingTyped, AskIs, PageIs DEF PageOf
<1> QED  BY <1>1 DEF UrlInv

LEMMA UrlStep ==
    ASSUME TypeInv, UrlInv, [Next]_vars
    PROVE  UrlInv'
<1>1. page \in Pages /\ NoPage \in Pages /\ NoPage.plan = 0 /\ Home \in Routes /\ Home \notin PlanIds
  BY PageIs, EmptyTyped, Numbers DEF PageOf, Home, Routes, PlanIds
<1>2. CASE UNCHANGED vars
  BY <1>2, UrlStays DEF vars, pageVars
<1>3. CASE UserActs
  <2>1. ASSUME NEW r \in Routes, Go(r) PROVE UrlInv'
    <3> DEFINE st == IF r = Home THEN "ready" ELSE status
    <3>1. Show(r, page, st, load, edit, jobs, toasts) /\ r # route
      BY <2>1 DEF Go
    <3> HIDE DEF st
    <3> QED  BY <1>1, <3>1, ShowUrl
  <2>2. CASE Refresh
    BY <2>2, ReloadUrl DEF Refresh
  <2>3. CASE Reviews
    BY <2>3, UrlStays DEF Reviews, pageVars
  <2>4. ASSUME NEW ed, Edits(ed) PROVE UrlInv'
    BY <2>4, UrlStays DEF Edits
  <2>5. CASE OpenNotes \/ (\E t \in Texts : DraftNotes(t)) \/ CloseNotes
    BY <2>4, <2>5 DEF OpenNotes, DraftNotes, CloseNotes
  <2>6. ASSUME NEW j, NEW ed, NEW fm, NEW dp, Begin(j, ed, fm, dp) PROVE UrlInv'
    BY <2>6, UrlStays DEF Begin
  <2>7. CASE CommitNotes \/ Submit \/ ConfirmDuplicate
    BY <2>6, <2>7 DEF CommitNotes, Submit, ConfirmDuplicate
  <2>8. ASSUME NEW s \in Statuses, PickStatus(s) PROVE UrlInv'
    BY <2>6, <2>8 DEF PickStatus
  <2>9. ASSUME NEW n \in 1..MaxDays, PickEnd(n) PROVE UrlInv'
    BY <2>6, <2>9 DEF PickEnd
  <2>10. ASSUME NEW p \in PlanIds, Delete(p) \/ Duplicate(p) PROVE UrlInv'
    BY <2>6, <2>10, UrlStays DEF Delete, Duplicate
  <2>11. CASE CancelDuplicate
    BY <2>11, UrlStays DEF CancelDuplicate
  <2> QED  BY <1>3, <2>1, <2>2, <2>3, <2>5, <2>7, <2>8, <2>9, <2>10, <2>11 DEF UserActs
<1>4. CASE \E p \in PlanIds : Elsewhere(p)
  BY <1>4, UrlStays DEF Elsewhere, pageVars
<1>5. CASE ServeLoad
  <2>1. /\ UNCHANGED <<route, page, status>> /\ load'.st = "answered"
        /\ load.plan # 0 => load'.plan = load.plan
    <3>1. \A l \in Loads, r \in RowType :
            /\ [l EXCEPT !.st = "answered", !.row = r].plan = l.plan
            /\ [l EXCEPT !.st = "answered", !.row = r].st = "answered"
      BY DEF Loads
    <3>2. \A l \in Loads : [l EXCEPT !.st = "answered"].st = "answered"
      BY DEF Loads
    <3>3. load \in Loads /\ (load.plan # 0 => plans[load.plan] \in RowType)
      BY PageIs, ReviewIs, Numbers DEF LoadOf, Loads, TypeInv, PlanIds
    <3>4. CASE load.plan # 0 /\ load' = [load EXCEPT !.st = "answered", !.row = plans[load.plan]]
      BY <1>5, <3>1, <3>3, <3>4 DEF ServeLoad
    <3>5. CASE load' = [load EXCEPT !.st = "answered"] /\ load.plan = 0
      BY <1>5, <3>2, <3>3, <3>5 DEF ServeLoad
    <3>6. ASSUME NEW p \in PlanIds, load' = [st |-> "answered", plan |-> p, row |-> plans[p]],
                 load.plan = 0
          PROVE  load'.st = "answered" /\ (load.plan # 0 => load'.plan = load.plan)
      BY <3>6
    <3>7. UNCHANGED <<route, page, status>>
      BY <1>5 DEF ServeLoad
    <3>8. \/ load.plan # 0 /\ load' = [load EXCEPT !.st = "answered", !.row = plans[load.plan]]
          \/ load' = [load EXCEPT !.st = "answered"] /\ load.plan = 0
          \/ load.plan = 0 /\ \E p \in PlanIds :
                load' = [st |-> "answered", plan |-> p, row |-> plans[p]]
      BY <1>5 DEF ServeLoad
    <3> QED  BY ONLY <3>4, <3>5, <3>6, <3>7, <3>8
  <2>2. load.st # "none"
    BY <1>5 DEF ServeLoad
  <2>3. route \in PlanIds => load.plan = route /\ route # 0
    BY <2>2, Numbers DEF UrlInv, PlanIds
  <2> QED  BY <2>1, <2>3 DEF UrlInv
<1>6. CASE Loaded \/ LoadFailed
  <2>1. NoLoad.st = "none" /\ load.st # "none"
    BY <1>6, EmptyTyped DEF Loaded, LoadFailed
  <2>2. route \in PlanIds => load.plan = route /\ route # 0
    BY <2>1, Numbers DEF UrlInv, PlanIds
  <2>3. CASE Loaded /\ load.row.status \in Statuses
    <3> DEFINE pg == [plan |-> load.plan, row |-> load.row]
    <3>1. Show(route, pg, "ready", NoLoad, edit, jobs, toasts)
      BY <2>3 DEF Loaded
    <3>2. pg \in Pages /\ pg.plan = load.plan
      BY PageIs DEF LoadOf, Loads, Pages
    <3> HIDE DEF pg
    <3> QED  BY <2>1, <2>2, <3>1, <3>2, ShowUrl, PageIs
  <2>4. ASSUME NEW st, Show(route, page, st, NoLoad, edit, jobs, toasts),
               route \in PlanIds => st # "ready"
        PROVE  UrlInv'
    BY <1>1, <2>1, <2>4, ShowUrl, PageIs
  <2>5. CASE Loaded /\ load.row.status \notin Statuses
    <3> DEFINE st == CASE load.plan # 0 -> "error"
                       [] load.plan = 0 /\ route = New -> status
                       [] load.plan = 0 /\ route # New -> "empty"
    <3>1. Show(route, page, st, NoLoad, edit, jobs, toasts)
      BY <2>5 DEF Loaded
    <3>2. route \in PlanIds => st # "ready"
      BY <2>2
    <3> HIDE DEF st
    <3> QED  BY <2>4, <3>1, <3>2
  <2>6. CASE LoadFailed
    BY <2>4, <2>6 DEF LoadFailed
  <2> QED  BY <1>6, <2>3, <2>5, <2>6
<1>7. ASSUME NEW k \in Slots, Serve(k)
      PROVE  UrlInv'
  BY <1>7, UrlStays DEF Serve, ServePatch, ServeNew, ServeDelete, Serving, pageVars
<1>8. ASSUME NEW k \in Slots, Answered(k)
      PROVE  UrlInv'
  <2>1. CASE RetroSaved(k) /\ UNCHANGED pageVars
    BY <2>1, UrlStays DEF pageVars
  <2>2. CASE RateSaved(k) /\ load' = Loading(route, page) /\ UNCHANGED <<route, page, status>>
    BY <2>2, ReloadUrl
  <2>3. CASE PatchDone(k)
    <3> DEFINE ed == IF edit.job = k THEN [edit EXCEPT !.open = FALSE, !.job = 0] ELSE edit
               pg == [plan |-> jobs[k].plan, row |-> jobs[k].row]
    <3>1. Show(route, pg, status, load, ed, End(k), toasts) /\ jobs[k].st = "done"
      BY <2>3 DEF PatchDone
    <3>2. pg \in Pages
      BY <3>1, AnswerPage DEF PageOf
    <3> HIDE DEF ed, pg
    <3> QED  BY <3>1, <3>2, ShowUrl, PageIs DEF UrlInv
  <2>4. CASE Created(k)
    <3> DEFINE pg == [plan |-> jobs[k].plan, row |-> jobs[k].row]
    <3>1. /\ Show(jobs[k].plan, pg, "ready", load, edit, End(k), toasts)
          /\ jobs[k].st = "done" /\ pg.plan = jobs[k].plan
      BY <2>4 DEF Created
    <3>2. pg \in Pages /\ jobs[k].plan \in Routes
      BY <3>1, AnswerPage DEF PageOf
    <3> HIDE DEF pg
    <3> QED  BY <3>1, <3>2, ShowUrl DEF UrlInv
  <2>5. CASE Cloned(k)
    <3>1. /\ Show(jobs[k].plan, page, status, load, edit, End(k), toasts)
          /\ jobs[k].st = "done"
      BY <2>5 DEF Cloned
    <3>2. jobs[k].plan \in Routes
      BY <3>1, AnswerPage
    <3> QED  BY <1>1, <3>1, <3>2, ShowUrl DEF UrlInv
  <2>6. CASE Deleted(k)
    <3>1. CASE jobs[k].mark = "loaded"
      <4>1. Show(Home, NoPage, "ready", load, edit, End(k), Report(toasts, "success"))
        BY <2>6, <3>1 DEF Deleted
      <4> QED  BY <1>1, <4>1, ShowUrl
    <3>2. CASE jobs[k].mark # "loaded"
      BY <2>6, <3>2, UrlStays DEF Deleted
    <3> QED  BY <3>1, <3>2
  <2> QED  BY <1>8, <2>1, <2>2, <2>3, <2>4, <2>5, <2>6 DEF Answered
<1>9. ASSUME NEW k \in Slots, Fails(k)
      PROVE  UrlInv'
  BY <1>9, UrlStays DEF Fails, PatchFailed, CreateFailed, CloneFailed, DeleteFailed, pageVars
<1> QED  BY <1>2, <1>3, <1>4, <1>5, <1>6, <1>7, <1>8, <1>9 DEF Next

LEMMA UrlInit ==
    ASSUME Init
    PROVE  UrlInv
<1>1. NoPage \in Pages /\ route \in Routes /\ load = Loading(route, NoPage)
  BY EmptyTyped, TypeInit DEF Init, TypeInv, PageTypes
<1>2. route \in PlanIds => load.plan = route /\ load.st = "asked"
  <2>1. route \in PlanIds => route \in 0..MaxPlan
    BY Numbers DEF PlanIds
  <2> QED  BY <1>1, <2>1, LoadingTyped, AskIs
<1> QED  BY <1>2 DEF UrlInv

\* Once the loader has finished, the URL of a plan shows that plan, for every
\* number of plans, requests and answers that come late (App.tsx, the loader's
\* effect and setWeek).
THEOREM UrlHolds == Spec => []UrlWins
<1>1. Init => TypeInv /\ UrlInv
  BY TypeInit, UrlInit
<1>2. TypeInv /\ UrlInv /\ [Next]_vars => (TypeInv /\ UrlInv)'
  BY TypeStep, UrlStep
<1>3. UrlInv => UrlWins
  BY DEF UrlInv, UrlWins
<1> QED  BY <1>1, <1>2, <1>3, PTL DEF Spec

(***************************************************************************)
(* Saves of the retrospective.                                             *)
(***************************************************************************)
\* A step that begins no save: what is left of them is what they were, the
\* attempts of an instance are counted as before or anew, and the field keeps
\* its text and its debounce unless that is stopped.
RetroKept == \A k \in Slots : jobs'[k].kind = "retro" =>
    /\ jobs[k].kind = "retro" /\ jobs'[k].inst = jobs[k].inst
    /\ jobs'[k].plan = jobs[k].plan /\ jobs'[k].text = jobs[k].text
    /\ jobs'[k].st = "wait" => jobs[k].st = "wait"
TriesKept == \A i \in Insts : tries'[i] \in {0, tries[i]}
FieldKept ==
    \/ props'.plan = props.plan /\ retro'.value = retro.value /\ retro'.waiting = retro.waiting
    \/ \A k \in Slots : k = retro.waiting => jobs'[k].st # "wait"
Quietly == RetroKept /\ TriesKept /\ FieldKept

\* Slots that are left as they are, or hold no save any more.
Fewer(js) == \A k \in Slots : js[k] = jobs[k] \/ js[k].kind # "retro"

LEMMA StopIs ==
    ASSUME NEW js, NEW handles, NEW k \in Slots
    PROVE  /\ Stop(js, handles)[k] = js[k] \/ Stop(js, handles)[k] = NoJob
           /\ k \in handles => Stop(js, handles)[k].st # "wait"
           /\ NoJob.kind = "none" /\ NoJob.st = "none"
BY DEF Stop, NoJob

LEMMA EndIs ==
    ASSUME TypeInv, NEW k \in Slots
    PROVE  \A l \in Slots : End(k)[l] = IF l = k THEN NoJob ELSE jobs[l]
BY ReviewIs DEF TypeInv, End

LEMMA FewerKept ==
    ASSUME NEW js, Fewer(js), \A k \in Slots : jobs'[k] = js[k] \/ jobs'[k].kind # "retro"
    PROVE  RetroKept
BY DEF Fewer, RetroKept

LEMMA EndFewer ==
    ASSUME TypeInv, NEW k \in Slots
    PROVE  Fewer(End(k))
BY EndIs DEF Fewer, NoJob

\* A rendering stops the debounce, or leaves the field alone.
LEMMA RenderQuietly ==
    ASSUME TypeInv, NEW pg, NEW js, NEW ts, Fewer(js), Render(pg, js, ts)
    PROVE  Quietly
<1>1. tries \in [Insts -> Nat] /\ retro.inst \in Insts
  BY ReviewIs DEF TypeInv
<1>2. CASE pg.plan = props.plan /\ pg.row.retro = props.row.retro
  <2>1. jobs' = js /\ UNCHANGED <<retro, tries>> /\ props' = pg
    BY <1>2 DEF Render
  <2>2. RetroKept
    BY <2>1, FewerKept
  <2> QED  BY <1>2, <2>1, <2>2 DEF Quietly, TriesKept, FieldKept
<1>3. CASE ~(pg.plan = props.plan /\ pg.row.retro = props.row.retro)
  <2>1. /\ jobs' = Stop(js, {retro.waiting, retro.retrying})
        /\ \E i : tries' = [tries EXCEPT ![i] = 0]
    BY <1>3 DEF Render, Leave, Reset
  <2>2. RetroKept /\ FieldKept
    <3>1. RetroKept
      BY <2>1, StopIs, FewerKept
    <3>2. FieldKept
      BY <2>1, StopIs DEF FieldKept
    <3> QED  BY <3>1, <3>2
  <2>3. TriesKept
    BY <1>1, <2>1 DEF TriesKept
  <2> QED  BY <2>2, <2>3 DEF Quietly
<1> QED  BY <1>2, <1>3

LEMMA ShowQuietly ==
    ASSUME TypeInv, NEW r, NEW pg, NEW st, NEW ld, NEW ed, NEW js, NEW ts, Fewer(js),
           Show(r, pg, st, ld, ed, js, ts)
    PROVE  Quietly
<1>1. \E w : Render(w, js, ts)
  BY DEF Show
<1> QED  BY <1>1, RenderQuietly

\* A step that leaves the controls alone.
LEMMA FewerQuietly ==
    ASSUME UNCHANGED <<props, retro, tries>>, Fewer(jobs')
    PROVE  Quietly
<1>1. RetroKept
  BY FewerKept
<1> QED  BY <1>1 DEF Quietly, TriesKept, FieldKept

\* A job is put in a slot, once others have been stopped.
LEMMA PutFewer ==
    ASSUME TypeInv, NEW handles, NEW k \in Slots, NEW j, j.kind # "retro",
           \/ jobs' = [jobs EXCEPT ![k] = j]
           \/ jobs' = [Stop(jobs, handles) EXCEPT ![k] = j]
    PROVE  Fewer(jobs')
<1>1. jobs \in [Slots -> Jobs]
  BY ReviewIs DEF TypeInv
<1>2. CASE jobs' = [jobs EXCEPT ![k] = j]
  BY <1>1, <1>2 DEF Fewer
<1>3. CASE jobs' = [Stop(jobs, handles) EXCEPT ![k] = j]
  <2> DEFINE s == Stop(jobs, handles)
  <2>1. s \in [Slots -> Jobs]
    BY <1>1, StopTyped
  <2>2. \A l \in Slots : s[l] = jobs[l] \/ s[l].kind # "retro"
    BY StopIs
  <2> HIDE DEF s
  <2>3. jobs' = [s EXCEPT ![k] = j]
    BY <1>3 DEF s
  <2> QED  BY <2>1, <2>2, <2>3 DEF Fewer
<1> QED  BY <1>2, <1>3

\* A request moves on.
LEMMA MovedKept ==
    ASSUME TypeInv, NEW k \in Slots, NEW st, st # "wait", jobs' = [jobs EXCEPT ![k].st = st]
    PROVE  RetroKept
<1>1. jobs \in [Slots -> Jobs]
  BY ReviewIs DEF TypeInv
<1>2. \A j \in Jobs : /\ [j EXCEPT !.st = st].kind = j.kind /\ [j EXCEPT !.st = st].inst = j.inst
                      /\ [j EXCEPT !.st = st].plan = j.plan /\ [j EXCEPT !.st = st].text = j.text
                      /\ [j EXCEPT !.st = st].st = st
  BY DEF Jobs, JobType
<1>3. jobs' = [jobs EXCEPT ![k] = [jobs[k] EXCEPT !.st = st]]
  BY <1>1
<1>4. \A l \in Slots : jobs'[l] = IF l = k THEN [jobs[k] EXCEPT !.st = st] ELSE jobs[l]
  BY <1>1, <1>3
<1> QED  BY <1>1, <1>2, <1>4 DEF RetroKept

\* Only typing, the Retry button of a notice and a failure do more.
LEMMA SaveSteps ==
    ASSUME TypeInv, [Next]_vars
    PROVE  \/ \E t \in Texts : Type(t)
           \/ \E n \in 1..Len(toasts) : Again(n)
           \/ \E k \in Slots : RetroFailed(k)
           \/ Quietly
<1>1. Fewer(jobs)
  BY DEF Fewer
<1>2. ASSUME UNCHANGED <<jobs, props, retro, tries>> PROVE Quietly
  BY <1>1, <1>2, FewerQuietly
<1>3. CASE UNCHANGED vars
  BY <1>2, <1>3 DEF vars, reviewVars
<1>4. CASE UserActs
  <2>1. CASE Reviews
    <3>1. ASSUME NEW n, Close(n) PROVE Quietly
      BY <1>2, <3>1 DEF Close
    <3>2. ASSUME NEW k \in Slots, NEW j, j.kind # "retro", NEW handles,
                 \/ jobs' = [jobs EXCEPT ![k] = j]
                 \/ jobs' = [Stop(jobs, handles) EXCEPT ![k] = j],
                 UNCHANGED <<props, retro, tries>>
          PROVE  Quietly
      BY <3>2, PutFewer, FewerQuietly
    <3>3. \A p, t, m : Job("rate", p, t, m).kind # "retro" /\ Job("unrate", p, t, m).kind # "retro"
                       /\ Later(Job("rate", p, t, m)).kind # "retro"
      BY DEF Job, Later
    <3>4. ASSUME NEW t \in Texts, Comment(t) PROVE Quietly
      <4>1. PICK k \in Slots : jobs' = [Stop(jobs, {verdict.timer}) EXCEPT
                ![k] = Later(Job("rate", props.plan, t, verdict.mark))]
        BY <3>4 DEF Comment
      <4>2. UNCHANGED <<props, retro, tries>>
        BY <3>4 DEF Comment
      <4> QED  BY <3>2, <3>3, <4>1, <4>2
    <3>5. ASSUME NEW m \in Marks, Rate(m) PROVE Quietly
      <4>1. PICK k \in Slots : jobs' = [Stop(jobs, {verdict.timer}) EXCEPT
                ![k] = Job("rate", props.plan, verdict.words, m)]
        BY <3>5 DEF Rate
      <4>2. UNCHANGED <<props, retro, tries>>
        BY <3>5 DEF Rate
      <4> QED  BY <3>2, <3>3, <4>1, <4>2
    <3>6. CASE Unrate
      <4>1. PICK k \in Slots : jobs' = [jobs EXCEPT ![k] = Job("unrate", props.plan, 0, "none")]
        BY <3>6 DEF Unrate
      <4>2. UNCHANGED <<props, retro, tries>>
        BY <3>6 DEF Unrate
      <4> QED  BY <3>2, <3>3, <4>1, <4>2
    <3> QED  BY <2>1, <3>1, <3>4, <3>5, <3>6 DEF Reviews
  <2>2. ASSUME NEW r \in Routes, Go(r) PROVE Quietly
    <3> DEFINE st == IF r = Home THEN "ready" ELSE status
    <3>1. Show(r, page, st, load, edit, jobs, toasts)
      BY <2>2 DEF Go
    <3> HIDE DEF st
    <3> QED  BY <1>1, <3>1, ShowQuietly
  <2>3. ASSUME NEW kind, kind # "retro", NEW p, NEW t, NEW m, NEW ed, NEW fm, NEW dp,
               Begin(Job(kind, p, t, m), ed, fm, dp)
        PROVE  Quietly
    <3>1. PICK k \in Slots : jobs' = [jobs EXCEPT ![k] = Job(kind, p, t, m)]
      BY <2>3 DEF Begin
    <3>2. Job(kind, p, t, m).kind # "retro"
      BY <2>3 DEF Job
    <3> QED  BY <2>3, <3>1, <3>2, PutFewer, FewerQuietly DEF Begin, editorVars
  <2>5. CASE Refresh \/ (\E p \in PlanIds : Duplicate(p)) \/ CancelDuplicate
    BY <1>2, <2>5 DEF Refresh, Duplicate, CancelDuplicate, reviewVars
  <2>6. CASE OpenNotes \/ (\E t \in Texts : DraftNotes(t)) \/ CloseNotes
    BY <1>2, <2>6 DEF OpenNotes, DraftNotes, CloseNotes, Edits, reviewVars
  <2>7. CASE CommitNotes \/ Submit \/ ConfirmDuplicate
    BY <2>3, <2>7 DEF CommitNotes, Submit, ConfirmDuplicate
  <2>8. ASSUME NEW s \in Statuses, PickStatus(s) PROVE Quietly
    BY <2>3, <2>8 DEF PickStatus
  <2>9. ASSUME NEW n \in 1..MaxDays, PickEnd(n) PROVE Quietly
    BY <2>3, <2>9 DEF PickEnd
  <2>10. ASSUME NEW p \in PlanIds, Delete(p) PROVE Quietly
    BY <2>3, <2>10 DEF Delete
  <2>11. CASE Reviews \/ \E r \in Routes : Go(r)
    BY <2>1, <2>2, <2>11
  <2> QED  BY <1>4, <2>1, <2>2, <2>5, <2>6, <2>7, <2>8, <2>9, <2>10 DEF UserActs
<1>5. CASE \E p \in PlanIds : Elsewhere(p)
  BY <1>2, <1>5 DEF Elsewhere, editorVars
<1>6. CASE ServeLoad
  BY <1>2, <1>6 DEF ServeLoad, reviewVars
<1>7. CASE Loaded \/ LoadFailed
  <2>1. PICK pg, st : Show(route, pg, st, NoLoad, edit, jobs, toasts)
    BY <1>7 DEF Loaded, LoadFailed
  <2> QED  BY <1>1, <2>1, ShowQuietly
<1>8. ASSUME NEW k \in Slots, Serve(k)
      PROVE  Quietly
  <2>1. jobs \in [Slots -> Jobs] /\ retro \in Retros
    BY ReviewIs DEF TypeInv
  <2>2. CASE Due(k)
    <3>1. /\ jobs' = [jobs EXCEPT ![k].st = "sent"] /\ UNCHANGED <<props, tries>>
          /\ retro' = [retro EXCEPT !.waiting = IF @ = k THEN 0 ELSE @,
                                    !.retrying = IF @ = k THEN 0 ELSE @]
      BY <2>2 DEF Due
    <3>2. RetroKept
      BY <3>1, MovedKept
    <3>3. retro'.value = retro.value /\ (retro.waiting # k => retro'.waiting = retro.waiting)
      BY <2>1, <3>1 DEF Retros
    <3>4. jobs'[k].st = "sent"
      BY <2>1, <3>1 DEF Jobs, JobType
    <3> QED  BY <3>1, <3>2, <3>3, <3>4 DEF Quietly, TriesKept, FieldKept
  <2>3. CASE ServeReview(k)
    <3> DEFINE st == IF Live(jobs[k].plan) \/ jobs[k].kind = "unrate" THEN "done" ELSE "refused"
    <3>1. jobs' = [jobs EXCEPT ![k].st = st] /\ UNCHANGED <<props, retro, tries>> /\ st # "wait"
      BY <2>3 DEF ServeReview
    <3> HIDE DEF st
    <3>2. RetroKept
      BY <3>1, MovedKept
    <3> QED  BY <3>1, <3>2 DEF Quietly, TriesKept, FieldKept
  <2>4. CASE ServePatch(k) \/ ServeNew(k) \/ ServeDelete(k)
    <3>1. jobs[k].kind \in Patches \cup {"create", "clone", "delete"} /\ UNCHANGED <<props, retro, tries>>
      BY <2>4 DEF ServePatch, ServeNew, ServeDelete, Serving, editorVars
    <3>2. CASE Refuses(k)
      <4>1. jobs' = [jobs EXCEPT ![k].st = "refused"] /\ "refused" # "wait"
        BY <3>2 DEF Refuses
      <4>2. RetroKept
        BY <4>1, MovedKept
      <4> QED  BY <3>1, <4>2 DEF Quietly, TriesKept, FieldKept
    <3>3. ASSUME NEW p, NEW row, Answers(k, p, row) PROVE Quietly
      <4> DEFINE j == [jobs[k] EXCEPT !.st = "done", !.plan = p, !.row = row]
      <4>1. jobs' = [jobs EXCEPT ![k] = j]
        BY <2>1, <3>3 DEF Answers
      <4>2. j.kind = jobs[k].kind
        <5>1. \A a \in Jobs : [a EXCEPT !.st = "done", !.plan = p, !.row = row].kind = a.kind
          BY DEF Jobs, JobType
        <5> QED  BY <2>1, <5>1
      <4>3. j.kind # "retro"
        BY <3>1, <4>2 DEF Patches
      <4> HIDE DEF j
      <4> QED  BY <3>1, <4>1, <4>3, PutFewer, FewerQuietly
    <3>4. Refuses(k) \/ \E p, row : Answers(k, p, row)
      BY <2>4 DEF ServePatch, ServeNew, ServeDelete
    <3> QED  BY <3>2, <3>3, <3>4
  <2> QED  BY <1>8, <2>2, <2>3, <2>4 DEF Serve
<1>9. ASSUME NEW k \in Slots, Answered(k)
      PROVE  Quietly
  <2>1. Fewer(End(k)) /\ tries \in [Insts -> Nat] /\ retro \in Retros
    BY EndFewer, ReviewIs DEF TypeInv
  <2>2. CASE RetroSaved(k)
    <3>1. /\ jobs' = End(k) /\ tries' = [tries EXCEPT ![jobs[k].inst] = 0] /\ props' = props
          /\ retro' = IF Mine(k) THEN [retro EXCEPT !.saved = jobs[k].text, !.dirty = FALSE] ELSE retro
      BY <2>2 DEF RetroSaved
    <3>2. RetroKept
      BY <2>1, <3>1, FewerKept
    <3>3. retro'.value = retro.value /\ retro'.waiting = retro.waiting
      BY <2>1, <3>1 DEF Retros
    <3>4. TriesKept
      BY <2>1, <3>1 DEF TriesKept
    <3> QED  BY <3>1, <3>2, <3>3, <3>4 DEF Quietly, FieldKept
  <2>3. CASE RateSaved(k)
    BY <2>1, <2>3, FewerQuietly DEF RateSaved
  <2>4. CASE PatchDone(k) \/ Created(k) \/ Cloned(k)
    <3>1. \E r, pg, st, ed : Show(r, pg, st, load, ed, End(k), toasts)
      BY <2>4 DEF PatchDone, Created, Cloned
    <3> QED  BY <2>1, <3>1, ShowQuietly
  <2>5. CASE Deleted(k)
    <3>1. CASE jobs[k].mark = "loaded"
      <4>1. Show(Home, NoPage, "ready", load, edit, End(k), Report(toasts, "success"))
        BY <2>5, <3>1 DEF Deleted
      <4> QED  BY <2>1, <4>1, ShowQuietly
    <3>2. CASE jobs[k].mark # "loaded"
      BY <2>1, <2>5, <3>2, FewerQuietly DEF Deleted, editorVars
    <3> QED  BY <3>1, <3>2
  <2> QED  BY <1>9, <2>2, <2>3, <2>4, <2>5 DEF Answered
<1>10. ASSUME NEW k \in Slots, Fails(k)
       PROVE  RetroFailed(k) \/ Quietly
  <2>1. Fewer(End(k))
    BY EndFewer
  <2>2. CASE RateFailed(k) \/ PatchFailed(k) \/ CreateFailed(k) \/ CloneFailed(k) \/ DeleteFailed(k)
    BY <2>1, <2>2, FewerQuietly DEF RateFailed, PatchFailed, CreateFailed, CloneFailed, DeleteFailed, editorVars
  <2> QED  BY <1>10, <2>2 DEF Fails
<1> QED  BY <1>3, <1>4, <1>5, <1>6, <1>7, <1>8, <1>9, <1>10 DEF Next

LEMMA SlotsFinite == IsFiniteSet(Slots) /\ Cardinality(Slots) = MaxJobs
BY Numbers, FS_Interval DEF Slots

\* The saves that know an instance are as many as there are slots at most.
LEMMA RetroSlots ==
    ASSUME NEW i
    PROVE  /\ IsFiniteSet(RetroJobs(i)) /\ Cardinality(RetroJobs(i)) \in 0..MaxJobs
           /\ \A k \in RetroJobs(i) : IsFiniteSet(RetroJobs(i) \ {k})
                 /\ Cardinality(RetroJobs(i) \ {k}) = Cardinality(RetroJobs(i)) - 1
<1>1. IsFiniteSet(Slots) /\ Cardinality(Slots) = MaxJobs
  BY SlotsFinite
<1>2. RetroJobs(i) \subseteq Slots
  BY DEF RetroJobs
<1>3. IsFiniteSet(RetroJobs(i)) /\ Cardinality(RetroJobs(i)) <= MaxJobs
  BY <1>1, <1>2, FS_Subset
<1>4. Cardinality(RetroJobs(i)) \in Nat
  BY <1>3, FS_CardinalityType
<1> QED  BY <1>3, <1>4, Numbers, FS_RemoveElement

\* An instance whose attempts are counted anew, or that has no more saves than
\* before.
LEMMA RetriesOne ==
    ASSUME TypeInv, NEW i \in Insts,
           tries[i] + Cardinality(RetroJobs(i)) < MaxAttempts + MaxJobs,
           \/ tries'[i] = 0
           \/ tries'[i] = tries[i] /\ RetroJobs(i)' \subseteq RetroJobs(i)
    PROVE  tries'[i] + Cardinality(RetroJobs(i)') < MaxAttempts + MaxJobs
<1>1. tries[i] \in Nat
  BY ReviewIs DEF TypeInv
<1>2. \A c \in 0..MaxJobs : 0 + c < MaxAttempts + MaxJobs
  BY Numbers
<1>3. Cardinality(RetroJobs(i)') \in 0..MaxJobs
  <2>1. IsFiniteSet(Slots) /\ Cardinality(Slots) = MaxJobs
    BY SlotsFinite
  <2>2. RetroJobs(i)' \subseteq Slots
    BY DEF RetroJobs
  <2>3. IsFiniteSet(RetroJobs(i)') /\ Cardinality(RetroJobs(i)') <= MaxJobs
    BY <2>1, <2>2, FS_Subset
  <2> QED  BY <2>3, FS_CardinalityType, Numbers
<1>4. CASE tries'[i] = 0
  BY <1>2, <1>3, <1>4
<1>5. CASE tries'[i] = tries[i] /\ RetroJobs(i)' \subseteq RetroJobs(i)
  <2>1. Cardinality(RetroJobs(i)') <= Cardinality(RetroJobs(i))
    BY <1>5, RetroSlots, FS_Subset
  <2>2. Cardinality(RetroJobs(i)) \in 0..MaxJobs
    BY RetroSlots
  <2> QED  BY <1>1, <1>3, <1>5, <2>1, <2>2, Numbers
<1> QED  BY <1>4, <1>5

LEMMA RetriesStep ==
    ASSUME TypeInv, RetriesInv, [Next]_vars
    PROVE  RetriesInv'
<1>1. retro.inst \in Insts /\ jobs \in [Slots -> Jobs] /\ tries \in [Insts -> Nat]
  BY ReviewIs DEF TypeInv
<1>2. CASE Quietly
  <2>1. ASSUME NEW i \in Insts PROVE RetroJobs(i)' \subseteq RetroJobs(i)
    BY <1>2 DEF Quietly, RetroKept, RetroJobs
  <2> QED  BY <1>2, <2>1, RetriesOne DEF RetriesInv, Quietly, TriesKept
<1>3. ASSUME NEW t \in Texts, Type(t)
      PROVE  RetriesInv'
  <2> DEFINE s == Stop(jobs, {retro.waiting, retro.retrying})
             j == [Later(Job("retro", props.plan, t, "none")) EXCEPT !.inst = retro.inst]
  <2>1. tries' = [tries EXCEPT ![retro.inst] = 0] /\ \E k \in Slots : jobs' = [s EXCEPT ![k] = j]
    BY <1>3 DEF Type
  <2>2. j.inst = retro.inst
    BY DEF Job, Later
  <2>3. /\ s \in [Slots -> Jobs]
        /\ \A l \in Slots : s[l] = jobs[l] \/ s[l].kind # "retro"
    <3>1. \A l \in Slots : s[l] = jobs[l] \/ s[l].kind # "retro"
      BY StopIs
    <3> QED  BY <1>1, <3>1, StopTyped
  <2> HIDE DEF s, j
  <2>4. ASSUME NEW i \in Insts, i # retro.inst PROVE RetroJobs(i)' \subseteq RetroJobs(i)
    BY <2>1, <2>2, <2>3, <2>4 DEF RetroJobs
  <2>5. \A i \in Insts : tries'[i] = IF i = retro.inst THEN 0 ELSE tries[i]
    BY <1>1, <2>1
  <2> QED  BY <2>4, <2>5, RetriesOne DEF RetriesInv
<1>4. ASSUME NEW n \in 1..Len(toasts), Again(n)
      PROVE  RetriesInv'
  <2> DEFINE j == toasts[n].again
  <2>1. tries' = [tries EXCEPT ![j.inst] = 0] /\ \E k \in Slots : jobs' = [jobs EXCEPT ![k] = j]
    BY <1>4 DEF Again
  <2> HIDE DEF j
  <2>2. ASSUME NEW i \in Insts, i # j.inst PROVE RetroJobs(i)' \subseteq RetroJobs(i)
    BY <1>1, <2>1, <2>2 DEF RetroJobs
  <2>3. \A i \in Insts : tries'[i] = IF i = j.inst THEN 0 ELSE tries[i]
    BY <1>1, <2>1
  <2> QED  BY <2>2, <2>3, RetriesOne DEF RetriesInv
<1>5. ASSUME NEW k \in Slots, RetroFailed(k)
      PROVE  RetriesInv'
  <2>0. PICK x \in Insts : x = jobs[k].inst
    BY JobIn
  <2> DEFINE last == tries[x] + 1 >= MaxAttempts
  <2>1. /\ jobs[k].kind = "retro" /\ tries' = [tries EXCEPT ![x] = @ + 1]
        /\ jobs' = IF last THEN End(k) ELSE [jobs EXCEPT ![k].st = "timer"]
    BY <1>5, <2>0 DEF RetroFailed
  <2>2. x \in Insts /\ tries[x] \in Nat
    BY <1>1
  <2>3. RetroKept
    <3>1. CASE last
      BY <2>1, <3>1, EndFewer, FewerKept
    <3>2. CASE ~last
      BY <2>1, <3>2, MovedKept
    <3> QED  BY <3>1, <3>2
  <2>4. \A i \in Insts : RetroJobs(i)' \subseteq RetroJobs(i)
    BY <2>3 DEF RetroKept, RetroJobs
  <2>5. \A i \in Insts : tries'[i] = IF i = x THEN tries[x] + 1 ELSE tries[i]
    BY <1>1, <2>1
  <2>6. tries[x] + 1 + Cardinality(RetroJobs(x)') < MaxAttempts + MaxJobs
    <3>1. Cardinality(RetroJobs(x)) \in 0..MaxJobs
      BY RetroSlots
    <3>2. tries[x] + Cardinality(RetroJobs(x)) < MaxAttempts + MaxJobs
      BY <2>2 DEF RetriesInv
    <3>3. CASE last
      <4>1. \A l \in Slots : jobs'[l] = IF l = k THEN NoJob ELSE jobs[l]
        BY <2>1, <3>3, EndIs
      <4>2. k \in RetroJobs(x) /\ RetroJobs(x)' \subseteq RetroJobs(x) \ {k}
        <5>1. k \in RetroJobs(x)
          BY <2>0, <2>1 DEF RetroJobs
        <5>2. jobs'[k].kind = "none"
          BY <4>1 DEF NoJob
        <5>3. k \notin RetroJobs(x)'
          BY <5>2 DEF RetroJobs
        <5>4. RetroJobs(x)' \subseteq RetroJobs(x)
          BY <2>3 DEF RetroKept, RetroJobs
        <5> QED  BY <5>1, <5>3, <5>4
      <4>3. /\ IsFiniteSet(RetroJobs(x) \ {k})
            /\ Cardinality(RetroJobs(x) \ {k}) = Cardinality(RetroJobs(x)) - 1
        BY <4>2, RetroSlots
      <4>4. Cardinality(RetroJobs(x)') <= Cardinality(RetroJobs(x)) - 1
        BY <4>2, <4>3, FS_Subset
      <4>5. IsFiniteSet(RetroJobs(x)')
        BY <4>2, <4>3, FS_Subset
      <4>6. Cardinality(RetroJobs(x)') \in Nat
        BY <4>5, FS_CardinalityType
      <4> HIDE DEF last
      <4> QED  BY <2>2, <3>1, <3>2, <4>4, <4>6, Numbers
    <3>4. CASE ~last
      <4>1. IsFiniteSet(RetroJobs(x)) /\ RetroJobs(x)' \subseteq RetroJobs(x)
        <5>1. RetroJobs(x)' \subseteq RetroJobs(x)
          BY <2>3 DEF RetroKept, RetroJobs
        <5> QED  BY <5>1, RetroSlots
      <4>2. Cardinality(RetroJobs(x)') <= Cardinality(RetroJobs(x)) /\ IsFiniteSet(RetroJobs(x)')
        BY <4>1, FS_Subset
      <4>3. Cardinality(RetroJobs(x)') \in Nat
        BY <4>2, FS_CardinalityType
      <4>4. ~(tries[x] + 1 >= MaxAttempts)
        BY <3>4
      <4> HIDE DEF last
      <4> QED  BY <2>2, <3>1, <4>2, <4>3, <4>4, Numbers
    <3> QED  BY <3>3, <3>4
  <2> HIDE DEF last
  <2>7. ASSUME NEW i \in Insts
        PROVE  tries'[i] + Cardinality(RetroJobs(i)') < MaxAttempts + MaxJobs
    <3>1. CASE i = x
      <4>1. tries'[i] = tries[x] + 1
        BY <2>5, <3>1
      <4> QED  BY <2>6, <3>1, <4>1
    <3>2. CASE i # x
      BY <2>4, <2>5, <3>2, RetriesOne DEF RetriesInv
    <3> QED  BY <3>1, <3>2
  <2> QED  BY <2>7 DEF RetriesInv
<1> QED  BY <1>2, <1>3, <1>4, <1>5, SaveSteps

LEMMA RetriesInit ==
    ASSUME Init
    PROVE  RetriesInv
<1>1. \A i \in Insts : tries[i] = 0
  BY DEF Init
<1>2. ASSUME NEW i \in Insts PROVE Cardinality(RetroJobs(i)) \in 0..MaxJobs
  BY RetroSlots
<1> QED  BY <1>1, <1>2, Numbers DEF RetriesInv

\* The automatic retries of a save stop, however many requests are in flight
\* when it fails: each of them is one attempt more at most (attemptsRef,
\* RETRO_MAX_ATTEMPTS).
THEOREM RetriesStop == Spec => []RetriesEnd
<1>1. Init => TypeInv /\ RetriesInv
  BY TypeInit, RetriesInit
<1>2. TypeInv /\ RetriesInv /\ [Next]_vars => (TypeInv /\ RetriesInv)'
  BY TypeStep, RetriesStep
<1>3. TypeInv /\ RetriesInv => RetriesEnd
  <2> SUFFICES ASSUME TypeInv, RetriesInv, NEW i \in Insts
               PROVE  tries[i] < MaxAttempts + MaxJobs
    BY DEF RetriesEnd
  <2>1. tries[i] + Cardinality(RetroJobs(i)) < MaxAttempts + MaxJobs
    BY DEF RetriesInv
  <2>2. tries[i] \in Nat /\ Cardinality(RetroJobs(i)) \in 0..MaxJobs
    BY ReviewIs, RetroSlots DEF TypeInv
  <2> QED  BY <2>1, <2>2, Numbers
<1> QED  BY <1>1, <1>2, <1>3, PTL DEF Spec

LEMMA PendingStep ==
    ASSUME TypeInv, PendingIsShown, [Next]_vars
    PROVE  PendingIsShown'
<1>1. jobs \in [Slots -> Jobs] /\ retro \in Retros
  BY ReviewIs DEF TypeInv
<1>2. CASE Quietly
  <2> SUFFICES ASSUME NEW k \in Slots, jobs'[k].st = "wait", jobs'[k].kind = "retro"
               PROVE  /\ retro'.waiting = k
                      /\ jobs'[k].plan = props'.plan /\ jobs'[k].text = retro'.value
    BY DEF PendingIsShown
  <2>1. /\ jobs[k].st = "wait" /\ jobs[k].kind = "retro"
        /\ jobs'[k].plan = jobs[k].plan /\ jobs'[k].text = jobs[k].text
    BY <1>2 DEF Quietly, RetroKept
  <2>2. retro.waiting = k /\ jobs[k].plan = props.plan /\ jobs[k].text = retro.value
    BY <2>1 DEF PendingIsShown
  <2> QED  BY <1>2, <2>1, <2>2 DEF Quietly, FieldKept
<1>3. ASSUME NEW t \in Texts, Type(t)
      PROVE  PendingIsShown'
  <2> DEFINE s == Stop(jobs, {retro.waiting, retro.retrying})
             j == [Later(Job("retro", props.plan, t, "none")) EXCEPT !.inst = retro.inst]
             d == t # retro.saved
  <2>1. PICK k \in Slots :
          /\ jobs' = [s EXCEPT ![k] = j]
          /\ retro' = [retro EXCEPT !.value = t, !.dirty = d, !.waiting = k, !.retrying = 0]
    BY <1>3 DEF Type
  <2>2. props' = props
    BY <1>3 DEF Type
  <2>3. j.plan = props.plan /\ j.text = t
    BY DEF Job, Later
  <2>4. /\ s \in [Slots -> Jobs]
        /\ \A l \in Slots : s[l] = jobs[l] \/ s[l].kind # "retro"
        /\ \A l \in Slots : l = retro.waiting => s[l].st # "wait"
    <3>1. \A l \in Slots : s[l] = jobs[l] \/ s[l].kind # "retro"
      BY StopIs
    <3>2. \A l \in Slots : l = retro.waiting => s[l].st # "wait"
      BY StopIs
    <3> QED  BY <1>1, <3>1, <3>2, StopTyped
  <2> HIDE DEF s, j, d
  <2>5. retro'.value = t /\ retro'.waiting = k
    BY <1>1, <2>1 DEF Retros
  <2>6. \A l \in Slots : jobs'[l] = IF l = k THEN j ELSE s[l]
    BY <2>1, <2>4
  <2>7. \A l \in Slots : ~(s[l].st = "wait" /\ s[l].kind = "retro")
    BY <2>4 DEF PendingIsShown
  <2> QED  BY <2>2, <2>3, <2>5, <2>6, <2>7 DEF PendingIsShown
<1>4. ASSUME NEW n \in 1..Len(toasts), Again(n)
      PROVE  PendingIsShown'
  <2>1. PICK k \in Slots : jobs' = [jobs EXCEPT ![k] = toasts[n].again]
    BY <1>4 DEF Again
  <2>2. toasts[n].again # NoJob /\ UNCHANGED <<props, retro>>
    BY <1>4 DEF Again
  <2>3. toasts[n].again.st = "sent"
    BY <2>2, NoticeIs, ReviewIs DEF TypeInv, Jobs
  <2> QED  BY <1>1, <2>1, <2>2, <2>3 DEF PendingIsShown
<1>5. ASSUME NEW k \in Slots, RetroFailed(k)
      PROVE  PendingIsShown'
  <2>1. /\ jobs' = End(k) \/ jobs' = [jobs EXCEPT ![k].st = "timer"]
        /\ props' = props
        /\ retro' = retro \/ retro' = [retro EXCEPT !.retrying = k]
    BY <1>5 DEF RetroFailed
  <2>2. RetroKept
    <3>1. CASE jobs' = End(k)
      BY <3>1, EndFewer, FewerKept
    <3>2. CASE jobs' = [jobs EXCEPT ![k].st = "timer"]
      BY <3>2, MovedKept
    <3> QED  BY <2>1, <3>1, <3>2
  <2>3. retro'.value = retro.value /\ retro'.waiting = retro.waiting
    BY <1>1, <2>1 DEF Retros
  <2> QED  BY <2>1, <2>2, <2>3 DEF PendingIsShown, RetroKept
<1> QED  BY <1>2, <1>3, <1>4, <1>5, SaveSteps

\* A save that waits for its debounce is the text of the field, for the plan
\* that the field is shown for: a change of the plan stops it
\* (WeekRetrospective, the effect on [initial, toastID] and the one that
\* unmounts).
THEOREM PendingHolds == Spec => []PendingIsShown
<1>1. Init => TypeInv /\ PendingIsShown
  <2>1. Init => PendingIsShown
    BY DEF Init, PendingIsShown, NoJob
  <2> QED  BY <2>1, TypeInit
<1>2. TypeInv /\ PendingIsShown /\ [Next]_vars => (TypeInv /\ PendingIsShown)'
  BY TypeStep, PendingStep
<1> QED  BY <1>1, <1>2, PTL DEF Spec

(***************************************************************************)
(* Calm behaviours: one thing is under way at a time.                      *)
(***************************************************************************)
AllIdle == \A k \in Slots : jobs[k] = NoJob
Only(k) == \A l \in Slots : l # k => jobs[l] = NoJob
Stored == props.plan # 0 /\ Live(props.plan) => retro.saved = plans[props.plan].retro
Fresh == Shown.plan # 0 => Same(Shown.row, plans[Shown.plan])

\* What CalmInv says of the request or timer in a slot.
JobFits(k) ==
    /\ jobs[k].kind = "rate" /\ jobs[k].st = "wait" => k = verdict.timer
    /\ jobs[k].kind = "retro" => OfField(jobs[k])
    /\ jobs[k].kind = "delete" => (jobs[k].mark = "loaded" <=> page.plan = jobs[k].plan)
    /\ Done(k) =>
        /\ jobs[k].kind \in Patches \cup {"create"} =>
              jobs[k].row = plans[jobs[k].plan] /\ jobs[k].row.status # "unborn"
        /\ jobs[k].kind = "retro" => plans[jobs[k].plan].retro = jobs[k].text

LEMMA NoJobIs == NoJob.kind = "none" /\ NoJob.st = "none" /\ ~Reloads(NoJob)
BY DEF NoJob, Reloads, Patches

LEMMA AllFit ==
    CommentTimer /\ JobsOfField /\ DeleteKnows /\ DoneIsStored <=> \A k \in Slots : JobFits(k)
BY DEF CommentTimer, JobsOfField, DeleteKnows, DoneIsStored, JobFits

\* Nothing is under way.
LEMMA Settled ==
    ASSUME CalmInv, calm, AllIdle, load.st = "none"
    PROVE  Stored /\ Fresh
<1>1. SavedIsStored /\ PageFresh
  BY DEF CalmInv
<1>2. ~RetroDone /\ \A k \in Slots : ~Done(k)
  BY NoJobIs DEF AllIdle, RetroDone, Done
<1> QED  BY <1>1, <1>2 DEF SavedIsStored, PageFresh, Stored, Fresh

\* A job is under way.
LEMMA Working ==
    ASSUME CalmInv, calm, NEW k \in Slots, jobs[k] # NoJob
    PROVE  /\ Only(k) /\ load.st = "none" /\ JobFits(k)
           /\ Stored \/ (Done(k) /\ jobs[k].kind = "retro")
           /\ Fresh \/ (Done(k) /\ Reloads(jobs[k]))
<1>1. Only(k) /\ load.st = "none" /\ JobFits(k)
  BY AllFit DEF CalmInv, OneJob, LoadAlone, Only
<1>2. \A l \in Slots : Done(l) => l = k
  BY <1>1, NoJobIs DEF Only, Done
<1>3. SavedIsStored /\ PageFresh
  BY DEF CalmInv
<1> QED  BY <1>1, <1>2, <1>3 DEF SavedIsStored, RetroDone, PageFresh, Stored, Fresh

\* What remains to be shown of a state in which nothing is under way but the
\* loader, or nothing but one job.
IdleCalm ==
    /\ AllIdle /\ RetriesOfField /\ DirtyField /\ LoadIsStored /\ PageBorn
    /\ Stored \/ (load.st # "none" /\ retro.saved = props.row.retro)
    /\ load.st = "none" => Fresh
OneCalm(k) ==
    /\ Only(k) /\ load.st = "none" /\ JobFits(k)
    /\ RetriesOfField /\ DirtyField /\ PageBorn
    /\ Stored \/ (Done(k) /\ jobs[k].kind = "retro")
    /\ Fresh \/ (Done(k) /\ Reloads(jobs[k]))

LEMMA IdleIsCalm == IdleCalm => CalmInv
<1> SUFFICES ASSUME IdleCalm PROVE CalmInv
  OBVIOUS
<1>1. \A k \in Slots : JobFits(k)
  BY NoJobIs DEF IdleCalm, AllIdle, JobFits, Done, Patches
<1>2. OneJob /\ LoadAlone
  BY DEF IdleCalm, AllIdle, OneJob, LoadAlone
<1>3. SavedIsStored /\ PageFresh
  BY DEF IdleCalm, SavedIsStored, PageFresh, Stored, Fresh
<1> QED  BY <1>1, <1>2, <1>3, AllFit DEF IdleCalm, CalmInv

SomeCalm == \E k \in Slots : OneCalm(k)

LEMMA OneIsCalm == SomeCalm => CalmInv
<1> SUFFICES ASSUME NEW k \in Slots, OneCalm(k)
             PROVE  CalmInv
  BY DEF SomeCalm
<1>1. \A l \in Slots : JobFits(l)
  <2>1. \A l \in Slots : l # k => JobFits(l)
    BY NoJobIs DEF OneCalm, Only, JobFits, Done, Patches
  <2> QED  BY <2>1 DEF OneCalm
<1>2. OneJob /\ LoadAlone /\ LoadIsStored
  BY DEF OneCalm, Only, OneJob, LoadAlone, LoadIsStored
<1>3. SavedIsStored
  BY DEF OneCalm, SavedIsStored, RetroDone, Stored
<1>4. PageFresh
  BY DEF OneCalm, PageFresh, Fresh
<1> QED  BY <1>1, <1>2, <1>3, <1>4, AllFit DEF OneCalm, CalmInv

\* The notices that can be retried were there before.
FewerRetries(ts) == \A n \in 1..Len(ts) :
    ts[n].again = NoJob \/ \E m \in 1..Len(toasts) : ts[n].again = toasts[m].again

LEMMA DismissFewer ==
    ASSUME TypeInv, NEW id
    PROVE  FewerRetries(Dismiss(toasts, id))
<1>1. QueueOf(toasts, Notices)
  BY ReviewIs DEF TypeInv
<1>2. PartOf(Dismiss(toasts, id), toasts)
  BY <1>1, DismissOne
<1> QED  BY <1>2 DEF FewerRetries, PartOf

LEMMA ReportFewer ==
    ASSUME TypeInv, NEW variant \in {"error", "success"}
    PROVE  FewerRetries(Report(toasts, variant))
<1>1. QueueOf(toasts, Notices) /\ Len(toasts) \in 0..MaxVisible
  BY ReviewIs, Numbers DEF TypeInv, QueueOf
<1>2. NewToast(toasts) \in Ids
  BY <1>1, NewToastTyped DEF Ids
<1> DEFINE t == Notice(NewToast(toasts), variant, NoJob)
<1>3. t \in Notices /\ t.again = NoJob
  BY <1>2, NoJobTyped DEF Notices, Notice
<1>4. Report(toasts, variant) = Add(toasts, t)
  BY DEF Report
<1> HIDE DEF t
<1>5. GrownBy(Add(toasts, t), toasts, t)
  BY <1>1, <1>3, AddOne
<1> QED  BY <1>3, <1>4, <1>5 DEF FewerRetries, GrownBy

LEMMA FewerStay ==
    ASSUME RetriesOfField, FewerRetries(toasts'), props'.plan = props.plan,
           retro'.inst = retro.inst, retro'.value = retro.value
    PROVE  RetriesOfField'
BY NoJobIs DEF RetriesOfField, FewerRetries, OfField

\* What a rendering leaves of the variables of the page.
LEMMA ShowIs ==
    ASSUME TypeInv, NEW r, NEW pg, NEW st, NEW ld, NEW ed, NEW js, NEW ts,
           Show(r, pg, st, ld, ed, js, ts), PageOf(pg)
    PROVE  /\ route' = r /\ page' = pg /\ status' = st
           /\ load' = IF r # route \/ pg.plan # page.plan THEN Loading(r, pg) ELSE ld
           /\ Shown' = WeekView(r, pg, st) /\ props' = Rateable(Shown')
           /\ Shown'.plan # 0 => r \notin {Home, New} /\ st = "ready" /\ Shown' = pg
           /\ props'.plan # 0 => r \notin {Home, New} /\ st = "ready" /\ props' = pg
<1>1. /\ route' = r /\ page' = pg /\ status' = st
      /\ load' = IF r # route \/ pg.plan # page.plan THEN Loading(r, pg) ELSE ld
      /\ Render(Rateable(WeekView(r, pg, st)), js, ts)
  BY DEF Show
<1>2. Shown' = WeekView(r, pg, st) /\ props' = Rateable(WeekView(r, pg, st))
  BY <1>1 DEF Shown, Render
<1> QED  BY <1>1, <1>2, EmptyTyped DEF WeekView, Rateable

\* What a rendering needs so that the field is still the one that is stored, or
\* that the loader is going to load.
FieldFits ==
    /\ \/ Stored
       \/ /\ retro.saved = props.row.retro
          /\ props'.plan # 0 => props'.row.retro = plans[props'.plan].retro
    /\ props' # props /\ props'.plan # 0 =>
          load'.st # "none" \/ props'.row.retro = plans[props'.plan].retro

LEMMA RenderCalm ==
    ASSUME TypeInv, TypeInv', NEW pg, NEW js, NEW ts, \A k \in Slots : js[k] = NoJob,
           Queued(js, ts), FewerRetries(ts), Render(pg, js, ts), plans' = plans,
           RetriesOfField, DirtyField, FieldFits
    PROVE  /\ AllIdle' /\ RetriesOfField' /\ DirtyField'
           /\ Stored' \/ (load'.st # "none" /\ retro'.saved = props'.row.retro)
<1>1. props' = pg
  BY DEF Render
<1>2. CASE pg.plan = props.plan /\ pg.row.retro = props.row.retro
  <2>1. jobs' = js /\ toasts' = ts /\ UNCHANGED <<retro, tries>>
    BY <1>2 DEF Render
  <2>2. AllIdle'
    BY <2>1 DEF AllIdle
  <2>3. RetriesOfField' /\ DirtyField'
    BY <1>1, <1>2, <2>1, FewerStay DEF DirtyField
  <2>4. Stored'
    <3> SUFFICES ASSUME props'.plan # 0, Live(props.plan)'
                 PROVE  retro'.saved = plans'[props'.plan].retro
      BY DEF Stored
    <3>1. props.plan # 0 /\ Live(props.plan)
      BY <1>1, <1>2 DEF Live
    <3> QED  BY <1>1, <1>2, <2>1, <3>1 DEF FieldFits, Stored
  <2> QED  BY <2>2, <2>3, <2>4
<1>3. CASE ~(pg.plan = props.plan /\ pg.row.retro = props.row.retro) /\ pg.plan = 0
  <2>1. Leave(js, ts)
    BY <1>3 DEF Render
  <2>2. jobs' = Stop(js, {retro.waiting, retro.retrying}) /\ props'.plan = 0
    BY <1>1, <1>3, <2>1 DEF Leave
  <2>3. AllIdle'
    BY <2>2 DEF AllIdle, Stop
  <2>4. RetriesOfField'
    <3> SUFFICES ASSUME NEW n \in 1..Len(toasts'), toasts'[n].again.kind = "retro"
                 PROVE  toasts'[n].again.plan # 0
      BY <2>2 DEF RetriesOfField
    <3>1. ts = toasts'
      BY <2>1 DEF Leave
    <3>2. ts[n] \in Notices
      BY <3>1 DEF Queued, QueueOf
    <3> QED  BY <3>1, <3>2, Numbers DEF Notices, Jobs, PlanIds
  <2> QED  BY <2>2, <2>3, <2>4 DEF DirtyField, Stored
<1>4. CASE ~(pg.plan = props.plan /\ pg.row.retro = props.row.retro) /\ pg.plan # 0
  <2>1. /\ jobs' = Stop(js, {retro.waiting, retro.retrying})
        /\ toasts' = Dismiss(ts, RetroToast(pg.plan))
        /\ retro' = Editor(pg.row.retro, retro.inst)
    BY <1>4 DEF Render, Reset
  <2>2. AllIdle'
    BY <2>1 DEF AllIdle, Stop
  <2>3. RetriesOfField'
    <3>1. Lacks(toasts', RetroToast(pg.plan)) /\ QueueOf(toasts', Notices)
      BY <2>1, DismissOne DEF Queued
    <3> SUFFICES ASSUME NEW n \in 1..Len(toasts'), toasts'[n].again.kind = "retro"
                 PROVE  toasts'[n].again.plan # pg.plan
      BY <1>1 DEF RetriesOfField
    <3>2. toasts'[n] \in Notices /\ toasts'[n].id # RetroToast(pg.plan)
      BY <3>1 DEF QueueOf, Lacks
    <3> QED  BY <3>2, NoJobIs DEF Notices
  <2>4. DirtyField' /\ retro'.saved = props'.row.retro
    BY <1>1, <2>1 DEF DirtyField, Editor
  <2>5. load'.st # "none" \/ props'.row.retro = plans[props'.plan].retro
    <3>1. props' # props /\ props'.plan # 0
      BY <1>1, <1>4
    <3> QED  BY <3>1 DEF FieldFits
  <2> QED  BY <2>2, <2>3, <2>4, <2>5 DEF Stored
<1> QED  BY <1>2, <1>3, <1>4

\* The rest of what a rendering has to keep.
PageFits == LoadIsStored' /\ PageBorn' /\ (load'.st = "none" => Fresh')

LEMMA ShowCalm ==
    ASSUME TypeInv, TypeInv', NEW r, NEW pg, NEW st, NEW ld, NEW ed, NEW js, NEW ts,
           Show(r, pg, st, ld, ed, js, ts), \A k \in Slots : js[k] = NoJob,
           Queued(js, ts), FewerRetries(ts), plans' = plans, calm, CalmInv, FieldFits, PageFits
    PROVE  CalmInv'
<1>1. PICK w : Render(w, js, ts)
  BY DEF Show
<1>2. RetriesOfField /\ DirtyField
  BY DEF CalmInv
<1>3. /\ AllIdle' /\ RetriesOfField' /\ DirtyField'
      /\ Stored' \/ (load'.st # "none" /\ retro'.saved = props'.row.retro)
  BY <1>1, <1>2, RenderCalm
<1>4. IdleCalm'
  BY <1>3 DEF IdleCalm, PageFits
<1> QED  BY <1>4, IdleIsCalm, PTL

\* The loader has no answer when it has just been asked.
LEMMA LoadingAsks ==
    ASSUME NEW r \in Routes, NEW pg \in Pages
    PROVE  /\ Loading(r, pg).st # "answered"
           /\ r \notin {Home, New} => Loading(r, pg).st # "none"
<1>1. r \notin {Home, New} => Loading(r, pg).st = "asked"
  BY LoadingTyped
<1>0. ~(Home = New) /\ ~(Home = Dialog) /\ ~(New = Dialog)
      /\ Home \notin PlanIds /\ New \notin PlanIds
  BY Numbers DEF PlanIds, Home, New, Dialog
<1>2. r = Home => Loading(r, pg) = NoLoad
  BY <1>0 DEF Loading
<1>3. r = New => Loading(r, pg) = NoLoad \/ Loading(r, pg) = Ask(0)
  BY <1>0 DEF Loading
<1>4. NoLoad.st = "none" /\ Ask(0).st = "asked"
  BY DEF NoLoad, Ask
<1> QED  BY <1>1, <1>2, <1>3, <1>4

LEMMA FewerSame == FewerRetries(toasts)
BY DEF FewerRetries

LEMMA OnlyEnds ==
    ASSUME TypeInv, NEW k \in Slots, Only(k)
    PROVE  \A l \in Slots : End(k)[l] = NoJob
BY EndIs DEF Only

\* A job whose end renders a page that is stored, or asks the loader again.
LEMMA AnswerCalm ==
    ASSUME TypeInv, TypeInv', calm, CalmInv, NEW k \in Slots, Done(k),
           ~(jobs[k].kind = "retro"),
           NEW r, NEW pg, NEW st, NEW ed, NEW ts, Show(r, pg, st, load, ed, End(k), ts),
           r \in Routes, PageOf(pg), FewerRetries(ts), QueueOf(ts, Notices), plans' = plans,
           \/ pg.plan # 0 => pg.row = plans[pg.plan] /\ pg.row.status # "unborn"
           \/ pg = page /\ ~Reloads(jobs[k]) /\ (r = route => st = status)
    PROVE  CalmInv'
<1>1. jobs[k] # NoJob
  BY NoJobIs DEF Done
<1>2. Only(k) /\ load.st = "none" /\ Stored /\ (Fresh \/ Reloads(jobs[k]))
  BY <1>1, Working
<1>3. /\ route' = r /\ page' = pg /\ status' = st
      /\ load' = IF r # route \/ pg.plan # page.plan THEN Loading(r, pg) ELSE load
      /\ Shown' = WeekView(r, pg, st) /\ props' = Rateable(Shown')
      /\ Shown'.plan # 0 => r \notin {Home, New} /\ st = "ready" /\ Shown' = pg
      /\ props'.plan # 0 => r \notin {Home, New} /\ st = "ready" /\ props' = pg
  BY ShowIs
<1>4. /\ Loading(r, pg).st # "answered"
      /\ r \notin {Home, New} => Loading(r, pg).st # "none"
  BY LoadingAsks DEF PageOf
<1>5. CASE pg.plan # 0 => pg.row = plans[pg.plan] /\ pg.row.status # "unborn"
  <2>1. FieldFits
    BY <1>2, <1>3, <1>5 DEF FieldFits
  <2>2. PageFits
    <3>1. LoadIsStored'
      BY <1>2, <1>3, <1>4 DEF LoadIsStored
    <3>2. PageBorn'
      BY <1>3, <1>5 DEF PageBorn
    <3>3. Fresh'
      BY <1>3, <1>5 DEF Fresh, Same
    <3> QED  BY <3>1, <3>2, <3>3 DEF PageFits
  <2>3. Queued(End(k), ts)
    BY EndQueued DEF Queued
  <2> QED  BY <1>2, <2>1, <2>2, <2>3, OnlyEnds, ShowCalm
<1>6. CASE pg = page /\ ~Reloads(jobs[k]) /\ (r = route => st = status)
  <2>1. r = route => Shown' = Shown /\ props' = props
    BY <1>3, <1>6 DEF Shown, TypeInv, PageTypes
  <2>2. FieldFits
    BY <1>2, <1>3, <1>4, <2>1 DEF FieldFits
  <2>3. PageFits
    <3>1. LoadIsStored'
      BY <1>2, <1>3, <1>4 DEF LoadIsStored
    <3>2. PageBorn'
      BY <1>3, <1>6 DEF PageBorn, CalmInv
    <3>3. load'.st = "none" => Fresh'
      <4>1. CASE r = route
        BY <1>2, <1>6, <2>1, <4>1 DEF Fresh, Same
      <4>2. CASE r # route
        BY <1>3, <1>4, <4>2 DEF Fresh
      <4> QED  BY <4>1, <4>2
    <3> QED  BY <3>1, <3>2, <3>3 DEF PageFits
  <2>4. Queued(End(k), ts)
    BY EndQueued DEF Queued
  <2> QED  BY <1>2, <2>2, <2>3, <2>4, OnlyEnds, ShowCalm
<1> QED  BY <1>5, <1>6

LEMMA GoCalm ==
    ASSUME TypeInv, TypeInv', calm, CalmInv, NEW r \in Routes, Go(r)
    PROVE  CalmInv'
<1> DEFINE st == IF r = Home THEN "ready" ELSE status
<1>1. Show(r, page, st, load, edit, jobs, toasts) /\ r # route /\ plans' = plans
  BY DEF Go
<1>2. AllIdle /\ load.st = "none"
  BY DEF Go, Patient, Quiet, AllIdle
<1>3. Stored
  BY <1>2, Settled
<1>4. PageOf(page) /\ Queued(jobs, toasts)
  BY PageIs
<1> HIDE DEF st
<1>5. /\ page' = page /\ load' = Loading(r, page)
      /\ Shown'.plan # 0 => r \notin {Home, New}
      /\ props'.plan # 0 => r \notin {Home, New}
  BY <1>1, <1>4, ShowIs
<1>6. /\ load'.st # "answered"
      /\ r \notin {Home, New} => load'.st # "none"
  BY <1>4, <1>5, LoadingAsks DEF PageOf
<1>7. FieldFits
  BY <1>3, <1>5, <1>6 DEF FieldFits
<1>8. PageFits
  <2>1. PageBorn'
    BY <1>1, <1>5 DEF PageBorn, CalmInv
  <2> QED  BY <2>1, <1>5, <1>6 DEF PageFits, LoadIsStored, Fresh
<1>9. \A k \in Slots : jobs[k] = NoJob
  BY <1>2 DEF AllIdle
<1> QED  BY <1>1, <1>4, <1>7, <1>8, <1>9, FewerSame, ShowCalm

LEMMA AnsweredCalm ==
    ASSUME TypeInv, TypeInv', calm, CalmInv, NEW k \in Slots,
           PatchDone(k) \/ Created(k) \/ Cloned(k)
    PROVE  CalmInv'
<1> DEFINE pg == [plan |-> jobs[k].plan, row |-> jobs[k].row]
<1>1. Done(k) /\ ~(jobs[k].kind = "retro") /\ plans' = plans
  BY DEF PatchDone, Created, Cloned, Done, Patches
<1>2. JobFits(k)
  BY <1>1, Working, NoJobIs DEF Done
<1>3. /\ PageOf(pg) /\ PageOf(page) /\ route \in Routes /\ jobs[k].plan \in Routes
      /\ QueueOf(toasts, Notices) /\ FewerRetries(toasts)
  BY <1>1, AnswerPage, PageIs, FewerSame DEF Done, Queued
<1>4. jobs[k].kind \in Patches \cup {"create"} => pg.row = plans[pg.plan] /\ pg.row.status # "unborn"
  BY <1>1, <1>2 DEF JobFits
<1>5. CASE PatchDone(k)
  <2> DEFINE ed == IF edit.job = k THEN [edit EXCEPT !.open = FALSE, !.job = 0] ELSE edit
  <2>1. jobs[k].kind \in Patches /\ Show(route, pg, status, load, ed, End(k), toasts)
    BY <1>5 DEF PatchDone
  <2> HIDE DEF ed, pg
  <2> QED  BY <1>1, <1>3, <1>4, <2>1, AnswerCalm
<1>6. CASE Created(k)
  <2>1. jobs[k].kind = "create" /\ Show(jobs[k].plan, pg, "ready", load, edit, End(k), toasts)
    BY <1>6 DEF Created
  <2> HIDE DEF pg
  <2> QED  BY <1>1, <1>3, <1>4, <2>1, AnswerCalm
<1>7. CASE Cloned(k)
  <2>1. jobs[k].kind = "clone" /\ Show(jobs[k].plan, page, status, load, edit, End(k), toasts)
    BY <1>7 DEF Cloned
  <2>2. ~Reloads(jobs[k])
    BY <2>1 DEF Reloads, Patches
  <2> HIDE DEF pg
  <2> QED  BY <1>1, <1>3, <2>1, <2>2, AnswerCalm
<1> QED  BY <1>5, <1>6, <1>7

LEMMA DeletedCalm ==
    ASSUME TypeInv, TypeInv', calm, CalmInv, NEW k \in Slots, Deleted(k), jobs[k].mark = "loaded"
    PROVE  CalmInv'
<1>1. /\ Show(Home, NoPage, "ready", load, edit, End(k), Report(toasts, "success"))
      /\ Done(k) /\ ~(jobs[k].kind = "retro") /\ plans' = plans
  BY DEF Deleted, Done
<1>2. Home \in Routes /\ PageOf(NoPage) /\ NoPage.plan = 0
  BY Numbers, EmptyTyped DEF Home, Routes
<1>3. "success" \in {"error", "success"}
  OBVIOUS
<1>4. QueueOf(Report(toasts, "success"), Notices) /\ FewerRetries(Report(toasts, "success"))
  BY <1>3, ReportFewer, ReportTyped, ReviewIs DEF TypeInv
<1> QED  BY <1>1, <1>2, <1>4, AnswerCalm

LEMMA LoadedCalm ==
    ASSUME TypeInv, TypeInv', calm, CalmInv, Loaded \/ LoadFailed
    PROVE  CalmInv'
<1>1. load.st # "none" /\ plans' = plans /\ NoLoad.st = "none"
  BY EmptyTyped DEF Loaded, LoadFailed
<1>2. AllIdle /\ ~RetroDone
  BY <1>1, NoJobIs DEF CalmInv, LoadAlone, AllIdle, RetroDone, Done
<1>3. Stored \/ retro.saved = props.row.retro
  BY <1>2 DEF CalmInv, SavedIsStored, Stored
<1>4. /\ Queued(jobs, toasts) /\ FewerRetries(toasts) /\ PageOf(page) /\ route \in Routes
      /\ \A k \in Slots : jobs[k] = NoJob
  BY <1>2, PageIs, FewerSame DEF AllIdle
<1>5. CASE Loaded /\ load.row.status \in Statuses
  <2> DEFINE pg == [plan |-> load.plan, row |-> load.row]
  <2>1. Show(route, pg, "ready", NoLoad, edit, jobs, toasts) /\ load.st = "answered"
    BY <1>5 DEF Loaded
  <2>2. /\ PageOf(pg) /\ load.plan # 0 /\ pg.plan = load.plan /\ pg.row = load.row
        /\ pg.row.status # "unborn"
    <3>1. LoadOf(load) /\ Row("unborn").status = "unborn"
      BY PageIs, EmptyTyped
    <3>2. load.plan # 0
      BY <1>5, <3>1, Numbers DEF LoadOf
    <3> QED  BY <1>5, <3>1, <3>2, Numbers DEF LoadOf, Loads, PageOf, Pages
  <2>3. pg.row = plans[pg.plan]
    BY <2>1, <2>2 DEF CalmInv, LoadIsStored
  <2> HIDE DEF pg
  <2>4. /\ page' = pg
        /\ load' = IF pg.plan # page.plan THEN Loading(route, pg) ELSE NoLoad
        /\ Shown'.plan # 0 => Shown' = pg
        /\ props'.plan # 0 => props' = pg
    BY <2>1, <2>2, ShowIs
  <2>5. load'.st # "answered"
    BY <1>1, <1>4, <2>2, <2>4, LoadingAsks DEF PageOf
  <2>6. FieldFits
    BY <1>3, <2>3, <2>4 DEF FieldFits
  <2>7. PageFits
    BY <1>1, <2>2, <2>3, <2>4, <2>5 DEF PageFits, LoadIsStored, PageBorn, Fresh, Same
  <2> QED  BY <1>1, <1>4, <2>1, <2>6, <2>7, ShowCalm
<1>6. ASSUME NEW st, st # "ready" \/ route = New, Show(route, page, st, NoLoad, edit, jobs, toasts)
      PROVE  CalmInv'
  <2>1. page' = page /\ load' = NoLoad /\ Shown'.plan = 0 /\ props'.plan = 0
    BY <1>4, <1>6, ShowIs
  <2>2. FieldFits
    BY <1>3, <2>1 DEF FieldFits
  <2>3. PageFits
    BY <1>1, <2>1 DEF PageFits, LoadIsStored, PageBorn, Fresh, CalmInv
  <2> QED  BY <1>1, <1>4, <1>6, <2>2, <2>3, ShowCalm
<1>7. CASE Loaded /\ load.row.status \notin Statuses
  <2> DEFINE st == CASE load.plan # 0 -> "error"
                     [] load.plan = 0 /\ route = New -> status
                     [] load.plan = 0 /\ route # New -> "empty"
  <2>1. Show(route, page, st, NoLoad, edit, jobs, toasts)
    BY <1>7 DEF Loaded
  <2>2. st # "ready" \/ route = New
    OBVIOUS
  <2> HIDE DEF st
  <2> QED  BY <1>6, <2>1, <2>2
<1>8. CASE LoadFailed
  <2>1. Show(route, page, "error", NoLoad, edit, jobs, toasts)
    BY <1>8 DEF LoadFailed
  <2> QED  BY <1>6, <2>1
<1> QED  BY <1>5, <1>7, <1>8

\* The page and what is stored stay.
PageSame == UNCHANGED <<plans, props, route, page, status>> /\ retro'.saved = retro.saved

LEMMA SameStays ==
    ASSUME PageSame
    PROVE  /\ Shown' = Shown /\ (Stored => Stored') /\ (Fresh => Fresh')
           /\ PageBorn => PageBorn'
<1>1. Shown' = Shown
  BY DEF PageSame, Shown
<1>2. Stored => Stored'
  BY DEF PageSame, Stored, Live
<1>3. (Fresh => Fresh') /\ (PageBorn => PageBorn')
  BY <1>1 DEF PageSame, Fresh, PageBorn
<1> QED  BY <1>1, <1>2, <1>3

\* One job is under way, and is not done.
LEMMA PutCalm ==
    ASSUME calm, CalmInv, Stored, Fresh, PageSame, load.st = "none", load' = load,
           NEW k \in Slots, \A l \in Slots : l # k => jobs'[l] = NoJob,
           jobs'[k].st # "done", JobFits(k)', RetriesOfField', DirtyField'
    PROVE  CalmInv'
<1>1. Only(k)'
  BY DEF Only
<1>2. OneCalm(k)'
  BY <1>1, SameStays DEF OneCalm, CalmInv
<1>3. SomeCalm'
  BY <1>2 DEF SomeCalm
<1> QED  BY <1>3, OneIsCalm, PTL

\* Nothing is under way any more, but the loader.
LEMMA IdleCalmStep ==
    ASSUME calm, CalmInv, Stored, Fresh, PageSame, \A l \in Slots : jobs'[l] = NoJob,
           LoadIsStored', RetriesOfField', DirtyField'
    PROVE  CalmInv'
<1>1. AllIdle'
  BY DEF AllIdle
<1>2. IdleCalm'
  BY <1>1, SameStays DEF IdleCalm, CalmInv
<1> QED  BY <1>2, IdleIsCalm, PTL

\* The field stays.
FieldSame == UNCHANGED <<props, retro>> /\ FewerRetries(toasts')

LEMMA FieldSameStays ==
    ASSUME CalmInv, calm, FieldSame
    PROVE  RetriesOfField' /\ DirtyField'
<1>1. RetriesOfField /\ DirtyField
  BY DEF CalmInv
<1> QED  BY <1>1, FewerStay DEF FieldSame, DirtyField

LEMMA BeginCalm ==
    ASSUME TypeInv, calm, CalmInv, NEW kind, NEW p, NEW t, NEW m, NEW ed, NEW fm, NEW dp,
           Begin(Job(kind, p, t, m), ed, fm, dp), kind # "retro",
           kind = "delete" => (m = "loaded" <=> page.plan = p)
    PROVE  CalmInv'
<1>1. PICK k \in Slots : jobs' = [jobs EXCEPT ![k] = Job(kind, p, t, m)]
  BY DEF Begin
<1>2. /\ UNCHANGED <<plans, toasts, props, retro, tries, verdict, route, page, status, load>>
      /\ AllIdle /\ load.st = "none"
  BY DEF Begin, Patient, Quiet, AllIdle, editorVars
<1>3. jobs \in [Slots -> Jobs]
  BY ReviewIs DEF TypeInv
<1>4. /\ jobs'[k] = Job(kind, p, t, m)
      /\ \A l \in Slots : l # k => jobs'[l] = NoJob
  BY <1>1, <1>2, <1>3 DEF AllIdle
<1>5. /\ jobs'[k].st = "sent" /\ jobs'[k].kind = kind /\ jobs'[k].plan = p /\ jobs'[k].mark = m
  BY <1>4 DEF Job
<1>6. JobFits(k)'
  BY <1>2, <1>5 DEF JobFits, Done
<1>7. Stored /\ Fresh /\ PageSame
  BY <1>2, Settled DEF PageSame
<1>8. RetriesOfField' /\ DirtyField'
  BY <1>2, FewerSame, FieldSameStays DEF FieldSame, FewerRetries
<1> QED  BY <1>2, <1>4, <1>5, <1>6, <1>7, <1>8, PutCalm

LEMMA BeginsCalm ==
    ASSUME TypeInv, calm, CalmInv,
           \/ CommitNotes \/ Submit \/ ConfirmDuplicate
           \/ \E s \in Statuses : PickStatus(s)
           \/ \E n \in 1..MaxDays : PickEnd(n)
           \/ \E p \in PlanIds : Delete(p)
    PROVE  CalmInv'
<1>1. CASE CommitNotes \/ Submit \/ ConfirmDuplicate
  BY <1>1, BeginCalm DEF CommitNotes, Submit, ConfirmDuplicate
<1>2. ASSUME NEW s \in Statuses, PickStatus(s) PROVE CalmInv'
  BY <1>2, BeginCalm DEF PickStatus
<1>3. ASSUME NEW n \in 1..MaxDays, PickEnd(n) PROVE CalmInv'
  BY <1>3, BeginCalm DEF PickEnd
<1>4. ASSUME NEW p \in PlanIds, Delete(p) PROVE CalmInv'
  <2> DEFINE m == IF page.plan = p THEN "loaded" ELSE "none"
  <2>1. Begin(Job("delete", p, 0, m), FALSE, FALSE, dup)
    BY <1>4 DEF Delete
  <2>2. m = "loaded" <=> page.plan = p
    OBVIOUS
  <2> HIDE DEF m
  <2> QED  BY <2>1, <2>2, BeginCalm
<1> QED  BY <1>1, <1>2, <1>3, <1>4

\* A step that touches neither the jobs nor what they are about.
LEMMA AsideCalm ==
    ASSUME calm, CalmInv, UNCHANGED <<plans, jobs, props, retro, verdict, route, page, status, load, calm>>,
           FewerRetries(toasts')
    PROVE  CalmInv'
<1>1. RetriesOfField' /\ DirtyField'
  BY FieldSameStays DEF FieldSame
<1>2. Shown' = Shown
  BY DEF Shown
<1>3. OneJob' /\ LoadAlone' /\ CommentTimer' /\ JobsOfField' /\ DoneIsStored' /\ DeleteKnows'
  BY DEF CalmInv, OneJob, LoadAlone, CommentTimer, JobsOfField, OfField, DoneIsStored, Done, DeleteKnows
<1>4. SavedIsStored' /\ LoadIsStored' /\ PageBorn'
  BY DEF CalmInv, SavedIsStored, RetroDone, Done, Live, LoadIsStored, PageBorn
<1>5. PageFresh'
  BY <1>2 DEF CalmInv, PageFresh, Done
<1> QED  BY <1>1, <1>3, <1>4, <1>5 DEF CalmInv

LEMMA RefreshCalm ==
    ASSUME TypeInv, calm, CalmInv, Refresh
    PROVE  CalmInv'
<1>1. /\ UNCHANGED <<plans, jobs, toasts, props, retro, route, page, status>>
      /\ load' = Loading(route, page) /\ AllIdle /\ load.st = "none"
  BY DEF Refresh, Patient, Quiet, AllIdle, reviewVars
<1>2. LoadIsStored'
  BY <1>1, LoadingAsks, PageIs DEF LoadIsStored, PageOf
<1>3. RetriesOfField' /\ DirtyField'
  BY <1>1, FewerSame, FieldSameStays DEF FieldSame, FewerRetries
<1>4. Stored /\ Fresh /\ PageSame /\ \A l \in Slots : jobs'[l] = NoJob
  BY <1>1, Settled DEF PageSame, AllIdle
<1> QED  BY <1>2, <1>3, <1>4, IdleCalmStep

\* What remains of the jobs when the user types on.
LEMMA StoppedIdle ==
    ASSUME TypeInv, calm, CalmInv, PendingIsShown
    PROVE  /\ Typing("retro") => \A l \in Slots : Stop(jobs, {retro.waiting, retro.retrying})[l] = NoJob
           /\ Typing("rate") => \A l \in Slots : Stop(jobs, {verdict.timer})[l] = NoJob
           /\ (Typing("retro") \/ Typing("rate")) => Stored /\ Fresh /\ load.st = "none"
<1>1. ASSUME Typing("retro"), NEW l \in Slots
      PROVE  Stop(jobs, {retro.waiting, retro.retrying})[l] = NoJob
  <2>1. jobs[l] # NoJob => jobs[l].st = "wait" /\ l = retro.waiting
    BY <1>1 DEF Typing, PendingIsShown
  <2> QED  BY <2>1 DEF Stop
<1>2. ASSUME Typing("rate"), NEW l \in Slots
      PROVE  Stop(jobs, {verdict.timer})[l] = NoJob
  <2>1. jobs[l] # NoJob => jobs[l].st = "wait" /\ l = verdict.timer
    BY <1>2 DEF Typing, CalmInv, CommentTimer
  <2> QED  BY <2>1 DEF Stop
<1>3. ASSUME Typing("retro") \/ Typing("rate")
      PROVE  Stored /\ Fresh /\ load.st = "none"
  <2>1. \A l \in Slots : ~Done(l)
    BY <1>3, NoJobIs DEF Typing, Done
  <2>2. load.st = "none" /\ ~RetroDone
    BY <1>3, <2>1 DEF Typing, RetroDone
  <2> QED  BY <2>1, <2>2 DEF CalmInv, SavedIsStored, PageFresh, Stored, Fresh
<1> QED  BY <1>1, <1>2, <1>3

\* The field holds the text of a new save, and no notice of the plan is left.
LEMMA TypeCalm ==
    ASSUME TypeInv, calm, CalmInv, PendingIsShown, NEW t \in Texts, Type(t), Typing("retro"),
           UNCHANGED pageVars
    PROVE  CalmInv'
<1> DEFINE s == Stop(jobs, {retro.waiting, retro.retrying})
           j == [Later(Job("retro", props.plan, t, "none")) EXCEPT !.inst = retro.inst]
           d == t # retro.saved
<1>1. PICK k \in Slots :
        /\ jobs' = [s EXCEPT ![k] = j]
        /\ retro' = [retro EXCEPT !.value = t, !.dirty = d, !.waiting = k, !.retrying = 0]
  BY DEF Type
<1>2. /\ toasts' = Dismiss(toasts, RetroToast(props.plan))
      /\ UNCHANGED <<plans, props, route, page, status, load>>
  BY DEF Type, pageVars
<1>3. jobs \in [Slots -> Jobs] /\ retro \in Retros /\ QueueOf(toasts, Notices)
  BY ReviewIs DEF TypeInv
<1>4. s \in [Slots -> Jobs] /\ \A l \in Slots : s[l] = NoJob
  BY <1>3, StopTyped, StoppedIdle
<1>5. j.kind = "retro" /\ j.st = "wait" /\ j.plan = props.plan /\ j.text = t /\ j.inst = retro.inst
  BY DEF Job, Later
<1>6. d <=> t # retro.saved
  OBVIOUS
<1> HIDE DEF s, j, d
<1>7. /\ retro'.value = t /\ retro'.dirty = d /\ retro'.saved = retro.saved
      /\ retro'.inst = retro.inst
  BY <1>1, <1>3 DEF Retros
<1>8. jobs'[k] = j /\ \A l \in Slots : l # k => jobs'[l] = NoJob
  BY <1>1, <1>4
<1>9. JobFits(k)'
  BY <1>2, <1>5, <1>7, <1>8 DEF JobFits, OfField, Done
<1>10. RetriesOfField'
  <2>1. Lacks(toasts', RetroToast(props.plan)) /\ QueueOf(toasts', Notices)
    BY <1>2, <1>3, DismissOne
  <2> SUFFICES ASSUME NEW n \in 1..Len(toasts'), toasts'[n].again.kind = "retro"
               PROVE  toasts'[n].again.plan # props.plan
    BY <1>2 DEF RetriesOfField
  <2>2. toasts'[n] \in Notices /\ toasts'[n].id # RetroToast(props.plan)
    BY <2>1 DEF QueueOf, Lacks
  <2> QED  BY <2>2, NoJobIs DEF Notices
<1>11. DirtyField'
  BY <1>6, <1>7 DEF DirtyField
<1>12. PageSame /\ Stored /\ Fresh /\ load.st = "none" /\ load' = load
  BY <1>2, <1>7, StoppedIdle DEF PageSame
<1>13. jobs'[k].st # "done"
  BY <1>5, <1>8
<1> QED  BY <1>8, <1>9, <1>10, <1>11, <1>12, <1>13, PutCalm

LEMMA CommentCalm ==
    ASSUME TypeInv, calm, CalmInv, PendingIsShown, NEW t \in Texts, Comment(t), Typing("rate"),
           UNCHANGED pageVars
    PROVE  CalmInv'
<1> DEFINE s == Stop(jobs, {verdict.timer})
           j == Later(Job("rate", props.plan, t, verdict.mark))
<1>1. PICK k \in Slots : /\ jobs' = [s EXCEPT ![k] = j]
                         /\ verdict' = [verdict EXCEPT !.words = t, !.timer = k]
  BY DEF Comment
<1>2. UNCHANGED <<plans, toasts, props, retro, route, page, status, load>>
  BY DEF Comment, pageVars
<1>3. jobs \in [Slots -> Jobs] /\ verdict \in Verdicts
  BY ReviewIs DEF TypeInv
<1>4. s \in [Slots -> Jobs] /\ \A l \in Slots : s[l] = NoJob
  BY <1>3, StopTyped, StoppedIdle
<1>5. j.kind = "rate" /\ j.st = "wait"
  BY DEF Job, Later
<1> HIDE DEF s, j
<1>6. verdict'.timer = k
  BY <1>1, <1>3 DEF Verdicts
<1>7. jobs'[k] = j /\ \A l \in Slots : l # k => jobs'[l] = NoJob
  BY <1>1, <1>4
<1>8. JobFits(k)'
  BY <1>5, <1>6, <1>7 DEF JobFits, Done
<1>9. RetriesOfField' /\ DirtyField'
  BY <1>2, FewerSame, FieldSameStays DEF FieldSame, FewerRetries
<1>10. PageSame /\ Stored /\ Fresh /\ load.st = "none" /\ load' = load
  BY <1>2, StoppedIdle DEF PageSame
<1>11. jobs'[k].st # "done"
  BY <1>5, <1>7
<1> QED  BY <1>7, <1>8, <1>9, <1>10, <1>11, PutCalm

LEMMA RateCalm ==
    ASSUME TypeInv, calm, CalmInv, Quiet, UNCHANGED pageVars,
           (\E m \in Marks : Rate(m)) \/ Unrate
    PROVE  CalmInv'
<1>1. AllIdle /\ load.st = "none" /\ jobs \in [Slots -> Jobs]
  BY ReviewIs DEF Quiet, AllIdle, TypeInv
<1>2. UNCHANGED <<plans, toasts, props, retro, route, page, status, load>>
  BY DEF Rate, Unrate, pageVars
<1>3. \E k \in Slots : /\ jobs'[k].st = "sent" /\ jobs'[k].kind \in {"rate", "unrate"}
                       /\ \A l \in Slots : l # k => jobs'[l] = NoJob
  <2>1. CASE \E m \in Marks : Rate(m)
    <3> DEFINE s == Stop(jobs, {verdict.timer})
    <3>1. s \in [Slots -> Jobs] /\ \A l \in Slots : s[l] = NoJob
      <4>1. \A l \in Slots : s[l] = NoJob
        BY <1>1 DEF AllIdle, Stop
      <4> QED  BY <1>1, <4>1, StopTyped
    <3>2. PICK m \in Marks, k \in Slots : jobs' = [s EXCEPT ![k] = Job("rate", props.plan, verdict.words, m)]
      BY <2>1 DEF Rate
    <3> HIDE DEF s
    <3> DEFINE j == Job("rate", props.plan, verdict.words, m)
    <3>3. j.st = "sent" /\ j.kind = "rate"
      BY DEF Job
    <3> HIDE DEF j
    <3>4. \A l \in Slots : jobs'[l] = IF l = k THEN j ELSE NoJob
      BY <3>1, <3>2 DEF j
    <3> QED  BY <3>3, <3>4
  <2>2. CASE Unrate
    <3> DEFINE j == Job("unrate", props.plan, 0, "none")
    <3>1. PICK k \in Slots : jobs' = [jobs EXCEPT ![k] = j]
      BY <2>2 DEF Unrate
    <3>2. j.st = "sent" /\ j.kind = "unrate"
      BY DEF Job
    <3> HIDE DEF j
    <3>3. \A l \in Slots : jobs'[l] = IF l = k THEN j ELSE NoJob
      BY <1>1, <3>1 DEF AllIdle
    <3> QED  BY <3>2, <3>3
  <2> QED  BY <2>1, <2>2
<1>4. PICK k \in Slots : /\ jobs'[k].st = "sent" /\ jobs'[k].kind \in {"rate", "unrate"}
                         /\ \A l \in Slots : l # k => jobs'[l] = NoJob
  BY <1>3
<1>5. JobFits(k)'
  BY <1>4 DEF JobFits, Done
<1>6. RetriesOfField' /\ DirtyField'
  BY <1>2, FewerSame, FieldSameStays DEF FieldSame, FewerRetries
<1>7. PageSame /\ Stored /\ Fresh /\ load' = load
  BY <1>1, <1>2, Settled DEF PageSame
<1> QED  BY <1>1, <1>4, <1>5, <1>6, <1>7, PutCalm

\* The Retry button writes what the field holds.
LEMMA AgainCalm ==
    ASSUME TypeInv, calm, CalmInv, Quiet, NEW n \in 1..Len(toasts), Again(n),
           toasts[n].again.plan = props.plan, UNCHANGED pageVars
    PROVE  CalmInv'
<1> DEFINE j == toasts[n].again
<1>1. AllIdle /\ load.st = "none" /\ jobs \in [Slots -> Jobs] /\ QueueOf(toasts, Notices)
  BY ReviewIs DEF Quiet, AllIdle, TypeInv
<1>2. /\ UNCHANGED <<plans, props, retro, route, page, status, load>>
      /\ toasts' = Dismiss(toasts, toasts[n].id) /\ j # NoJob
  BY DEF Again, pageVars
<1>3. PICK k \in Slots : jobs' = [jobs EXCEPT ![k] = j]
  BY DEF Again
<1>4. j.kind = "retro" /\ j.st = "sent"
  <2>1. j \in Jobs
    BY <1>1, NoticeIs
  <2>2. j.kind # "none"
    BY <1>2, <2>1 DEF Jobs
  <2> QED  BY <1>1, <2>2, NoticeIs
<1>5. OfField(j)
  BY <1>4 DEF CalmInv, RetriesOfField
<1> HIDE DEF j
<1>6. jobs'[k] = j /\ \A l \in Slots : l # k => jobs'[l] = NoJob
  BY <1>1, <1>3 DEF AllIdle
<1>7. JobFits(k)'
  BY <1>2, <1>4, <1>5, <1>6 DEF JobFits, OfField, Done
<1>8. RetriesOfField' /\ DirtyField'
  BY <1>2, DismissFewer, FieldSameStays DEF FieldSame
<1>9. PageSame /\ Stored /\ Fresh /\ load' = load
  BY <1>1, <1>2, Settled DEF PageSame
<1>10. jobs'[k].st # "done"
  BY <1>4, <1>6
<1> QED  BY <1>1, <1>6, <1>7, <1>8, <1>9, <1>10, PutCalm

LEMMA ReviewsCalm ==
    ASSUME TypeInv, calm, CalmInv, PendingIsShown, Reviews
    PROVE  CalmInv'
<1>1. UNCHANGED pageVars /\ (Patient => Quiet)
  BY DEF Reviews, Patient
<1>2. ASSUME NEW t \in Texts, Type(t), Typing("retro") PROVE CalmInv'
  BY <1>1, <1>2, TypeCalm
<1>3. ASSUME NEW t \in Texts, Comment(t), Typing("rate") PROVE CalmInv'
  BY <1>1, <1>3, CommentCalm
<1>4. ASSUME Patient, (\E m \in Marks : Rate(m)) \/ Unrate PROVE CalmInv'
  BY <1>1, <1>4, RateCalm
<1>5. ASSUME NEW n \in 1..Len(toasts), Patient, toasts[n].again.plan = props.plan, Again(n)
      PROVE  CalmInv'
  BY <1>1, <1>5, AgainCalm
<1>6. ASSUME NEW n \in 1..Len(toasts), Close(n), calm' = calm PROVE CalmInv'
  <2>1. FewerRetries(toasts')
    BY <1>6, DismissFewer DEF Close
  <2> QED  BY <1>1, <1>6, <2>1, AsideCalm DEF Close, pageVars
<1> QED  BY <1>2, <1>3, <1>4, <1>5, <1>6 DEF Reviews, Rests

LEMMA ServeLoadCalm ==
    ASSUME TypeInv, calm, CalmInv, ServeLoad
    PROVE  CalmInv'
<1>1. /\ UNCHANGED <<plans, jobs, toasts, props, retro, verdict, route, page, status>>
      /\ load.st = "asked"
  BY DEF ServeLoad, reviewVars
<1>2. AllIdle
  BY <1>1 DEF CalmInv, LoadAlone, AllIdle
<1>3. load \in Loads
  BY PageIs DEF LoadOf
<1>4. load'.st = "answered" /\ LoadIsStored'
  <2>1. CASE load' = [load EXCEPT !.st = "answered", !.row = plans[load.plan]]
    <3> DEFINE r == plans[load.plan]
    <3> HIDE DEF r
    <3>1. \A l \in Loads : /\ [l EXCEPT !.st = "answered", !.row = r].st = "answered"
                           /\ [l EXCEPT !.st = "answered", !.row = r].plan = l.plan
                           /\ [l EXCEPT !.st = "answered", !.row = r].row = r
      BY DEF Loads
    <3>2. load'.st = "answered" /\ load'.plan = load.plan /\ load'.row = r
      BY <1>3, <2>1, <3>1 DEF r
    <3> QED  BY <1>1, <3>2 DEF LoadIsStored, r
  <2>2. CASE load' = [load EXCEPT !.st = "answered"] /\ load.plan = 0
    <3>1. \A l \in Loads : /\ [l EXCEPT !.st = "answered"].st = "answered"
                           /\ [l EXCEPT !.st = "answered"].plan = l.plan
      BY DEF Loads
    <3>2. load'.st = "answered" /\ load'.plan = 0
      BY <1>3, <2>2, <3>1
    <3> QED  BY <3>2 DEF LoadIsStored
  <2>3. ASSUME NEW p \in PlanIds, load' = [st |-> "answered", plan |-> p, row |-> plans[p]]
        PROVE  load'.st = "answered" /\ LoadIsStored'
    BY <1>1, <2>3 DEF LoadIsStored
  <2> QED  BY <2>1, <2>2, <2>3 DEF ServeLoad
<1>5. Stored \/ retro.saved = props.row.retro
  <2>1. ~RetroDone
    BY <1>2, NoJobIs DEF AllIdle, RetroDone, Done
  <2> QED  BY <2>1 DEF CalmInv, SavedIsStored, Stored
<1>6. RetriesOfField' /\ DirtyField'
  BY <1>1, FewerSame, FieldSameStays DEF FieldSame, FewerRetries
<1>7. PageSame
  BY <1>1 DEF PageSame
<1>8. IdleCalm'
  BY <1>1, <1>2, <1>4, <1>5, <1>6, <1>7, SameStays DEF IdleCalm, AllIdle, CalmInv
<1> QED  BY <1>8, IdleIsCalm, PTL

LEMMA JobMoved ==
    ASSUME TypeInv, NEW k \in Slots, NEW st, jobs' = [jobs EXCEPT ![k].st = st]
    PROVE  /\ jobs'[k].kind = jobs[k].kind /\ jobs'[k].st = st /\ jobs'[k].plan = jobs[k].plan
           /\ jobs'[k].text = jobs[k].text /\ jobs'[k].mark = jobs[k].mark
           /\ jobs'[k].inst = jobs[k].inst /\ jobs'[k].row = jobs[k].row
           /\ \A l \in Slots : l # k => jobs'[l] = jobs[l]
<1>1. jobs \in [Slots -> Jobs]
  BY ReviewIs DEF TypeInv
<1>2. \A j \in Jobs : /\ [j EXCEPT !.st = st].kind = j.kind /\ [j EXCEPT !.st = st].inst = j.inst
                      /\ [j EXCEPT !.st = st].plan = j.plan /\ [j EXCEPT !.st = st].text = j.text
                      /\ [j EXCEPT !.st = st].mark = j.mark /\ [j EXCEPT !.st = st].row = j.row
                      /\ [j EXCEPT !.st = st].st = st
  BY DEF Jobs, JobType
<1>3. jobs' = [jobs EXCEPT ![k] = [jobs[k] EXCEPT !.st = st]]
  BY <1>1
<1>4. jobs'[k] = [jobs[k] EXCEPT !.st = st] /\ \A l \in Slots : l # k => jobs'[l] = jobs[l]
  BY <1>1, <1>3
<1> QED  BY <1>1, <1>2, <1>4

\* A job that moves on without being done.
LEMMA MovedCalm ==
    ASSUME TypeInv, calm, CalmInv, NEW k \in Slots, NEW st \in {"sent", "refused", "timer"},
           jobs[k].kind # "none", ~Done(k), jobs' = [jobs EXCEPT ![k].st = st],
           UNCHANGED <<plans, props, route, page, status, load>>,
           retro'.saved = retro.saved, retro'.value = retro.value, retro'.dirty = retro.dirty,
           retro'.inst = retro.inst, FewerRetries(toasts')
    PROVE  CalmInv'
<1>1. /\ jobs'[k].kind = jobs[k].kind /\ jobs'[k].st = st /\ jobs'[k].plan = jobs[k].plan
      /\ jobs'[k].text = jobs[k].text /\ jobs'[k].mark = jobs[k].mark
      /\ jobs'[k].inst = jobs[k].inst /\ \A l \in Slots : l # k => jobs'[l] = jobs[l]
  BY JobMoved
<1>2. Only(k) /\ load.st = "none" /\ JobFits(k) /\ Stored /\ Fresh
  BY Working, NoJobIs
<1>3. \A l \in Slots : l # k => jobs'[l] = NoJob
  BY <1>1, <1>2 DEF Only
<1>4. JobFits(k)'
  BY <1>1, <1>2 DEF JobFits, OfField, Done
<1>5. RetriesOfField' /\ DirtyField'
  BY FewerStay DEF CalmInv, DirtyField
<1>6. PageSame
  BY DEF PageSame
<1> QED  BY <1>1, <1>2, <1>3, <1>4, <1>5, <1>6, PutCalm

LEMMA DueCalm ==
    ASSUME TypeInv, calm, CalmInv, NEW k \in Slots, Due(k), UNCHANGED pageVars
    PROVE  CalmInv'
<1>1. /\ jobs' = [jobs EXCEPT ![k].st = "sent"] /\ jobs[k].st \in {"wait", "timer"}
      /\ retro' = [retro EXCEPT !.waiting = IF @ = k THEN 0 ELSE @,
                                !.retrying = IF @ = k THEN 0 ELSE @]
      /\ UNCHANGED <<plans, toasts, props, route, page, status, load>>
  BY DEF Due, pageVars
<1>2. retro \in Retros
  BY ReviewIs DEF TypeInv
<1>3. /\ retro'.saved = retro.saved /\ retro'.value = retro.value /\ retro'.dirty = retro.dirty
      /\ retro'.inst = retro.inst
  BY <1>1, <1>2 DEF Retros
<1>4. jobs[k].kind # "none" /\ ~Done(k)
  BY <1>1, JobIn DEF Done
<1>5. FewerRetries(toasts')
  BY <1>1, FewerSame DEF FewerRetries
<1> QED  BY <1>1, <1>3, <1>4, <1>5, MovedCalm

\* The server refuses.
LEMMA RefusedCalm ==
    ASSUME TypeInv, calm, CalmInv, NEW k \in Slots, jobs[k].kind # "none", ~Done(k),
           jobs' = [jobs EXCEPT ![k].st = "refused"],
           UNCHANGED <<plans, toasts, props, retro, route, page, status, load>>
    PROVE  CalmInv'
<1>1. FewerRetries(toasts')
  BY FewerSame DEF FewerRetries
<1> QED  BY <1>1, MovedCalm

\* The server has done what it was asked: the rows are stored.
LEMMA DoneCalm ==
    ASSUME TypeInv, calm, CalmInv, NEW k \in Slots, jobs[k].kind # "none", ~Done(k),
           \A l \in Slots : l # k => jobs'[l] = jobs[l],
           jobs'[k].kind = jobs[k].kind, jobs'[k].mark = jobs[k].mark,
           jobs'[k].text = jobs[k].text, jobs'[k].inst = jobs[k].inst,
           jobs'[k].plan = jobs[k].plan \/ jobs[k].kind \in {"create", "clone"},
           jobs'[k].st = "done",
           UNCHANGED <<toasts, props, retro, route, page, status, load>>,
           page.plan # 0 => plans'[page.plan].status # "unborn",
           jobs[k].kind \in Patches \cup {"create"} =>
               jobs'[k].row = plans'[jobs'[k].plan] /\ jobs'[k].row.status # "unborn",
           jobs[k].kind = "retro" => plans'[jobs'[k].plan].retro = jobs[k].text,
           jobs[k].kind = "retro" \/ (Stored => Stored'),
           Reloads(jobs[k]) \/ (Fresh => Fresh')
    PROVE  CalmInv'
<1>1. Only(k) /\ load.st = "none" /\ JobFits(k) /\ Stored /\ Fresh
  BY Working, NoJobIs
<1>2. Only(k)'
  BY <1>1 DEF Only
<1>3. JobFits(k)'
  BY <1>1 DEF JobFits, OfField, Done
<1>4. RetriesOfField' /\ DirtyField'
  BY FewerSame, FieldSameStays DEF FieldSame, FewerRetries
<1>5. PageBorn'
  BY DEF PageBorn
<1>6. Stored' \/ (Done(k)' /\ jobs'[k].kind = "retro")
  BY <1>1 DEF Done
<1>7. Fresh' \/ (Done(k)' /\ Reloads(jobs'[k]))
  BY <1>1 DEF Done, Reloads
<1>8. OneCalm(k)'
  BY <1>1, <1>2, <1>3, <1>4, <1>5, <1>6, <1>7 DEF OneCalm
<1>9. SomeCalm'
  BY <1>8 DEF SomeCalm
<1> QED  BY <1>9, OneIsCalm, PTL

\* Rows whose retrospective, and whether they are live, are as before.
LEMMA StoredStays ==
    ASSUME UNCHANGED <<props, retro>>,
           props.plan # 0 /\ Live(props.plan)' =>
               Live(props.plan) /\ plans'[props.plan].retro = plans[props.plan].retro,
           Stored
    PROVE  Stored'
BY DEF Stored, Live

LEMMA ReviewedIs ==
    ASSUME TypeInv, NEW k \in Slots, jobs[k].kind \in {"retro", "rate", "unrate"}
    PROVE  /\ Reviewed(jobs[k]).status = plans[jobs[k].plan].status
           /\ jobs[k].kind = "retro" =>
                /\ Reviewed(jobs[k]).retro = jobs[k].text
                /\ Same(Reviewed(jobs[k]), plans[jobs[k].plan])
           /\ jobs[k].kind # "retro" => Reviewed(jobs[k]).retro = plans[jobs[k].plan].retro
<1> DEFINE r == plans[jobs[k].plan]
           t == jobs[k].text
           m == jobs[k].mark
<1>1. r \in RowType
  BY JobIn, ReviewIs DEF TypeInv
<1> HIDE DEF r, t, m
<1>2. /\ [r EXCEPT !.retro = t].status = r.status /\ [r EXCEPT !.retro = t].retro = t
      /\ [[r EXCEPT !.retro = t] EXCEPT !.retro = 0] = [r EXCEPT !.retro = 0]
  BY <1>1 DEF RowType
<1>3. /\ [r EXCEPT !.mark = m, !.words = t].status = r.status
      /\ [r EXCEPT !.mark = m, !.words = t].retro = r.retro
  BY <1>1 DEF RowType
<1>4. /\ [r EXCEPT !.mark = "none", !.words = 0].status = r.status
      /\ [r EXCEPT !.mark = "none", !.words = 0].retro = r.retro
  BY <1>1 DEF RowType
<1>5. CASE jobs[k].kind = "retro"
  BY <1>2, <1>5 DEF Reviewed, Same, r, t
<1>6. CASE jobs[k].kind = "rate"
  BY <1>3, <1>6 DEF Reviewed, r, t, m
<1>7. CASE jobs[k].kind = "unrate"
  BY <1>4, <1>7 DEF Reviewed, r
<1> QED  BY <1>5, <1>6, <1>7

LEMMA ServeReviewCalm ==
    ASSUME TypeInv, calm, CalmInv, NEW k \in Slots, ServeReview(k), UNCHANGED pageVars
    PROVE  CalmInv'
<1> DEFINE p == jobs[k].plan
           row == Reviewed(jobs[k])
           st == IF Live(p) \/ jobs[k].kind = "unrate" THEN "done" ELSE "refused"
<1>1. /\ jobs[k].kind \in {"retro", "rate", "unrate"} /\ jobs[k].kind # "none" /\ ~Done(k)
      /\ plans' = IF Live(p) THEN [plans EXCEPT ![p] = row] ELSE plans
      /\ jobs' = [jobs EXCEPT ![k].st = st]
      /\ UNCHANGED <<toasts, props, retro, route, page, status, load>>
  BY DEF ServeReview, pageVars, Done
<1>2. plans \in [PlanIds -> RowType] /\ p \in PlanIds
  BY <1>1, ReviewIs, JobIn DEF TypeInv
<1>3. /\ jobs'[k].kind = jobs[k].kind /\ jobs'[k].st = st /\ jobs'[k].plan = jobs[k].plan
      /\ jobs'[k].text = jobs[k].text /\ jobs'[k].mark = jobs[k].mark
      /\ jobs'[k].inst = jobs[k].inst /\ \A l \in Slots : l # k => jobs'[l] = jobs[l]
  <2> HIDE DEF st
  <2> QED  BY <1>1, JobMoved
<1>4. CASE ~Live(p) /\ jobs[k].kind # "unrate"
  BY <1>1, <1>4, RefusedCalm
<1>5. CASE Live(p) \/ jobs[k].kind = "unrate"
  <2>1. /\ row.status = plans[p].status
        /\ jobs[k].kind = "retro" => row.retro = jobs[k].text /\ Same(row, plans[p])
        /\ jobs[k].kind # "retro" => row.retro = plans[p].retro
    BY <1>1, ReviewedIs
  <2>2. PageBorn /\ page.plan \in 0..MaxPlan
    BY PageIs DEF CalmInv
  <2>3. \A q \in PlanIds : plans'[q] = IF q = p /\ Live(p) THEN row ELSE plans[q]
    BY <1>1, <1>2
  <2> HIDE DEF row
  <2>4. \A q \in PlanIds : plans'[q].status = plans[q].status
    BY <2>1, <2>3
  <2>5. page.plan # 0 => plans'[page.plan].status # "unborn"
    BY <2>2, <2>4, Numbers DEF PageBorn, PlanIds
  <2>6. jobs[k].kind = "retro" => plans'[jobs'[k].plan].retro = jobs[k].text
    BY <1>2, <1>3, <1>5, <2>1, <2>3
  <2>7. jobs[k].kind = "retro" \/ (Stored => Stored')
    <3>1. ASSUME jobs[k].kind # "retro", Stored PROVE Stored'
      <4>1. \A q \in PlanIds : plans'[q].retro = plans[q].retro
        BY <2>1, <2>3, <3>1
      <4>2. props.plan # 0 => props.plan \in PlanIds
        BY PropsTyped, PlanTyped
      <4> QED  BY <1>1, <2>4, <3>1, <4>1, <4>2, StoredStays DEF Live
    <3> QED  BY <3>1
  <2>8. Reloads(jobs[k]) \/ (Fresh => Fresh')
    <3>1. ASSUME jobs[k].kind = "retro", Fresh PROVE Fresh'
      <4>1. \A q \in PlanIds : Same(plans'[q], plans[q])
        BY <2>1, <2>3, <3>1 DEF Same
      <4>2. Shown.plan # 0 => Shown.plan \in PlanIds
        BY PropsTyped, PlanTyped
      <4>3. Shown' = Shown
        BY <1>1 DEF Shown
      <4> QED  BY <3>1, <4>1, <4>2, <4>3 DEF Fresh, Same
    <3> QED  BY <1>1, <3>1 DEF Reloads
  <2>9. jobs'[k].st = "done" /\ jobs[k].kind \notin Patches \cup {"create"}
    BY <1>1, <1>3, <1>5 DEF Patches
  <2> HIDE DEF st, p
  <2> QED  BY <1>1, <1>3, <2>5, <2>6, <2>7, <2>8, <2>9, DoneCalm
<1> QED  BY <1>4, <1>5

LEMMA AnswersIs ==
    ASSUME TypeInv, NEW k \in Slots, NEW p \in PlanIds, NEW row, Answers(k, p, row)
    PROVE  /\ jobs'[k].kind = jobs[k].kind /\ jobs'[k].st = "done" /\ jobs'[k].plan = p
           /\ jobs'[k].text = jobs[k].text /\ jobs'[k].mark = jobs[k].mark
           /\ jobs'[k].inst = jobs[k].inst /\ jobs'[k].row = row
           /\ \A l \in Slots : l # k => jobs'[l] = jobs[l]
           /\ \A q \in PlanIds : plans'[q] = IF q = p THEN row ELSE plans[q]
<1> DEFINE a == [jobs[k] EXCEPT !.st = "done", !.plan = p, !.row = row]
<1>1. jobs \in [Slots -> Jobs] /\ plans \in [PlanIds -> RowType]
  BY ReviewIs DEF TypeInv
<1>2. jobs' = [jobs EXCEPT ![k] = a] /\ plans' = [plans EXCEPT ![p] = row]
  BY <1>1 DEF Answers
<1>3. /\ a.kind = jobs[k].kind /\ a.st = "done" /\ a.plan = p /\ a.text = jobs[k].text
      /\ a.mark = jobs[k].mark /\ a.inst = jobs[k].inst /\ a.row = row
  <2>1. \A j \in Jobs : LET b == [j EXCEPT !.st = "done", !.plan = p, !.row = row] IN
          /\ b.kind = j.kind /\ b.st = "done" /\ b.plan = p /\ b.text = j.text
          /\ b.mark = j.mark /\ b.inst = j.inst /\ b.row = row
    BY DEF Jobs, JobType
  <2> QED  BY <1>1, <2>1
<1> HIDE DEF a
<1>4. jobs'[k] = a /\ \A l \in Slots : l # k => jobs'[l] = jobs[l]
  BY <1>1, <1>2
<1> QED  BY <1>1, <1>2, <1>3, <1>4

\* A patch, or a deletion: the row of one plan is another one.
LEMMA ServePatchCalm ==
    ASSUME TypeInv, calm, CalmInv, NEW k \in Slots, ServePatch(k) \/ ServeDelete(k)
    PROVE  CalmInv'
<1>1. /\ jobs[k].kind \in Patches \cup {"delete"} /\ jobs[k].kind # "none" /\ ~Done(k)
      /\ UNCHANGED <<toasts, props, retro, route, page, status, load>>
  BY DEF ServePatch, ServeDelete, Patches, Done, Serving, editorVars, pageVars
<1>2. plans \in [PlanIds -> RowType] /\ jobs[k].plan \in PlanIds
  BY <1>1, ReviewIs, JobIn DEF TypeInv, Patches
<1>3. CASE Refuses(k)
  BY <1>1, <1>3, RefusedCalm DEF Refuses
<1>4. PageBorn /\ PageOf(page) /\ page.plan \in 0..MaxPlan
  BY PageIs DEF CalmInv
<1>5. props.plan # 0 => props.plan \in PlanIds
  BY PropsTyped, PlanTyped
<1>6. Shown.plan # 0 => Shown.plan \in PlanIds /\ Shown.plan = page.plan
  BY PropsTyped, PlanTyped, EmptyTyped DEF Shown, WeekView
<1>7. Shown' = Shown
  BY <1>1 DEF Shown
<1>8. JobFits(k)
  BY <1>1, Working, NoJobIs
<1>9. ASSUME NEW row, Answers(k, jobs[k].plan, row), row.status # "unborn",
             row.status \in Statuses => Live(jobs[k].plan) /\ row.retro = plans[jobs[k].plan].retro
      PROVE  CalmInv'
  <2> DEFINE p == jobs[k].plan
  <2>1. /\ jobs'[k].kind = jobs[k].kind /\ jobs'[k].st = "done" /\ jobs'[k].plan = p
        /\ jobs'[k].text = jobs[k].text /\ jobs'[k].mark = jobs[k].mark
        /\ jobs'[k].inst = jobs[k].inst /\ jobs'[k].row = row
        /\ \A l \in Slots : l # k => jobs'[l] = jobs[l]
        /\ \A q \in PlanIds : plans'[q] = IF q = p THEN row ELSE plans[q]
    BY <1>2, <1>9, AnswersIs
  <2>2. page.plan # 0 => plans'[page.plan].status # "unborn"
    BY <1>4, <1>9, <2>1, Numbers DEF PageBorn, PlanIds
  <2>3. jobs'[k].row = plans'[jobs'[k].plan] /\ jobs'[k].row.status # "unborn"
    BY <1>2, <1>9, <2>1
  <2>4. Stored => Stored'
    BY <1>1, <1>5, <1>9, <2>1, StoredStays DEF Live
  <2>5. Reloads(jobs[k]) \/ (Fresh => Fresh')
    <3>1. CASE jobs[k].kind \in Patches \/ jobs[k].mark = "loaded"
      BY <1>1, <3>1 DEF Reloads
    <3>2. CASE jobs[k].kind = "delete" /\ jobs[k].mark # "loaded"
      <4>1. page.plan # p
        BY <1>8, <3>2 DEF JobFits
      <4> QED  BY <1>6, <1>7, <2>1, <4>1 DEF Fresh
    <3> QED  BY <1>1, <3>1, <3>2
  <2>6. jobs[k].kind # "retro"
    BY <1>1 DEF Patches
  <2> HIDE DEF p
  <2> QED  BY <1>1, <2>1, <2>2, <2>3, <2>4, <2>5, <2>6, DoneCalm DEF p
<1>10. CASE ServeDelete(k)
  <2>1. Answers(k, jobs[k].plan, Row("gone")) /\ Row("gone").status = "gone"
    BY <1>10, EmptyTyped DEF ServeDelete
  <2> QED  BY <1>9, <2>1, Numbers
<1>11. CASE ServePatch(k) /\ Live(jobs[k].plan)
  <2>1. Answers(k, jobs[k].plan, Patched(jobs[k])) /\ jobs[k].kind \in Patches
    BY <1>11 DEF ServePatch
  <2>2. /\ Patched(jobs[k]).status \in Statuses
        /\ Patched(jobs[k]).retro = plans[jobs[k].plan].retro
    <3> DEFINE r == plans[jobs[k].plan]
               t == jobs[k].text
               m == jobs[k].mark
    <3>1. r \in RowType /\ r.status \in Statuses /\ (jobs[k].kind = "status" => m \in Statuses)
      BY <1>2, <1>11, ReviewIs DEF TypeInv, Jobs, Live
    <3> HIDE DEF r, t, m
    <3>2. /\ [r EXCEPT !.notes = t].status = r.status /\ [r EXCEPT !.notes = t].retro = r.retro
          /\ [r EXCEPT !.status = m].status = m /\ [r EXCEPT !.status = m].retro = r.retro
          /\ [r EXCEPT !.days = t].status = r.status /\ [r EXCEPT !.days = t].retro = r.retro
      BY <3>1 DEF RowType
    <3>3. CASE jobs[k].kind = "notes"
      BY <3>1, <3>2, <3>3 DEF Patched, r, t
    <3>4. CASE jobs[k].kind = "status"
      BY <3>1, <3>2, <3>4 DEF Patched, r, m
    <3>5. CASE jobs[k].kind = "end"
      BY <3>1, <3>2, <3>5 DEF Patched, r, t
    <3> QED  BY <2>1, <3>3, <3>4, <3>5 DEF Patches
  <2> QED  BY <1>9, <1>11, <2>1, <2>2, Numbers
<1>12. CASE ServePatch(k) /\ ~Live(jobs[k].plan)
  BY <1>3, <1>12 DEF ServePatch
<1> QED  BY <1>10, <1>11, <1>12

LEMMA ServeNewCalm ==
    ASSUME TypeInv, calm, CalmInv, NEW k \in Slots, ServeNew(k)
    PROVE  CalmInv'
<1>1. /\ jobs[k].kind \in {"create", "clone"} /\ jobs[k].kind # "none" /\ ~Done(k)
      /\ UNCHANGED <<toasts, props, retro, route, page, status, load>>
  BY DEF ServeNew, Done, Serving, editorVars, pageVars
<1>2. CASE Refuses(k)
  BY <1>1, <1>2, RefusedCalm DEF Refuses
<1>3. CASE ~Refuses(k)
  <2> DEFINE row == IF jobs[k].kind = "create" THEN Row("draft")
                    ELSE [Row("draft") EXCEPT !.days = plans[jobs[k].plan].days]
  <2>1. PICK p \in PlanIds : plans[p].status = "unborn" /\ Answers(k, p, row)
    BY <1>3 DEF ServeNew
  <2>2. row.status = "draft"
    BY DEF Row
  <2> HIDE DEF row
  <2>3. /\ jobs'[k].kind = jobs[k].kind /\ jobs'[k].st = "done" /\ jobs'[k].plan = p
        /\ jobs'[k].text = jobs[k].text /\ jobs'[k].mark = jobs[k].mark
        /\ jobs'[k].inst = jobs[k].inst /\ jobs'[k].row = row
        /\ \A l \in Slots : l # k => jobs'[l] = jobs[l]
        /\ \A q \in PlanIds : plans'[q] = IF q = p THEN row ELSE plans[q]
    BY <2>1, AnswersIs
  <2>4. page.plan # 0 => plans[page.plan].status # "unborn" /\ page.plan \in PlanIds /\ page.plan # p
    BY <2>1, PropsTyped, PlanTyped DEF CalmInv, PageBorn
  <2>5. page.plan # 0 => plans'[page.plan] = plans[page.plan]
    BY <2>3, <2>4
  <2>6. /\ Shown.plan # 0 => Shown.plan = page.plan
        /\ props.plan # 0 => props.plan = page.plan
    BY EmptyTyped DEF Shown, WeekView, TypeInv, PageTypes, Rateable
  <2>7. Stored => Stored'
    BY <1>1, <2>5, <2>6, StoredStays DEF Live
  <2>8. Shown' = Shown
    BY <1>1 DEF Shown
  <2>9. Fresh => Fresh'
    BY <2>5, <2>6, <2>8 DEF Fresh
  <2>10. jobs'[k].row = plans'[jobs'[k].plan] /\ jobs'[k].row.status # "unborn"
    BY <2>2, <2>3
  <2> QED  BY <1>1, <2>3, <2>4, <2>5, <2>7, <2>9, <2>10, DoneCalm
<1> QED  BY <1>2, <1>3

\* A job ends without a rendering.
LEMMA EndCalm ==
    ASSUME TypeInv, calm, CalmInv, NEW k \in Slots, jobs[k].kind # "none",
           ~(Done(k) /\ (jobs[k].kind = "retro" \/ Reloads(jobs[k]))), jobs' = End(k),
           UNCHANGED <<plans, props, route, page, status, load>>, retro' = retro,
           RetriesOfField'
    PROVE  CalmInv'
<1>1. Only(k) /\ load.st = "none" /\ Stored /\ Fresh
  BY Working, NoJobIs
<1>2. \A l \in Slots : jobs'[l] = NoJob
  BY <1>1, OnlyEnds
<1>3. LoadIsStored' /\ DirtyField' /\ PageSame
  BY <1>1 DEF CalmInv, LoadIsStored, DirtyField, PageSame
<1> QED  BY <1>1, <1>2, <1>3, IdleCalmStep

LEMMA ReportedCalm ==
    ASSUME TypeInv, calm, CalmInv, NEW k \in Slots, jobs[k].kind # "none",
           ~(Done(k) /\ (jobs[k].kind = "retro" \/ Reloads(jobs[k]))), jobs' = End(k),
           UNCHANGED <<plans, props, retro, route, page, status, load>>,
           \/ toasts' = toasts \/ toasts' = Report(toasts, "error")
           \/ toasts' = Report(toasts, "success")
    PROVE  CalmInv'
<1>1. FewerRetries(toasts')
  <2>1. "error" \in {"error", "success"} /\ "success" \in {"error", "success"}
    OBVIOUS
  <2> QED  BY <2>1, FewerSame, ReportFewer
<1>2. RetriesOfField'
  BY <1>1, FieldSameStays DEF FieldSame
<1> QED  BY <1>2, EndCalm

LEMMA RetroSavedCalm ==
    ASSUME TypeInv, calm, CalmInv, NEW k \in Slots, RetroSaved(k), UNCHANGED pageVars
    PROVE  CalmInv'
<1>1. /\ jobs[k].kind = "retro" /\ Done(k) /\ jobs' = End(k)
      /\ toasts' = Dismiss(toasts, RetroToast(jobs[k].plan))
      /\ UNCHANGED <<plans, props, route, page, status, load>>
  BY DEF RetroSaved, Done, pageVars
<1>2. Only(k) /\ load.st = "none" /\ JobFits(k) /\ Fresh
  <2>1. ~Reloads(jobs[k])
    BY <1>1 DEF Reloads, Patches
  <2> QED  BY <1>1, <2>1, Working, NoJobIs
<1>3. OfField(jobs[k]) /\ plans[jobs[k].plan].retro = jobs[k].text
  BY <1>1, <1>2 DEF JobFits
<1>4. retro' = [retro EXCEPT !.saved = jobs[k].text, !.dirty = FALSE] /\ retro \in Retros
  BY <1>3, ReviewIs DEF RetroSaved, Mine, OfField, TypeInv
<1>5. /\ retro'.saved = jobs[k].text /\ retro'.dirty = FALSE /\ retro'.value = retro.value
      /\ retro'.inst = retro.inst
  <2> DEFINE t == jobs[k].text
  <2> HIDE DEF t
  <2>1. \A r \in Retros : LET s == [r EXCEPT !.saved = t, !.dirty = FALSE] IN
          s.saved = t /\ s.dirty = FALSE /\ s.value = r.value /\ s.inst = r.inst
    BY DEF Retros
  <2> QED  BY <1>4, <2>1 DEF t
<1>6. AllIdle'
  BY <1>1, <1>2, OnlyEnds DEF AllIdle
<1>7. DirtyField'
  BY <1>3, <1>5 DEF DirtyField, OfField
<1>8. Stored'
  BY <1>1, <1>3, <1>5 DEF Stored, OfField
<1>9. RetriesOfField'
  BY <1>1, <1>5, DismissFewer, FewerStay DEF CalmInv
<1>10. Shown' = Shown
  BY <1>1 DEF Shown
<1>11. Fresh' /\ PageBorn' /\ LoadIsStored'
  BY <1>1, <1>2, <1>10 DEF Fresh, PageBorn, LoadIsStored, CalmInv
<1>12. IdleCalm'
  BY <1>6, <1>7, <1>8, <1>9, <1>11 DEF IdleCalm
<1> QED  BY <1>12, IdleIsCalm, PTL

LEMMA RateSavedCalm ==
    ASSUME TypeInv, calm, CalmInv, NEW k \in Slots, RateSaved(k), load' = Loading(route, page),
           UNCHANGED <<route, page, status>>
    PROVE  CalmInv'
<1>1. /\ jobs[k].kind \in {"rate", "unrate"} /\ jobs' = End(k)
      /\ UNCHANGED <<plans, toasts, props, retro>>
  BY DEF RateSaved
<1>2. Only(k) /\ Stored
  BY <1>1, Working, NoJobIs
<1>3. AllIdle'
  BY <1>1, <1>2, OnlyEnds DEF AllIdle
<1>4. /\ load'.st # "answered"
      /\ route \notin {Home, New} => load'.st # "none"
  BY LoadingAsks, PageIs DEF PageOf
<1>5. Shown' = Shown /\ (Shown.plan # 0 => route \notin {Home, New})
  BY EmptyTyped DEF Shown, WeekView
<1>6. LoadIsStored' /\ (load'.st = "none" => Fresh')
  BY <1>4, <1>5 DEF LoadIsStored, Fresh
<1>7. RetriesOfField' /\ DirtyField'
  BY <1>1, FewerSame, FieldSameStays DEF FieldSame, FewerRetries
<1>8. PageSame
  BY <1>1 DEF PageSame
<1>9. IdleCalm'
  BY <1>2, <1>3, <1>6, <1>7, <1>8, SameStays DEF IdleCalm, CalmInv
<1> QED  BY <1>9, IdleIsCalm, PTL

\* A save that failed is retried as it was.
LEMMA RetroFailedCalm ==
    ASSUME TypeInv, calm, CalmInv, NEW k \in Slots, RetroFailed(k), ~Done(k), UNCHANGED pageVars
    PROVE  CalmInv'
<1> DEFINE last == tries[jobs[k].inst] + 1 >= MaxAttempts
           a == IF last THEN [jobs[k] EXCEPT !.st = "sent"] ELSE NoJob
           n == Notice(RetroToast(jobs[k].plan), "error", a)
<1>1. /\ jobs[k].kind = "retro" /\ toasts' = Add(toasts, n)
      /\ jobs' = IF last THEN End(k) ELSE [jobs EXCEPT ![k].st = "timer"]
      /\ retro' = IF Mine(k) /\ ~last THEN [retro EXCEPT !.retrying = k] ELSE retro
      /\ UNCHANGED <<plans, props, route, page, status, load>>
  BY DEF RetroFailed, pageVars
<1>2. QueueOf(toasts, Notices) /\ retro \in Retros /\ jobs[k] \in Jobs
  BY ReviewIs, JobIn DEF TypeInv
<1>3. OfField(jobs[k])
  BY <1>1 DEF CalmInv, JobsOfField
<1>4. n \in Notices /\ n.again = a
  <2>1. n \in Notices
    BY <1>1, RetryNotice
  <2> QED  BY <2>1 DEF Notice
<1>5. a.kind = "retro" => last /\ OfField(a)
  <2>1. [jobs[k] EXCEPT !.st = "sent"].plan = jobs[k].plan
        /\ [jobs[k] EXCEPT !.st = "sent"].inst = jobs[k].inst
        /\ [jobs[k] EXCEPT !.st = "sent"].text = jobs[k].text
    BY <1>2 DEF Jobs, JobType
  <2> QED  BY <1>3, <2>1, NoJobIs DEF OfField
<1>6. GrownBy(toasts', toasts, n)
  <2> HIDE DEF n
  <2> QED  BY <1>1, <1>2, <1>4, AddOne
<1>7. ~last => FewerRetries(toasts')
  BY <1>4, <1>6 DEF FewerRetries, GrownBy
<1> HIDE DEF a, n, last
<1>8. CASE last
  <2>1. retro' = retro /\ jobs' = End(k)
    BY <1>1, <1>8
  <2>2. RetriesOfField
    BY DEF CalmInv
  <2>3. RetriesOfField'
    <3> SUFFICES ASSUME NEW i \in 1..Len(toasts'), toasts'[i].again.kind = "retro",
                        toasts'[i].again.plan = props.plan
                 PROVE  OfField(toasts'[i].again)
      BY <1>1, <2>1 DEF RetriesOfField, OfField
    <3>1. toasts'[i] = n \/ \E m \in 1..Len(toasts) : toasts'[i] = toasts[m]
      BY <1>6 DEF GrownBy
    <3> QED  BY <1>4, <1>5, <2>2, <3>1 DEF RetriesOfField
  <2> QED  BY <1>1, <2>1, <2>3, EndCalm
<1>9. CASE ~last
  <2>1. /\ retro'.saved = retro.saved /\ retro'.value = retro.value /\ retro'.dirty = retro.dirty
        /\ retro'.inst = retro.inst
    BY <1>1, <1>2 DEF Retros
  <2> QED  BY <1>1, <1>7, <1>9, <2>1, MovedCalm
<1> QED  BY <1>8, <1>9

LEMMA FailsCalm ==
    ASSUME TypeInv, calm, CalmInv, NEW k \in Slots, Fails(k)
    PROVE  CalmInv'
<1>1. ~Done(k)
  BY DEF Fails, Done
<1>2. CASE RetroFailed(k)
  <2>1. UNCHANGED pageVars
    BY <1>2 DEF Fails, RetroFailed, PatchFailed, CreateFailed, CloneFailed, DeleteFailed, Patches
  <2> QED  BY <1>1, <1>2, <2>1, RetroFailedCalm
<1>3. CASE ~RetroFailed(k)
  <2>1. /\ jobs[k].kind # "none" /\ jobs' = End(k)
        /\ UNCHANGED <<plans, props, retro, route, page, status, load>>
        /\ toasts' = toasts \/ toasts' = Report(toasts, "error")
    BY <1>3 DEF Fails, RateFailed, PatchFailed, CreateFailed, CloneFailed, DeleteFailed, Patches,
                editorVars, pageVars
  <2> QED  BY <1>1, <2>1, ReportedCalm
<1> QED  BY <1>2, <1>3

LEMMA CalmStays ==
    ASSUME [Next]_vars
    PROVE  calm' = calm
<1>1. CASE UNCHANGED vars
  BY <1>1 DEF vars
<1>2. CASE UserActs
  <2>1. ASSUME NEW r \in Routes, Go(r) PROVE calm' = calm
    BY <2>1 DEF Go, Rests
  <2>2. CASE Refresh
    BY <2>2 DEF Refresh, Rests
  <2>3. CASE Reviews
    BY <2>3 DEF Reviews, Works, Rests
  <2>4. CASE OpenNotes \/ (\E t \in Texts : DraftNotes(t)) \/ CloseNotes
    BY <2>4 DEF OpenNotes, DraftNotes, CloseNotes, Edits, Rests
  <2>5. CASE CommitNotes \/ Submit \/ ConfirmDuplicate
    BY <2>5 DEF CommitNotes, Submit, ConfirmDuplicate, Begin, Works
  <2>6. CASE \/ \E s \in Statuses : PickStatus(s)
             \/ \E n \in 1..MaxDays : PickEnd(n)
             \/ \E p \in PlanIds : Delete(p)
    BY <2>6 DEF PickStatus, PickEnd, Delete, Begin, Works
  <2>7. CASE (\E p \in PlanIds : Duplicate(p)) \/ CancelDuplicate
    BY <2>7 DEF Duplicate, CancelDuplicate, Rests
  <2> QED  BY <1>2, <2>1, <2>2, <2>3, <2>4, <2>5, <2>6, <2>7 DEF UserActs
<1>3. CASE \E p \in PlanIds : Elsewhere(p)
  BY <1>3 DEF Elsewhere, Works
<1>4. CASE ServeLoad \/ Loaded \/ LoadFailed
  BY <1>4 DEF ServeLoad, Loaded, LoadFailed, Rests
<1>5. ASSUME NEW k \in Slots, Serve(k) PROVE calm' = calm
  BY <1>5 DEF Serve, ServePatch, ServeNew, ServeDelete, Serving, Rests
<1>6. ASSUME NEW k \in Slots, Answered(k) PROVE calm' = calm
  BY <1>6 DEF Answered, PatchDone, Created, Cloned, Deleted, Rests
<1>7. ASSUME NEW k \in Slots, Fails(k) PROVE calm' = calm
  BY <1>7 DEF Fails, PatchFailed, CreateFailed, CloneFailed, DeleteFailed, Rests
<1> QED  BY <1>1, <1>2, <1>3, <1>4, <1>5, <1>6, <1>7 DEF Next

LEMMA StayedCalm ==
    ASSUME TypeInv, TypeInv', calm, CalmInv, NEW k \in Slots, Answered(k)
    PROVE  CalmInv'
<1>1. CASE RetroSaved(k)
  <2>1. jobs[k].kind = "retro"
    BY <1>1 DEF RetroSaved
  <2>2. UNCHANGED pageVars
    BY <1>1, <2>1 DEF Answered, RateSaved, PatchDone, Created, Cloned, Deleted, Patches
  <2> QED  BY <1>1, <2>2, RetroSavedCalm
<1>2. CASE RateSaved(k)
  <2>1. jobs[k].kind \in {"rate", "unrate"}
    BY <1>2 DEF RateSaved
  <2>2. load' = Loading(route, page) /\ UNCHANGED <<route, page, status>>
    BY <1>2, <2>1 DEF Answered, RetroSaved, PatchDone, Created, Cloned, Deleted, Patches
  <2> QED  BY <1>2, <2>2, RateSavedCalm
<1>3. CASE PatchDone(k) \/ Created(k) \/ Cloned(k)
  BY <1>3, AnsweredCalm
<1>4. CASE Deleted(k) /\ jobs[k].mark = "loaded"
  BY <1>4, DeletedCalm
<1>5. CASE Deleted(k) /\ jobs[k].mark # "loaded"
  <2>1. /\ jobs[k].kind = "delete" /\ jobs' = End(k) /\ toasts' = Report(toasts, "success")
        /\ UNCHANGED <<plans, props, retro, route, page, status, load>>
    BY <1>5 DEF Deleted, editorVars
  <2>2. jobs[k].kind # "none" /\ ~(jobs[k].kind = "retro" \/ Reloads(jobs[k]))
    BY <1>5, <2>1 DEF Reloads, Patches
  <2> QED  BY <2>1, <2>2, ReportedCalm
<1> QED  BY <1>1, <1>2, <1>3, <1>4, <1>5 DEF Answered

LEMMA ServedCalm ==
    ASSUME TypeInv, calm, CalmInv, NEW k \in Slots, Serve(k)
    PROVE  CalmInv'
<1>1. CASE ServePatch(k) \/ ServeDelete(k)
  BY <1>1, ServePatchCalm
<1>2. CASE ServeNew(k)
  BY <1>2, ServeNewCalm
<1>3. CASE (Due(k) \/ ServeReview(k)) /\ UNCHANGED pageVars
  BY <1>3, DueCalm, ServeReviewCalm
<1> QED  BY <1>1, <1>2, <1>3 DEF Serve

LEMMA CalmStep == TypeInv /\ TypeInv' /\ PendingIsShown /\ CalmInv /\ [Next]_vars => CalmInv'
<1> SUFFICES ASSUME TypeInv, TypeInv', PendingIsShown, CalmInv, [Next]_vars, calm
             PROVE  CalmInv'
  BY CalmStays DEF CalmInv
<1>1. CASE UNCHANGED vars
  <2>1. FewerRetries(toasts')
    BY <1>1, FewerSame DEF vars, reviewVars, FewerRetries
  <2> QED  BY <1>1, <2>1, AsideCalm DEF vars, reviewVars, pageVars
<1>2. CASE UserActs
  <2>1. ASSUME NEW r \in Routes, Go(r) PROVE CalmInv'
    BY <2>1, GoCalm
  <2>2. CASE \/ OpenNotes \/ (\E t \in Texts : DraftNotes(t)) \/ CloseNotes
             \/ (\E p \in PlanIds : Duplicate(p)) \/ CancelDuplicate
    <3>1. UNCHANGED <<plans, jobs, toasts, props, retro, verdict, route, page, status, load, calm>>
      BY <2>2 DEF OpenNotes, DraftNotes, CloseNotes, Edits, Duplicate, CancelDuplicate,
                  reviewVars, Rests
    <3>2. FewerRetries(toasts')
      BY <3>1, FewerSame DEF FewerRetries
    <3> QED  BY <3>1, <3>2, AsideCalm
  <2> QED  BY <1>2, <2>1, <2>2, RefreshCalm, ReviewsCalm, BeginsCalm DEF UserActs
<1>3. CASE \E p \in PlanIds : Elsewhere(p)
  BY <1>3 DEF Elsewhere
<1>4. CASE ServeLoad \/ Loaded \/ LoadFailed
  BY <1>4, ServeLoadCalm, LoadedCalm
<1>5. ASSUME NEW k \in Slots, Serve(k) \/ Answered(k) \/ Fails(k) PROVE CalmInv'
  BY <1>5, ServedCalm, StayedCalm, FailsCalm
<1> QED  BY <1>1, <1>2, <1>3, <1>4, <1>5 DEF Next

LEMMA CalmInit ==
    ASSUME Init
    PROVE  CalmInv
<1>1. AllIdle /\ RetriesOfField
  BY DEF Init, AllIdle, RetriesOfField
<1>2. NoPage.plan = 0
  BY DEF NoPage
<1>3. DirtyField /\ Stored /\ PageBorn
  BY <1>2 DEF Init, DirtyField, Stored, PageBorn
<1>4. Fresh
  BY <1>2 DEF Init, Fresh, Shown, WeekView
<1>5. LoadIsStored
  <2>1. PageOf(NoPage) /\ route \in Routes
    BY PageIs, TypeInit DEF Init
  <2>2. load.st # "answered"
    BY <2>1, LoadingAsks DEF Init, PageOf
  <2> QED  BY <2>2 DEF LoadIsStored
<1> QED  BY <1>1, <1>3, <1>4, <1>5, IdleIsCalm DEF IdleCalm

LEMMA CalmAlways == Spec => [](TypeInv /\ PendingIsShown /\ CalmInv)
<1>1. Init => TypeInv /\ PendingIsShown /\ CalmInv
  <2>1. Init => PendingIsShown
    BY DEF Init, PendingIsShown, NoJob
  <2> QED  BY <2>1, TypeInit, CalmInit
<1>2. TypeInv /\ PendingIsShown /\ [Next]_vars => (TypeInv /\ PendingIsShown)'
  BY TypeStep, PendingStep
<1> QED  BY <1>1, <1>2, CalmStep, PTL DEF Spec

\* When the user waits for what is under way, every retry that the mounted
\* retrospective may still make for its plan, by its timer or by the button of
\* the notice, writes what the field holds (WeekRetrospective, onRetry and
\* "would overwrite a newer save").
THEOREM RetriesLatest == Spec => []RetryIsLatest
<1>1. CalmInv => RetryIsLatest
  <2> SUFFICES ASSUME CalmInv, calm, NEW j \in Retries, j.kind = "retro", j.plan = props.plan
               PROVE  j.text = retro.value
    BY DEF RetryIsLatest
  <2>1. CASE \E k \in Slots : j = jobs[k]
    BY <2>1 DEF CalmInv, JobsOfField, OfField
  <2>2. CASE \E n \in 1..Len(toasts) : j = toasts[n].again
    BY <2>2 DEF CalmInv, RetriesOfField, OfField
  <2> QED  BY <2>1, <2>2 DEF Retries
<1> QED  BY <1>1, CalmAlways, PTL

\* When the user waits for what is under way, the warning on leaving is armed
\* as long as the field is not what is stored (WeekRetrospective, dirty and the
\* listener of beforeunload).
THEOREM DirtyWarns == Spec => []CalmDirty
<1>1. CalmInv => CalmDirty
  <2> SUFFICES ASSUME CalmInv, calm, load.st = "none", Unsaved
               PROVE  retro.dirty
    BY DEF CalmDirty
  <2>1. retro.dirty <=> retro.value # retro.saved
    BY DEF CalmInv, DirtyField, Unsaved
  <2>2. retro.saved = plans[props.plan].retro \/ RetroDone
    BY DEF CalmInv, SavedIsStored, Unsaved
  <2>3. ~RetroDone
    BY DEF RetroDone, CalmInv, JobsOfField, OfField, DoneIsStored, Unsaved
  <2> QED  BY <2>1, <2>2, <2>3 DEF Unsaved
<1> QED  BY <1>1, CalmAlways, PTL

\* When nobody else writes and the user has waited for every answer, the page
\* shows the plan as it is stored (setWeek after a PATCH, bumpLoad after a
\* verdict, the way home after a deletion).
THEOREM PageIsFresh == Spec => []CalmFresh
<1>1. CalmInv => CalmFresh
  <2> SUFFICES ASSUME CalmInv, calm, Quiet, Shown.plan # 0
               PROVE  Same(Shown.row, plans[Shown.plan])
    BY DEF CalmFresh, Same
  <2> QED  BY Settled DEF Quiet, AllIdle, Fresh
<1> QED  BY <1>1, CalmAlways, PTL
=============================================================================
