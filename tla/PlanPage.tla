------------------------------ MODULE PlanPage ------------------------------
(***************************************************************************)
(* The page of a plan (App.tsx Main, WeekView.tsx): the URL, the plan that *)
(* is loaded for it, its header and status, the forms that create and      *)
(* duplicate plans, deletion, and the review controls of WeekReview, each  *)
(* with its own request and none waiting for another.  The chat of the     *)
(* page is in ChatTab.                                                     *)
(***************************************************************************)
EXTENDS WeekReview

CONSTANTS
    MaxDays,    \* a plan has 1..MaxDays days
    MaxWork,    \* so many jobs are begun, here or elsewhere,
    MaxCalm     \* and so many in calm behaviours

ASSUME PageAssumption == MaxDays \in Nat \ {0} /\ MaxWork \in Nat /\ MaxCalm \in Nat

VARIABLES
    route,      \* the URL: "home", "new", a dialog over the plan, or a plan
    page,       \* week, NoPage when it is null
    status,     \* "loading", "ready", "empty", "error"
    load,       \* the loader's request
    edit,       \* EditableText of the notes
    form,       \* the job of the PlanNewForm that is shown, 0 when not busy
    dup,        \* duplicateSource, and whether its dialog is busy
    work,       \* the jobs that were begun
    calm        \* whether the user waits for every answer

pageVars == <<route, page, status, load, edit, form, dup>>
vars == <<reviewVars, pageVars, work, calm>>

\* A route is a plan's id, or a page that shows none; a dialog (settings,
\* preferences, usage) lies over the plan that is loaded.
Home == 0
New == MaxPlan + 1
Dialog == MaxPlan + 2
Routes == 0..(MaxPlan + 2)

NoLoad == [st |-> "none", plan |-> 0, row |-> Row("unborn")]
Ask(p) == [st |-> "asked", plan |-> p, row |-> Row("unborn")]
NoEdit == [open |-> FALSE, draft |-> 0, job |-> 0]
NoDup == [source |-> 0, busy |-> FALSE]

\* The loader's request; 0 asks for the current plan, whichever that is.
Loading(r, pg) ==
    CASE r = Home -> NoLoad
      [] r = New -> IF pg.plan = 0 THEN Ask(0) ELSE NoLoad
      [] r = Dialog -> Ask(pg.plan)
      [] r \in PlanIds -> Ask(r)

\* What WeekView renders, and the parts of it with a state of their own.
WeekView(r, pg, st) == IF r \notin {Home, New} /\ st = "ready" THEN pg ELSE NoPage
Shown == WeekView(route, page, status)
Rateable(w) == IF w.row.status = "ordered" THEN w ELSE NoPage
Form(r, st) == IF r = New THEN "new" ELSE IF r # Home /\ st = "empty" THEN "empty" ELSE "none"

\* EditableText after a rendering: the effect on [value] replaces the draft.
\* It has no key: its instance stays when another plan takes the place.
Redraft(ed, w) ==
    IF w.row.status # "draft" THEN NoEdit
    ELSE IF Shown.row.status # "draft" THEN [NoEdit EXCEPT !.draft = w.row.notes]
    ELSE IF w.row.notes # Shown.row.notes THEN [ed EXCEPT !.draft = w.row.notes]
    ELSE ed

\* Faulty variant: the loader does not depend on the plan's id.
ShowByRoute(r, pg, st, ld, ed, js, ts) ==
    /\ route' = r /\ page' = pg /\ status' = st
    /\ load' = IF r # route THEN Loading(r, pg) ELSE ld
    /\ edit' = Redraft(ed, WeekView(r, pg, st))
    /\ form' = IF Form(r, st) = Form(route, status) THEN form ELSE 0
    /\ Render(Rateable(WeekView(r, pg, st)), js, ts)

\* The page renders with another URL r, plan pg or status st; the other
\* arguments are what the step leaves of the request, the notes editor, the
\* jobs and the notices.  The loader runs again when the URL or the id of the
\* plan changes.
Show(r, pg, st, ld, ed, js, ts) ==
    /\ route' = r /\ page' = pg /\ status' = st
    /\ load' = IF r # route \/ pg.plan # page.plan THEN Loading(r, pg) ELSE ld
    /\ edit' = Redraft(ed, WeekView(r, pg, st))
    /\ form' = IF Form(r, st) = Form(route, status) THEN form ELSE 0
    /\ Render(Rateable(WeekView(r, pg, st)), js, ts)

Init ==
    /\ plans \in [PlanIds -> {Row(s) : s \in {"unborn", "draft", "ordered"}}]
    /\ \A p \in PlanIds : plans[p].status = "unborn" <=> p > 1
    /\ jobs = [k \in Slots |-> NoJob] /\ toasts = <<>> /\ props = NoPage
    /\ retro = Editor(0, 0) /\ tries = [i \in Insts |-> 0]
    /\ verdict = [mark |-> "none", words |-> 0, timer |-> 0]
    /\ route \in {Home, New, Dialog, 1} /\ page = NoPage
    /\ status = IF route = Home THEN "ready" ELSE "loading"
    /\ load = Loading(route, NoPage)
    /\ edit = NoEdit /\ form = 0 /\ dup = NoDup /\ work = 0
    /\ calm \in BOOLEAN

(***************************************************************************)
(* The user.  In calm behaviours nobody else writes, requests fail before  *)
(* they reach the server, and the user waits for what is under way, other  *)
(* than for the debounce of the field that is being typed in, and retries  *)
(* a save on the page of its plan only.                                    *)
(***************************************************************************)
Typing(kind) ==
    /\ load.st = "none"
    /\ \A k \in Slots : jobs[k] = NoJob \/ (jobs[k].kind = kind /\ jobs[k].st = "wait")
Quiet == load.st = "none" /\ \A k \in Slots : jobs[k] = NoJob
Patient == calm => Quiet

Works == work < (IF calm THEN MaxCalm ELSE MaxWork) /\ work' = work + 1 /\ UNCHANGED calm
Rests == UNCHANGED <<work, calm>>

Go(r) ==
    /\ Patient /\ Rests
    /\ r # route /\ (r \in PlanIds => plans[r].status # "unborn")
    /\ Show(r, page, IF r = Home THEN "ready" ELSE status, load, edit, jobs, toasts)
    /\ UNCHANGED <<plans, dup>>

\* bumpLoad: the button, or an event of the chat.
Refresh ==
    /\ Patient /\ Rests
    /\ load' = Loading(route, page)
    /\ UNCHANGED <<reviewVars, route, page, status, edit, form, dup>>

\* What the user does to the review controls.
Reviews ==
    /\ \/ \E t \in Texts : (calm => Typing("retro")) /\ Type(t) /\ Works
       \/ \E t \in Texts : (calm => Typing("rate")) /\ Comment(t) /\ Works
       \/ \E m \in Marks : Patient /\ Rate(m) /\ Works
       \/ Patient /\ Unrate /\ Works
       \/ \E n \in 1..Len(toasts) : /\ Patient /\ (calm => toasts[n].again.plan = props.plan)
                                    /\ Again(n) /\ Works
       \/ \E n \in 1..Len(toasts) : Close(n) /\ Rests
    /\ UNCHANGED pageVars

(***************************************************************************)
(* The notes, the status and the end date: patchCurrentWeek.               *)
(***************************************************************************)
Edits(ed) ==
    /\ edit' = ed /\ Rests
    /\ UNCHANGED <<reviewVars, route, page, status, load, form, dup>>

OpenNotes == Patient /\ Shown.row.status = "draft" /\ ~edit.open /\ Edits([edit EXCEPT !.open = TRUE])
DraftNotes(t) == edit.open /\ edit.job = 0 /\ t # edit.draft /\ Edits([edit EXCEPT !.draft = t])
\* Escape, or a commit of what is there already.
CloseNotes == edit.open /\ edit.job = 0 /\ Edits([NoEdit EXCEPT !.draft = page.row.notes])

Begin(j, ed, fm, dp) ==
    /\ Patient /\ Works
    /\ \E k \in Slots :
        /\ IsNext(k, jobs) /\ jobs' = [jobs EXCEPT ![k] = j]
        /\ edit' = IF ed THEN [edit EXCEPT !.job = k] ELSE edit
        /\ form' = IF fm THEN k ELSE form
    /\ dup' = dp
    /\ UNCHANGED <<plans, toasts, editorVars, route, page, status, load>>

CommitNotes ==
    /\ edit.open /\ edit.job = 0 /\ edit.draft # page.row.notes
    /\ Begin(Job("notes", page.plan, edit.draft, "none"), TRUE, FALSE, dup)

\* StatusMenu asks before it goes back, and Lifecycle marks a plan ordered.
PickStatus(s) ==
    /\ Shown.plan # 0 /\ s # Shown.row.status
    /\ Begin(Job("status", Shown.plan, 0, s), FALSE, FALSE, dup)

\* The user is asked when dinners that are shown would be lost.
PickEnd(n) ==
    /\ Shown.row.status = "draft" /\ n # Shown.row.days
    /\ Begin(Job("end", Shown.plan, n, IF n < Shown.row.days THEN "asked" ELSE "none"),
             FALSE, FALSE, dup)

Patches == {"notes", "status", "end"}
Patched(j) ==
    CASE j.kind = "notes"  -> [plans[j.plan] EXCEPT !.notes = j.text]
      [] j.kind = "status" -> [plans[j.plan] EXCEPT !.status = j.mark]
      [] j.kind = "end"    -> [plans[j.plan] EXCEPT !.days = j.text]

\* The server answers a request with the plan's row.
Answers(k, p, row) ==
    /\ plans' = [plans EXCEPT ![p] = row]
    /\ jobs' = [jobs EXCEPT ![k].st = "done", ![k].plan = p, ![k].row = row]
Refuses(k) == jobs' = [jobs EXCEPT ![k].st = "refused"] /\ UNCHANGED plans
Serving == UNCHANGED <<toasts, editorVars, pageVars>> /\ Rests

ServePatch(k) ==
    /\ jobs[k].kind \in Patches /\ jobs[k].st = "sent"
    /\ IF Live(jobs[k].plan) THEN Answers(k, jobs[k].plan, Patched(jobs[k])) ELSE Refuses(k)
    /\ Serving

\* setWeek, whatever page the user is on by now.
PatchDone(k) ==
    /\ jobs[k].kind \in Patches /\ jobs[k].st = "done"
    /\ Show(route, [plan |-> jobs[k].plan, row |-> jobs[k].row], status, load,
            IF edit.job = k THEN [edit EXCEPT !.open = FALSE, !.job = 0] ELSE edit,
            End(k), toasts)
    /\ UNCHANGED <<plans, dup>> /\ Rests

\* A notice, and an editor that stays open.
PatchFailed(k) ==
    /\ jobs[k].kind \in Patches /\ Failed(k)
    /\ jobs' = End(k) /\ toasts' = Report(toasts, "error")
    /\ edit' = IF edit.job = k THEN [edit EXCEPT !.job = 0] ELSE edit
    /\ UNCHANGED <<plans, editorVars, route, page, status, load, form, dup>> /\ Rests

(***************************************************************************)
(* Plans: created, duplicated, deleted.                                    *)
(***************************************************************************)
Submit ==
    /\ Form(route, status) # "none" /\ form = 0
    /\ Begin(Job("create", 0, 0, "none"), FALSE, TRUE, dup)

Duplicate(p) ==
    /\ Patient /\ Rests
    /\ dup.source = 0 /\ plans[p].status # "unborn"
    /\ dup' = [source |-> p, busy |-> FALSE]
    /\ UNCHANGED <<reviewVars, route, page, status, load, edit, form>>

\* The backdrop cancels also when the dialog is busy.
CancelDuplicate ==
    /\ dup.source # 0 /\ dup' = NoDup /\ Rests
    /\ UNCHANGED <<reviewVars, route, page, status, load, edit, form>>

ConfirmDuplicate ==
    /\ dup.source # 0 /\ ~dup.busy
    /\ Begin(Job("clone", dup.source, 0, "none"), FALSE, FALSE, [dup EXCEPT !.busy = TRUE])

\* The deletion remembers whether the plan was loaded when it was asked for.
Delete(p) ==
    /\ plans[p].status # "unborn"
    /\ Begin(Job("delete", p, 0, IF page.plan = p THEN "loaded" ELSE "none"), FALSE, FALSE, dup)

\* The server fails when the model has no id left.
ServeNew(k) ==
    /\ jobs[k].kind \in {"create", "clone"} /\ jobs[k].st = "sent"
    /\ IF \/ jobs[k].kind = "clone" /\ ~Live(jobs[k].plan)
          \/ \A p \in PlanIds : plans[p].status # "unborn"
       THEN Refuses(k)
       ELSE \E p \in PlanIds :
              /\ plans[p].status = "unborn" /\ \A q \in 1..(p - 1) : plans[q].status # "unborn"
              /\ Answers(k, p, IF jobs[k].kind = "create" THEN Row("draft")
                               ELSE [Row("draft") EXCEPT !.days = plans[jobs[k].plan].days])
    /\ Serving

\* A plan that is gone already is deleted as well: deleteWeek takes a 404.
ServeDelete(k) ==
    /\ jobs[k].kind = "delete" /\ jobs[k].st = "sent"
    /\ Answers(k, jobs[k].plan, Row("gone"))
    /\ Serving

Created(k) ==
    /\ jobs[k].kind = "create" /\ jobs[k].st = "done"
    /\ Show(jobs[k].plan, [plan |-> jobs[k].plan, row |-> jobs[k].row], "ready", load, edit,
            End(k), toasts)
    /\ UNCHANGED <<plans, dup>> /\ Rests

\* Nothing is reported.
CreateFailed(k) ==
    /\ jobs[k].kind = "create" /\ Failed(k)
    /\ jobs' = End(k)
    /\ form' = IF form = k THEN 0 ELSE form
    /\ UNCHANGED <<plans, toasts, editorVars, route, page, status, load, edit, dup>> /\ Rests

\* The dialog closes, whichever plan it is open for by now.
Cloned(k) ==
    /\ jobs[k].kind = "clone" /\ jobs[k].st = "done"
    /\ Show(jobs[k].plan, page, status, load, edit, End(k), toasts)
    /\ dup' = NoDup
    /\ UNCHANGED plans /\ Rests

CloneFailed(k) ==
    /\ jobs[k].kind = "clone" /\ Failed(k)
    /\ jobs' = End(k) /\ toasts' = Report(toasts, "error")
    /\ dup' = [dup EXCEPT !.busy = FALSE]
    /\ UNCHANGED <<plans, editorVars, route, page, status, load, edit, form>> /\ Rests

\* Faulty variant: the page of the deleted plan stays.
DeletedStay(k) ==
    /\ jobs[k].kind = "delete" /\ jobs[k].st = "done"
    /\ jobs' = End(k) /\ toasts' = Report(toasts, "success")
    /\ UNCHANGED <<plans, editorVars, pageVars>> /\ Rests

Deleted(k) ==
    /\ jobs[k].kind = "delete" /\ jobs[k].st = "done"
    /\ IF jobs[k].mark = "loaded"
       THEN Show(Home, NoPage, "ready", load, edit, End(k), Report(toasts, "success"))
       ELSE /\ jobs' = End(k) /\ toasts' = Report(toasts, "success")
            /\ UNCHANGED <<editorVars, route, page, status, load, edit, form>>
    /\ UNCHANGED <<plans, dup>> /\ Rests

DeleteFailed(k) ==
    /\ jobs[k].kind = "delete" /\ Failed(k)
    /\ jobs' = End(k) /\ toasts' = Report(toasts, "error")
    /\ UNCHANGED <<plans, editorVars, pageVars>> /\ Rests

\* The chat or another tab: a status, a retrospective, a deletion.
Elsewhere(p) ==
    /\ ~calm /\ Works /\ Live(p)
    /\ \/ \E s \in Statuses \cup {"gone"} :
            plans' = [plans EXCEPT ![p] = IF s = "gone" THEN Row(s) ELSE [@ EXCEPT !.status = s]]
       \/ \E t \in Texts : plans' = [plans EXCEPT ![p].retro = t]
    /\ UNCHANGED <<jobs, toasts, editorVars, pageVars>>

(***************************************************************************)
(* The loader.                                                             *)
(***************************************************************************)
\* For the current plan any, or none when there is none.
ServeLoad ==
    /\ load.st = "asked" /\ Rests
    /\ \/ /\ load.plan # 0
          /\ load' = [load EXCEPT !.st = "answered", !.row = plans[load.plan]]
       \/ /\ load.plan = 0 /\ \A p \in PlanIds : ~Live(p)
          /\ load' = [load EXCEPT !.st = "answered"]
       \/ /\ load.plan = 0
          /\ \E p \in PlanIds : Live(p) /\ load' = [st |-> "answered", plan |-> p, row |-> plans[p]]
    /\ UNCHANGED <<reviewVars, route, page, status, edit, form, dup>>

\* A plan that is not there is an error; no current plan is not, and shows the
\* form of a new one.
Loaded ==
    /\ load.st = "answered" /\ Rests
    /\ IF load.row.status \in Statuses
       THEN Show(route, [plan |-> load.plan, row |-> load.row], "ready", NoLoad, edit, jobs, toasts)
       ELSE Show(route, page, CASE load.plan # 0 -> "error"
                                [] load.plan = 0 /\ route = New -> status
                                [] load.plan = 0 /\ route # New -> "empty",
                 NoLoad, edit, jobs, toasts)
    /\ UNCHANGED <<plans, dup>>

LoadFailed ==
    /\ load.st # "none" /\ Rests
    /\ Show(route, page, "error", NoLoad, edit, jobs, toasts)
    /\ UNCHANGED <<plans, dup>>

(***************************************************************************)
(* What happens to a job.                                                  *)
(***************************************************************************)
Answered(k) ==
    \/ RetroSaved(k) /\ UNCHANGED pageVars /\ Rests
    \/ RateSaved(k) /\ load' = Loading(route, page)
       /\ UNCHANGED <<route, page, status, edit, form, dup>> /\ Rests
    \/ PatchDone(k) \/ Created(k) \/ Cloned(k) \/ Deleted(k)

\* The server refuses, or the connection or the server fails.
Fails(k) ==
    /\ calm => jobs[k].st # "done"
    /\ \/ (RetroFailed(k) \/ RateFailed(k)) /\ UNCHANGED pageVars /\ Rests
       \/ PatchFailed(k) \/ CreateFailed(k) \/ CloneFailed(k) \/ DeleteFailed(k)

Serve(k) ==
    \/ (Due(k) \/ ServeReview(k)) /\ UNCHANGED pageVars /\ Rests
    \/ ServePatch(k) \/ ServeNew(k) \/ ServeDelete(k)

UserActs ==
    \/ \E r \in Routes : Go(r)
    \/ Refresh
    \/ Reviews
    \/ OpenNotes \/ (\E t \in Texts : DraftNotes(t)) \/ CloseNotes \/ CommitNotes
    \/ \E s \in Statuses : PickStatus(s)
    \/ \E n \in 1..MaxDays : PickEnd(n)
    \/ Submit
    \/ (\E p \in PlanIds : Duplicate(p)) \/ CancelDuplicate \/ ConfirmDuplicate
    \/ \E p \in PlanIds : Delete(p)

Next ==
    \/ UserActs
    \/ \E p \in PlanIds : Elsewhere(p)
    \/ ServeLoad \/ Loaded \/ LoadFailed
    \/ \E k \in Slots : Serve(k) \/ Answered(k) \/ Fails(k)

Spec == Init /\ [][Next]_vars

(***************************************************************************)
(* Properties.                                                             *)
(***************************************************************************)
RowType == [status : Statuses \cup {"unborn", "gone"}, notes : Texts, days : 1..MaxDays,
            retro : Texts, mark : Marks \cup {"none"}, words : Texts]
JobType == [kind : Patches \cup {"none", "retro", "rate", "unrate", "create", "clone", "delete"},
            st : {"none", "wait", "sent", "done", "refused", "timer"},
            plan : 0..MaxPlan, text : Nat,
            mark : Marks \cup Statuses \cup {"none", "asked", "loaded"},
            inst : Insts, row : RowType]

\* Every variable has its type; no more notices are shown than there is room
\* for, each under an id of its own (add, capQueue).
TypeOK ==
    /\ plans \in [PlanIds -> RowType]
    /\ jobs \in [Slots -> JobType]
    /\ Len(toasts) <= MaxVisible /\ Distinct(toasts)
    /\ props \in [plan : 0..MaxPlan, row : RowType]
    /\ retro \in [value : Texts, saved : Texts, dirty : BOOLEAN,
                  waiting : 0..MaxJobs, retrying : 0..MaxJobs, inst : Insts]
    /\ tries \in [Insts -> Nat]
    /\ verdict \in [mark : Marks \cup {"none"}, words : Texts, timer : 0..MaxJobs]
    /\ route \in Routes /\ page \in [plan : 0..MaxPlan, row : RowType]
    /\ status \in {"loading", "ready", "empty", "error"}
    /\ load \in [st : {"none", "asked", "answered"}, plan : 0..MaxPlan, row : RowType]
    /\ edit \in [open : BOOLEAN, draft : Texts, job : 0..MaxJobs]
    /\ form \in 0..MaxJobs /\ dup \in [source : 0..MaxPlan, busy : BOOLEAN]
    /\ work \in 0..(MaxWork + MaxCalm) /\ calm \in BOOLEAN

\* The loader keeps the URL and the loaded plan in sync: once it has finished,
\* the URL of a plan shows that plan, whatever answers came in between and from
\* whatever page they were asked for (a setWeek of another plan's row makes the
\* loader run again).
UrlWins ==
    load.st = "none" /\ route \in PlanIds /\ status = "ready" => page.plan = route

\* Text that waits for its debounce belongs to the plan whose retrospective is
\* on the screen and is what the field holds: a change of plan never leaves a
\* save behind that would write one plan's text into another.
PendingIsShown ==
    \A k \in Slots : jobs[k].st = "wait" /\ jobs[k].kind = "retro" =>
        /\ retro.waiting = k
        /\ jobs[k].plan = props.plan /\ jobs[k].text = retro.value

\* When the user waits for what is under way, the browser's warning on leaving
\* (beforeunload, dirty) is armed whenever the field differs from what is stored.
Unsaved == props.plan # 0 /\ Live(props.plan) /\ retro.value # plans[props.plan].retro
CalmDirty == calm /\ load.st = "none" /\ Unsaved => retro.dirty

\* When the user has waited for every answer and nobody else writes, the page
\* shows the plan as it is stored (setWeek after a PATCH, bumpLoad after a
\* verdict, home after a deletion); the retrospective is kept by its own control.
CalmFresh ==
    calm /\ Quiet /\ Shown.plan # 0 =>
        [Shown.row EXCEPT !.retro = 0] = [plans[Shown.plan] EXCEPT !.retro = 0]

\* The automatic retries of a save stop: the attempts since the text was last
\* edited or saved exceed RETRO_MAX_ATTEMPTS by the requests at most that were
\* in flight already (attemptsRef is shared by all requests of the control).
RetriesEnd == \A i \in Insts : tries[i] < MaxAttempts + MaxJobs

\* "its manual-retry button captures the old value and would overwrite a newer
\* save": when the user waits for what is under way, every retry that the
\* mounted control may still make for its plan, by itself or by the button of
\* its notice, writes what its field holds.
Retries == {jobs[k] : k \in {k \in Slots : jobs[k].st = "timer"}}
           \cup {toasts[n].again : n \in 1..Len(toasts)}
RetryIsLatest ==
    calm => \A j \in Retries : j.kind = "retro" /\ j.inst = retro.inst /\ j.plan = props.plan
                                => j.text = retro.value

\* An error is given up only when it is dismissed, or for a queue of nothing but
\* errors: other notices never push it out (capQueue).
ErrorsStay ==
    [][\A i \in 1..Len(toasts) :
        /\ IsError(toasts[i])
        /\ \A j \in 1..Len(toasts') : toasts'[j].id # toasts[i].id
        => \/ Len(toasts') < Len(toasts)
           \/ \A j \in 1..Len(toasts') : IsError(toasts'[j])]_vars
=============================================================================
