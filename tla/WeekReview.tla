----------------------------- MODULE WeekReview -----------------------------
(***************************************************************************)
(* What a user writes about a plan that was cooked: the retrospective with *)
(* its debounced saves, automatic retries and the Retry button of its      *)
(* notice (WeekRetrospective), and the verdict on a dinner with its note   *)
(* (RatingControl).  The requests are jobs in a pool; the other kinds of   *)
(* jobs, and what mounts and rerenders these controls, are in PlanPage.    *)
(*                                                                         *)
(* A plan has one dinner, whose id is the plan's.                          *)
(***************************************************************************)
EXTENDS Toasts

CONSTANTS
    MaxPlan,        \* plans have ids 1..MaxPlan
    MaxJobs,        \* so many requests and timers at a time
    MaxAttempts,    \* RETRO_MAX_ATTEMPTS
    Texts,          \* what can be written; 0 is the empty text
    Statuses, Marks

ASSUME ReviewAssumption ==
    /\ MaxPlan \in Nat /\ MaxJobs \in Nat /\ MaxAttempts \in Nat \ {0}
    /\ 0 \in Texts /\ Texts \subseteq Nat
    /\ {"draft", "ordered"} \subseteq Statuses /\ "unborn" \notin Statuses /\ "gone" \notin Statuses
    /\ "none" \notin Marks

VARIABLES
    plans,      \* the server's rows, by plan
    jobs,       \* the requests and timers of the page
    toasts,     \* the queue of notices
    props,      \* the plan that the controls render, NoPage when unmounted
    retro,      \* the state and refs of WeekRetrospective
    tries,      \* attemptsRef of each instance of it
    verdict     \* the state and ref of RatingControl

reviewVars == <<plans, jobs, toasts, props, retro, tries, verdict>>
editorVars == <<props, retro, tries, verdict>>

PlanIds == 1..MaxPlan
Slots == 1..MaxJobs
Insts == 0..(MaxJobs + MaxVisible)

\* A plan and what hangs off it: its status, notes and number of days, the
\* retrospective, the verdict on its dinner and the note to it.
Row(status) ==
    [status |-> status, notes |-> 0, days |-> 1, retro |-> 0, mark |-> "none", words |-> 0]
NoPage == [plan |-> 0, row |-> Row("unborn")]
Live(p) == plans[p].status \in Statuses

\* A job waits for its debounce ("wait"), its request is sent, the server has
\* done or refused it, or it waits for its next attempt ("timer").
NoJob == [kind |-> "none", st |-> "none", plan |-> 0, text |-> 0, mark |-> "none",
          inst |-> 0, row |-> Row("unborn")]
Job(kind, p, t, m) ==
    [kind |-> kind, st |-> "sent", plan |-> p, text |-> t, mark |-> m, inst |-> 0,
     row |-> Row("unborn")]
Later(j) == [j EXCEPT !.st = "wait"]

\* Timers that are cleared.  A handle whose timer has fired or was cleared is 0.
Stop(js, handles) ==
    [k \in Slots |-> IF k \in handles /\ js[k].st \in {"wait", "timer"} THEN NoJob ELSE js[k]]
End(k) == [jobs EXCEPT ![k] = NoJob]

\* k is the first slot that is free once js have been stopped.
IsNext(k, js) == js[k] = NoJob /\ \A i \in 1..(k - 1) : js[i] # NoJob

RetroToast(p) == <<"retro", p>>
NewToast(q) == <<"t", CHOOSE n \in 1..(MaxVisible + 1) :
                          \A i \in 1..Len(q) : q[i].id # <<"t", n>> >>
Report(q, variant) == Add(q, Notice(NewToast(q), variant, NoJob))

(***************************************************************************)
(* Rendering.                                                              *)
(***************************************************************************)
\* A request, a timer or a button knows the instance i of WeekRetrospective.
Known(i, js, ts) ==
    \/ \E k \in Slots : js[k].kind = "retro" /\ js[k].inst = i
    \/ \E n \in 1..Len(ts) : ts[n].again.kind = "retro" /\ ts[n].again.inst = i

Editor(t, i) == [value |-> t, saved |-> t, dirty |-> FALSE, waiting |-> 0, retrying |-> 0,
                 inst |-> i]

\* Faulty variant: the debounce of the plan before is left running.
ResetButDebounce(page, js, ts) ==
    /\ jobs' = Stop(js, {retro.retrying})
    /\ toasts' = Dismiss(ts, RetroToast(page.plan))
    /\ retro' = Editor(page.row.retro, retro.inst)
    /\ tries' = [tries EXCEPT ![retro.inst] = 0]

\* The effect on [initial, toastID], which runs on mounting too.
Reset(page, js, ts) ==
    /\ jobs' = Stop(js, {retro.waiting, retro.retrying})
    /\ toasts' = Dismiss(ts, RetroToast(page.plan))
    /\ retro' = Editor(page.row.retro, retro.inst)
    /\ tries' = [tries EXCEPT ![retro.inst] = 0]

\* Unmounting clears the timers and leaves the notices.
Leave(js, ts) ==
    LET left == Stop(js, {retro.waiting, retro.retrying})
        i == CHOOSE i \in Insts : ~Known(i, left, ts)
    IN  /\ jobs' = left /\ toasts' = ts
        /\ retro' = Editor(0, i)
        /\ tries' = [tries EXCEPT ![i] = 0]

\* RatingControl is keyed by the dinner; a new prop overwrites its state, and
\* neither that nor unmounting clears its timer.
Verdict(page) ==
    IF page.plan # props.plan
    THEN [mark |-> page.row.mark, words |-> page.row.words, timer |-> 0]
    ELSE IF page.row.mark # props.row.mark \/ page.row.words # props.row.words
    THEN [verdict EXCEPT !.mark = page.row.mark, !.words = page.row.words]
    ELSE verdict

\* The controls render page, NoPage when they are not mounted; js and ts are
\* the jobs and notices that the step which causes it leaves behind.
Render(page, js, ts) ==
    /\ props' = page
    /\ verdict' = Verdict(page)
    /\ IF page.plan = props.plan /\ page.row.retro = props.row.retro
       THEN jobs' = js /\ toasts' = ts /\ UNCHANGED <<retro, tries>>
       ELSE IF page.plan = 0 THEN Leave(js, ts) ELSE Reset(page, js, ts)

(***************************************************************************)
(* The retrospective.                                                      *)
(***************************************************************************)
\* Faulty variant: the notice stays, with its Retry button.
TypeBesideNotice(t) ==
    LET stopped == Stop(jobs, {retro.waiting, retro.retrying}) IN
    /\ props.plan # 0 /\ t # retro.value
    /\ \E k \in Slots :
        /\ IsNext(k, stopped)
        /\ jobs' = [stopped EXCEPT ![k] =
                       [Later(Job("retro", props.plan, t, "none")) EXCEPT !.inst = retro.inst]]
        /\ retro' = [retro EXCEPT !.value = t, !.dirty = (t # retro.saved),
                                 !.waiting = k, !.retrying = 0]
    /\ tries' = [tries EXCEPT ![retro.inst] = 0]
    /\ UNCHANGED <<plans, toasts, props, verdict>>

\* onChange: the debounce starts again, a pending retry and the notice go.
Type(t) ==
    LET stopped == Stop(jobs, {retro.waiting, retro.retrying}) IN
    /\ props.plan # 0 /\ t # retro.value
    /\ \E k \in Slots :
        /\ IsNext(k, stopped)
        /\ jobs' = [stopped EXCEPT ![k] =
                       [Later(Job("retro", props.plan, t, "none")) EXCEPT !.inst = retro.inst]]
        /\ retro' = [retro EXCEPT !.value = t, !.dirty = (t # retro.saved),
                                 !.waiting = k, !.retrying = 0]
    /\ toasts' = Dismiss(toasts, RetroToast(props.plan))
    /\ tries' = [tries EXCEPT ![retro.inst] = 0]
    /\ UNCHANGED <<plans, props, verdict>>

\* The refs that save's closure knows are those of its own instance.
Mine(k) == jobs[k].inst = retro.inst

RetroSaved(k) ==
    /\ jobs[k].kind = "retro" /\ jobs[k].st = "done"
    /\ jobs' = End(k)
    /\ retro' = IF Mine(k) THEN [retro EXCEPT !.saved = jobs[k].text, !.dirty = FALSE] ELSE retro
    /\ tries' = [tries EXCEPT ![jobs[k].inst] = 0]
    /\ toasts' = Dismiss(toasts, RetroToast(jobs[k].plan))
    /\ UNCHANGED <<plans, props, verdict>>

Failed(k) == jobs[k].st \in {"sent", "done", "refused"}

\* Faulty variant: no attempt is the last.
RetroFailedForever(k) ==
    /\ jobs[k].kind = "retro" /\ Failed(k)
    /\ tries' = [tries EXCEPT ![jobs[k].inst] = @ + 1]
    /\ toasts' = Add(toasts, Notice(RetroToast(jobs[k].plan), "error", NoJob))
    /\ jobs' = [jobs EXCEPT ![k].st = "timer"]
    /\ retro' = IF Mine(k) THEN [retro EXCEPT !.retrying = k] ELSE retro
    /\ UNCHANGED <<plans, props, verdict>>

\* Faulty variant: the warning is disarmed whether or not the save succeeded.
RetroFailedClean(k) ==
    LET last == tries[jobs[k].inst] + 1 >= MaxAttempts IN
    /\ jobs[k].kind = "retro" /\ Failed(k)
    /\ tries' = [tries EXCEPT ![jobs[k].inst] = @ + 1]
    /\ toasts' = Add(toasts, Notice(RetroToast(jobs[k].plan), "error", NoJob))
    /\ jobs' = IF last THEN End(k) ELSE [jobs EXCEPT ![k].st = "timer"]
    /\ retro' = IF Mine(k) THEN [retro EXCEPT !.dirty = FALSE] ELSE retro
    /\ UNCHANGED <<plans, props, verdict>>

RetroFailed(k) ==
    LET last == tries[jobs[k].inst] + 1 >= MaxAttempts
        id == RetroToast(jobs[k].plan)
    IN
    /\ jobs[k].kind = "retro" /\ Failed(k)
    /\ tries' = [tries EXCEPT ![jobs[k].inst] = @ + 1]
    /\ toasts' = Add(toasts, Notice(id, "error",
                         IF last THEN [jobs[k] EXCEPT !.st = "sent"] ELSE NoJob))
    /\ jobs' = IF last THEN End(k) ELSE [jobs EXCEPT ![k].st = "timer"]
    /\ retro' = IF Mine(k) /\ ~last THEN [retro EXCEPT !.retrying = k] ELSE retro
    /\ UNCHANGED <<plans, props, verdict>>

\* The Retry button of a notice, which is then dismissed.
Again(n) ==
    LET j == toasts[n].again IN
    /\ j # NoJob
    /\ \E k \in Slots : IsNext(k, jobs) /\ jobs' = [jobs EXCEPT ![k] = j]
    /\ tries' = [tries EXCEPT ![j.inst] = 0]
    /\ toasts' = Dismiss(toasts, toasts[n].id)
    /\ UNCHANGED <<plans, props, retro, verdict>>

\* The cross of a notice, Escape, or the timer of one that is no error.
Close(n) ==
    /\ toasts' = Dismiss(toasts, toasts[n].id)
    /\ UNCHANGED <<plans, jobs, props, retro, tries, verdict>>

(***************************************************************************)
(* The verdict on the dinner.                                              *)
(***************************************************************************)
Rate(m) ==
    LET stopped == Stop(jobs, {verdict.timer}) IN
    /\ props.plan # 0
    /\ \E k \in Slots :
        /\ IsNext(k, stopped)
        /\ jobs' = [stopped EXCEPT ![k] = Job("rate", props.plan, verdict.words, m)]
    /\ verdict' = [verdict EXCEPT !.mark = m, !.timer = 0]
    /\ UNCHANGED <<plans, toasts, props, retro, tries>>

\* The note is offered with a verdict only.
Comment(t) ==
    LET stopped == Stop(jobs, {verdict.timer}) IN
    /\ props.plan # 0 /\ verdict.mark # "none" /\ t # verdict.words
    /\ \E k \in Slots :
        /\ IsNext(k, stopped)
        /\ jobs' = [stopped EXCEPT ![k] = Later(Job("rate", props.plan, t, verdict.mark))]
        /\ verdict' = [verdict EXCEPT !.words = t, !.timer = k]
    /\ UNCHANGED <<plans, toasts, props, retro, tries>>

\* clear: a note that waits for its debounce still waits.
Unrate ==
    /\ props.plan # 0 /\ verdict.mark # "none"
    /\ \E k \in Slots :
        IsNext(k, jobs) /\ jobs' = [jobs EXCEPT ![k] = Job("unrate", props.plan, 0, "none")]
    /\ verdict' = [verdict EXCEPT !.mark = "none", !.words = 0]
    /\ UNCHANGED <<plans, toasts, props, retro, tries>>

RateSaved(k) ==
    /\ jobs[k].kind \in {"rate", "unrate"} /\ jobs[k].st = "done"
    /\ jobs' = End(k)
    /\ UNCHANGED <<plans, toasts, props, retro, tries, verdict>>

RateFailed(k) ==
    /\ jobs[k].kind \in {"rate", "unrate"} /\ Failed(k)
    /\ jobs' = End(k) /\ toasts' = Report(toasts, "error")
    /\ UNCHANGED <<plans, props, retro, tries, verdict>>

(***************************************************************************)
(* Timers and the server.                                                  *)
(***************************************************************************)
Due(k) ==
    /\ jobs[k].st \in {"wait", "timer"}
    /\ jobs' = [jobs EXCEPT ![k].st = "sent"]
    /\ retro' = [retro EXCEPT !.waiting = IF @ = k THEN 0 ELSE @,
                              !.retrying = IF @ = k THEN 0 ELSE @]
    /\ verdict' = [verdict EXCEPT !.timer = IF @ = k THEN 0 ELSE @]
    /\ UNCHANGED <<plans, toasts, props, tries>>

\* UpsertWeekRetrospective, SetDinnerRating, ClearDinnerRating.
Reviewed(j) ==
    CASE j.kind = "retro"  -> [plans[j.plan] EXCEPT !.retro = j.text]
      [] j.kind = "rate"   -> [plans[j.plan] EXCEPT !.mark = j.mark, !.words = j.text]
      [] j.kind = "unrate" -> [plans[j.plan] EXCEPT !.mark = "none", !.words = 0]

\* Clearing the verdict of a dinner that is gone is no error.
ServeReview(k) ==
    LET j == jobs[k] IN
    /\ j.kind \in {"retro", "rate", "unrate"} /\ j.st = "sent"
    /\ plans' = IF Live(j.plan) THEN [plans EXCEPT ![j.plan] = Reviewed(j)] ELSE plans
    /\ jobs' = [jobs EXCEPT ![k].st = IF Live(j.plan) \/ j.kind = "unrate" THEN "done"
                                      ELSE "refused"]
    /\ UNCHANGED <<toasts, props, retro, tries, verdict>>
=============================================================================
