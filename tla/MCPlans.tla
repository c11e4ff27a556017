------------------------------ MODULE MCPlans ------------------------------
(***************************************************************************)
(* One instance of PlanStore for TLC, explored from two sides: every table *)
(* and every actor, but one day and one dinner, from a new installation;   *)
(* and the requests about dates, with more days and dinners but without    *)
(* chats and the other tables, from every schedule of a plan in use.       *)
(***************************************************************************)
EXTENDS MCPlanStore

VARIABLE focus

\* Bounds on what the first side makes.  Plan 2 stays a draft that nobody reviews.
OneOfEach ==
    /\ nextDinner <= 2
    /\ \A w \in WeekIds, d \in Days \ {1} : weeks[w].start # d /\ weeks[w].end # d
    /\ \A x \in DinnerIds, d \in Days \ {1} : dinners[x].day # d
    /\ \A w \in WeekIds \ {1} : retros[w] = 0 /\ weeks[w].status # "ordered"

\* Bounds on what the second side makes.
DraftsOnly ==
    /\ \A w \in WeekIds : weeks[w].status \in {"draft", "none"}
    /\ \A h \in Handlers : pending[h].op # "put_retro"

PlansInit ==
    \/ focus = "tables" /\ Init
    \/ focus = "dates" /\ SeedInit

DatesNext ==
    \/ \E s, e \in Days : CreateWeek(s, e)
    \/ \E w \in WeekIds : DeleteWeek(w)
    \/ \E h \in Handlers : HandlerStep(h) \/ Abandon(h)

PlansNext ==
    /\ \/ focus = "tables" /\ Next /\ OneOfEach'
       \/ focus = "dates" /\ DatesNext /\ DraftsOnly'
    /\ UNCHANGED focus

PlansSpec == PlansInit /\ [][PlansNext]_<<focus, vars>>
=============================================================================
