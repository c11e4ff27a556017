---------------------------- MODULE MCPlanStore ----------------------------
(***************************************************************************)
(* Small instances of PlanStore for TLC.                                   *)
(***************************************************************************)
EXTENDS PlanStore

\* There is room for the plan that is there at the start.
ASSUME PlanSeedAssumption == 1 \in WeekIds

(***************************************************************************)
(* A database in use: plan 1 has any dates and up to Seeded dinners on any *)
(* of its days or outside them.  create_week, update_week and add_dinner   *)
(* check nothing about dates, so each of these states is reachable.        *)
(***************************************************************************)
Seeded == 2

SeedRow == [week : {1}, day : Days, dish : Contents \cup {NoContent}]

SeedInit ==
    /\ \E s \in Days, e \in Days, k \in 0..Seeded :
         \E f \in [1..k -> SeedRow] :
           /\ weeks = [w \in WeekIds |->
                         IF w = 1 THEN [start |-> s, end |-> e, status |-> "draft"]
                         ELSE NoWeek]
           /\ dinners = [x \in DinnerIds |-> IF x <= k THEN f[x] ELSE NoDinner]
           /\ nextDinner = k + 1
    /\ rating = [x \in DinnerIds |-> "none"]
    /\ exceptions = [x \in ExceptionIds |-> NoException]
    /\ retros = [w \in WeekIds |-> 0]
    /\ nextWeek = 2 /\ nextException = 1
    /\ bound = [c \in Chats |-> 0]
    /\ pending = [p \in Procs |-> Idle]

SeededSpec == SeedInit /\ [][Next]_vars
============================================================================
