------------------------------- MODULE Toasts -------------------------------
(***************************************************************************)
(* The notices at the bottom of the window (web/src/lib/toast.ts): a queue *)
(* of at most MaxVisible.  A notice that is added under the id of one that *)
(* is there takes its place.  Errors stay until they are dismissed; a full *)
(* queue gives up the oldest notice that is no error, the new one          *)
(* included, and an error only when it holds nothing else.                 *)
(***************************************************************************)
EXTENDS Naturals, Sequences, FiniteSets

CONSTANT MaxVisible

ASSUME MaxVisibleAssumption == MaxVisible \in Nat \ {0}

\* again is what the button of the notice does, if it has one.
Notice(id, variant, again) == [id |-> id, variant |-> variant, again |-> again]

IsError(t) == t.variant = "error"

\* The queue without its ith notice.
Without(q, i) == [j \in 1..(Len(q) - 1) |-> IF j < i THEN q[j] ELSE q[j + 1]]

\* Faulty variant: the oldest notice goes, whatever it is.
OldestOut(q) == IF Len(q) <= MaxVisible THEN q ELSE Without(q, 1)

\* At most one notice too many: they are added one by one.
CapQueue(q) ==
    LET others == {i \in 1..Len(q) : ~IsError(q[i])} IN
    IF Len(q) <= MaxVisible THEN q
    ELSE IF others = {} THEN Without(q, 1)
    ELSE Without(q, CHOOSE i \in others : \A j \in others : i <= j)

\* Faulty variant: the queue is not capped.
AddAll(q, t) ==
    IF \E i \in 1..Len(q) : q[i].id = t.id
    THEN [i \in 1..Len(q) |-> IF q[i].id = t.id THEN t ELSE q[i]]
    ELSE Append(q, t)

Add(q, t) ==
    IF \E i \in 1..Len(q) : q[i].id = t.id
    THEN [i \in 1..Len(q) |-> IF q[i].id = t.id THEN t ELSE q[i]]
    ELSE CapQueue(Append(q, t))

\* Ids are distinct in a queue.
Dismiss(q, id) ==
    IF \E i \in 1..Len(q) : q[i].id = id
    THEN Without(q, CHOOSE i \in 1..Len(q) : q[i].id = id)
    ELSE q

Distinct(q) == \A i, j \in 1..Len(q) : q[i].id = q[j].id => i = j
=============================================================================
