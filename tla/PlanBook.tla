------------------------------ MODULE PlanBook ------------------------------
(***************************************************************************)
(* What the plan store promises to those who use it: a book of plans, each *)
(* a document of its own.  A step writes one document; a plan is published *)
(* once, under a number that was handed out once, and is gone for good     *)
(* when it is removed.  What a document says is no concern of the book.    *)
(***************************************************************************)
EXTENDS Naturals

CONSTANTS
    Plans,      \* the numbers of plans
    Absent      \* the document of a plan that is not there

VARIABLES
    book,       \* plan -> its document
    numbered,   \* the next number to hand out
    reserved    \* numbers that are handed out for copies in the making

bookVars == <<book, numbered, reserved>>

There(w) == book[w] # Absent

\* A book that may have been used before, with no copy in the making.
BookInit ==
    /\ numbered \in Nat \ {0} /\ reserved = {}
    /\ \A w \in Plans : There(w) => w < numbered

Only(w) == \A v \in Plans \ {w} : book'[v] = book[v]

\* A new plan, under the next number.
Publish ==
    /\ numbered \in Plans /\ ~There(numbered)
    /\ Only(numbered) /\ book'[numbered] # Absent
    /\ numbered' = numbered + 1 /\ UNCHANGED reserved

\* A copy is begun: nothing is there yet.
Reserve ==
    /\ numbered \in Plans
    /\ numbered' = numbered + 1 /\ reserved' = reserved \cup {numbered}
    /\ UNCHANGED book

\* A copy is finished; its original is left alone.
PublishCopy(w) ==
    /\ w \in reserved /\ w < numbered /\ ~There(w)
    /\ Only(w) /\ book'[w] # Absent
    /\ reserved' = reserved \ {w} /\ UNCHANGED numbered

\* A copy is given up, and its number with it.
GiveUp(w) == reserved' = reserved \ {w} /\ UNCHANGED <<book, numbered>>

\* One document is edited.
Write(w) ==
    /\ There(w) /\ Only(w) /\ book'[w] # Absent
    /\ UNCHANGED <<numbered, reserved>>

Remove(w) ==
    /\ There(w) /\ Only(w) /\ book'[w] = Absent
    /\ UNCHANGED <<numbered, reserved>>

BookNext ==
    \/ Publish \/ Reserve
    \/ \E w \in Plans : PublishCopy(w) \/ GiveUp(w) \/ Write(w) \/ Remove(w)

BookSpec == BookInit /\ [][BookNext]_bookVars
=============================================================================
