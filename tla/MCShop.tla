------------------------------- MODULE MCShop -------------------------------
(***************************************************************************)
(* One instance for TLC of the shop's session and of the lists of what was *)
(* put into its cart, which share no state: of a request the lists know    *)
(* only whether it fails.  A behaviour follows one of the two; the other   *)
(* stays as it is.                                                         *)
(***************************************************************************)
EXTENDS WillysSession, CartMirror, FiniteSets, TLC

VARIABLE focus

SessionRests == Init /\ ~calm
ListsRest == CartInit /\ ~mirrored

ShopInit ==
    \/ focus = "session" /\ Init /\ ListsRest
    \/ focus = "lists" /\ SessionRests /\ CartInit

\* Settings change once at most between a call's check and its end.
OneChange == \A c \in Chats : Cardinality(seen[c]) <= 2

ShopNext ==
    \/ focus = "session" /\ Next /\ OneChange' /\ UNCHANGED <<focus, cartVars>>
    \/ focus = "lists" /\ CartNext /\ UNCHANGED <<focus, vars>>

ShopSpec == ShopInit /\ [][ShopNext]_<<focus, vars, cartVars>>

\* The chats are interchangeable, the products, and the plans.
Interchangeable ==
    Permutations(Chats) \cup Permutations(Codes) \cup Permutations(Lists)
=============================================================================
