----------------------------- MODULE CartMirror -----------------------------
(***************************************************************************)
(* The shop's cart and the shopping lists: the tools of a chat (tools.go)  *)
(* change the one cart of the household, and mirror what they did in the   *)
(* list of the plan that the chat is about, when there is one.  The shop   *)
(* is external: a product that is added with a quantity then has that      *)
(* quantity, and 0, which CartRemove sends, removes it.  What the          *)
(* household changes there by hand is left out: no list follows it.        *)
(***************************************************************************)
EXTENDS Naturals, Sequences

CONSTANTS
    Codes,      \* products
    MaxQty,     \* what a tool is asked for; 0 is none given
    Lists,      \* the plans that have a shopping list
    Shoppers,   \* chats
    MaxTools,   \* so many calls of a tool,
    MaxInTurn   \* and so many in turn

NoList == "none"

ASSUME CartAssumption ==
    /\ NoList \notin Lists /\ MaxQty \in Nat \ {0} /\ MaxTools \in Nat /\ MaxInTurn \in Nat

VARIABLES
    cart,       \* by product, its quantity in the shop's cart
    lists,      \* the plans that exist, with their rows of cart_items,
    nextItem,   \* which are numbered as they are inserted
    tool,       \* by chat, the call that it makes
    tools,      \* how many were made
    taken,      \* history: what the shop has been seen to take for a plan
    last,       \* history: by product, the plan whose call changed it last
    mirrored    \* whether calls do not overlap and nothing fails

cartVars == <<cart, lists, nextItem, tool, tools, taken, last, mirrored>>

Line == [code : Codes, qty : 0..MaxQty]
Item(n, l) == [id |-> n, code |-> l.code, qty |-> l.qty]
NoTool == [st |-> "none", kind |-> "none", list |-> NoList, todo |-> <<>>, done |-> <<>>]

CartInit ==
    /\ cart = [x \in Codes |-> 0] /\ lists = [w \in Lists |-> {}] /\ nextItem = 1
    /\ tool = [c \in Shoppers |-> NoTool] /\ tools = 0
    /\ taken = {} /\ last = [x \in Codes |-> NoList]
    /\ mirrored \in BOOLEAN

\* A quantity that is not given is one.
Qty(q) == IF q = 0 THEN 1 ELSE q
Lines(n) == [1..n -> [code : Codes, qty : {Qty(q) : q \in 0..MaxQty}]]

\* A call begins: add one, add many, remove one, clear; WeekIDFrom gives the plan.
Begins(c, kind, todo) ==
    /\ tool[c] = NoTool /\ tools < IF mirrored THEN MaxInTurn ELSE MaxTools
    /\ mirrored => \A d \in Shoppers : tool[d] = NoTool
    /\ \E w \in Lists \cup {NoList} :
        tool' = [tool EXCEPT ![c] = [st |-> "shop", kind |-> kind, list |-> w,
                                     todo |-> todo, done |-> <<>>]]
    /\ tools' = tools + 1
    /\ UNCHANGED <<cart, lists, nextItem, taken, last, mirrored>>

AddOne(c) == \E todo \in Lines(1) : Begins(c, "add", todo)
AddMany(c) == \E todo \in Lines(2) : Begins(c, "many", todo)
RemoveOne(c) == \E x \in Codes : Begins(c, "remove", <<[code |-> x, qty |-> 0]>>)
ClearAll(c) == Begins(c, "clear", <<>>)

\* A call without a plan has nothing to mirror.
Mirrors(t, st) == IF t.list = NoList THEN NoTool ELSE [t EXCEPT !.st = st]

(***************************************************************************)
(* The shop.                                                               *)
(***************************************************************************)
\* CartAdd, CartRemove: the shop takes the first line.
Takes(c) ==
    LET t == tool[c]
        l == Head(t.todo)
        rest == [t EXCEPT !.todo = Tail(@), !.done = Append(@, l)]
    IN  /\ t.st = "shop" /\ t.todo # <<>>
        /\ cart' = [cart EXCEPT ![l.code] = l.qty]
        /\ last' = [last EXCEPT ![l.code] = t.list]
        /\ taken' = IF t.kind = "remove" \/ t.list = NoList THEN taken ELSE taken \cup {<<t.list, l>>}
        /\ tool' = [tool EXCEPT ![c] = IF t.kind = "many" THEN rest
                                       ELSE Mirrors(rest, IF t.kind = "add" THEN "insert" ELSE "delete")]
        /\ UNCHANGED <<lists, nextItem, tools, mirrored>>

\* Faulty variant: a line that failed is noted as added.
FailsNoted(c) ==
    LET t == tool[c]
    IN  /\ t.st = "shop" /\ t.todo # <<>> /\ ~mirrored
        /\ cart' \in {cart, [cart EXCEPT ![Head(t.todo).code] = Head(t.todo).qty]}
        /\ tool' = [tool EXCEPT ![c] = IF t.kind = "many"
                                       THEN [t EXCEPT !.todo = Tail(@), !.done = Append(@, Head(t.todo))]
                                       ELSE NoTool]
        /\ UNCHANGED <<lists, nextItem, tools, taken, last, mirrored>>

\* The call fails, at the shop or after it (AddToCart reloads the cart, and its
\* error is the call's): the tool ends, or add_many goes on to the next line.
ShopFails(c) ==
    LET t == tool[c]
    IN  /\ t.st = "shop" /\ t.todo # <<>> /\ ~mirrored
        /\ cart' \in {cart, [cart EXCEPT ![Head(t.todo).code] = Head(t.todo).qty]}
        /\ tool' = [tool EXCEPT ![c] = IF t.kind = "many" THEN [t EXCEPT !.todo = Tail(@)] ELSE NoTool]
        /\ UNCHANGED <<lists, nextItem, tools, taken, last, mirrored>>

\* add_many reloads the cart before it records anything; its error ends the tool.
Reloads(c) ==
    LET t == tool[c]
    IN  /\ t.st = "shop" /\ t.kind = "many" /\ t.todo = <<>>
        /\ \/ tool' = [tool EXCEPT ![c] = IF t.done = <<>> THEN NoTool ELSE Mirrors(t, "insert")]
           \/ ~mirrored /\ tool' = [tool EXCEPT ![c] = NoTool]
        /\ UNCHANGED <<cart, lists, nextItem, tools, taken, last, mirrored>>

\* CartClear.
Clears(c) ==
    LET t == tool[c]
    IN  /\ t.st = "shop" /\ t.kind = "clear"
        /\ \/ /\ cart' = [x \in Codes |-> 0] /\ last' = [x \in Codes |-> t.list]
              /\ tool' = [tool EXCEPT ![c] = Mirrors(t, "delete")]
           \/ /\ ~mirrored /\ cart' \in {cart, [x \in Codes |-> 0]}
              /\ tool' = [tool EXCEPT ![c] = NoTool] /\ UNCHANGED last
        /\ UNCHANGED <<lists, nextItem, tools, taken, mirrored>>

(***************************************************************************)
(* The list.                                                               *)
(***************************************************************************)
\* Faulty variant: a product that is on the list already stays as it is.
InsertNew(c) ==
    LET t == tool[c]
        w == t.list
        l == Head(t.done)
    IN  /\ t.st = "insert"
        /\ \/ /\ w \in DOMAIN lists /\ nextItem' = nextItem + 1
              /\ lists' = [lists EXCEPT ![w] = IF \E row \in @ : row.code = l.code THEN @
                                              ELSE @ \cup {Item(nextItem, l)}]
           \/ (w \notin DOMAIN lists \/ ~mirrored) /\ UNCHANGED <<lists, nextItem>>
        /\ tool' = [tool EXCEPT ![c] = IF Tail(t.done) = <<>> THEN NoTool ELSE [t EXCEPT !.done = Tail(@)]]
        /\ UNCHANGED <<cart, tools, taken, last, mirrored>>

\* A row for every line that was added; one that fails is logged.
Inserts(c) ==
    LET t == tool[c]
        w == t.list
    IN  /\ t.st = "insert"
        /\ \/ /\ w \in DOMAIN lists /\ nextItem' = nextItem + 1
              /\ lists' = [lists EXCEPT ![w] = @ \cup {Item(nextItem, Head(t.done))}]
           \/ (w \notin DOMAIN lists \/ ~mirrored) /\ UNCHANGED <<lists, nextItem>>
        /\ tool' = [tool EXCEPT ![c] = IF Tail(t.done) = <<>> THEN NoTool ELSE [t EXCEPT !.done = Tail(@)]]
        /\ UNCHANGED <<cart, tools, taken, last, mirrored>>

\* The plan's rows of the product, or all of them; a failure is logged.
Deletes(c) ==
    LET t == tool[c]
        Stays(row) == t.kind = "remove" /\ row.code # t.done[1].code
    IN  /\ t.st = "delete"
        /\ \/ lists' = [w \in DOMAIN lists |-> IF w = t.list THEN {row \in lists[w] : Stays(row)}
                                              ELSE lists[w]]
           \/ ~mirrored /\ UNCHANGED lists
        /\ tool' = [tool EXCEPT ![c] = NoTool]
        /\ UNCHANGED <<cart, nextItem, tools, taken, last, mirrored>>

\* The plan is deleted, and its rows with it.
DeletePlan(w) ==
    /\ w \in DOMAIN lists /\ lists' = [v \in DOMAIN lists \ {w} |-> lists[v]]
    /\ UNCHANGED <<cart, nextItem, tool, tools, taken, last, mirrored>>

(***************************************************************************)
(* Around them.                                                            *)
(***************************************************************************)
\* The process ends, and the calls with it; in turn, it has none.
ToolsEnd ==
    /\ mirrored => \A c \in Shoppers : tool[c] = NoTool
    /\ tool' = [c \in Shoppers |-> NoTool]
    /\ UNCHANGED <<cart, lists, nextItem, tools, taken, last, mirrored>>

CartNext ==
    \/ \E c \in Shoppers :
        \/ AddOne(c) \/ AddMany(c) \/ RemoveOne(c) \/ ClearAll(c)
        \/ Takes(c) \/ ShopFails(c) \/ Reloads(c) \/ Clears(c) \/ Inserts(c) \/ Deletes(c)
    \/ \E w \in Lists : DeletePlan(w)
    \/ ToolsEnd

CartSpec == CartInit /\ [][CartNext]_cartVars

(***************************************************************************)
(* Properties.                                                             *)
(***************************************************************************)
RowsOf(rows, x) == {row \in rows : row.code = x}

\* Product x, of which the cart has q, in the rows of a list: no row when there
\* is none of it, and otherwise a row with that quantity, beside whatever rows
\* earlier calls have left.
Listed(rows, x, q) ==
    IF q = 0 THEN RowsOf(rows, x) = {} ELSE \E row \in RowsOf(rows, x) : row.qty = q

\* A product whose last change in the cart was made for a plan is in that plan's
\* list exactly if it is in the cart, and with the quantity that it has there,
\* whatever the other plans' chats did before: as long as the calls do not
\* overlap and nothing fails (shopCartAddTool, shopCartAddManyTool,
\* shopCartRemoveTool, shopCartClearTool).  That its rows add up to what is in the
\* cart is not so: a product that is added again has a second row.
CartIsListed ==
    mirrored /\ (\A c \in Shoppers : tool[c] = NoTool)
    => \A x \in Codes : last[x] \in DOMAIN lists => Listed(lists[last[x]], x, cart[x])

\* A list never has what the shop did not take for this very plan, in this
\* quantity: not after failures, nor when calls of several chats interleave.
RecordsWereAdded == \A w \in DOMAIN lists : \A row \in lists[w] :
    <<w, [code |-> row.code, qty |-> row.qty]>> \in taken
=============================================================================
