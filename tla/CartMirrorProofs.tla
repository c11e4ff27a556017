-------------------------- MODULE CartMirrorProofs --------------------------
(***************************************************************************)
(* Proofs about CartMirror, for any products, plans, chats and numbers of  *)
(* calls: no list has what the shop did not take for its plan, whatever    *)
(* overlaps and fails; and the lists mirror the cart as long as calls do   *)
(* not overlap and nothing fails.  And both beside the shop's session.     *)
(***************************************************************************)
EXTENDS MCShop, WillysSessionProofs, SequenceTheorems

USE CartAssumption

(***************************************************************************)
(* Products in a list.                                                     *)
(***************************************************************************)
\* A row that is added lists its product with its quantity, and leaves the
\* other products as they are listed.
LEMMA InsertedIsListed ==
    ASSUME NEW rows, NEW n, NEW l, NEW x
    PROVE  /\ l.code = x /\ l.qty # 0 => Listed(rows \cup {Item(n, l)}, x, l.qty)
           /\ l.code # x =>
                \A q : Listed(rows, x, q) => Listed(rows \cup {Item(n, l)}, x, q)
<1> DEFINE it == Item(n, l)
<1>1. it.code = l.code /\ it.qty = l.qty
  BY DEF Item
<1> HIDE DEF it
<1>2. CASE l.code # x
  <2>1. RowsOf(rows \cup {it}, x) = RowsOf(rows, x)
    BY <1>1, <1>2 DEF RowsOf
  <2> QED  BY <1>2, <2>1 DEF Listed, it
<1>3. CASE l.code = x
  <2>1. it \in RowsOf(rows \cup {it}, x)
    BY <1>1, <1>3 DEF RowsOf
  <2>2. l.qty # 0 => Listed(rows \cup {it}, x, l.qty)
    BY <1>1, <2>1 DEF Listed
  <2> QED  BY <1>3, <2>2 DEF it
<1> QED  BY <1>2, <1>3

\* Without its rows a product is not listed, and other products are as they were.
But(rows, y) == {row \in rows : row.code # y}

LEMMA DeletedIsGone ==
    ASSUME NEW rows, NEW x, NEW y
    PROVE  /\ Listed(But(rows, x), x, 0)
           /\ x # y => \A q : Listed(rows, x, q) => Listed(But(rows, y), x, q)
<1>1. RowsOf(But(rows, x), x) = {}
  BY DEF RowsOf, But
<1>2. x # y => RowsOf(But(rows, y), x) = RowsOf(rows, x)
  BY DEF RowsOf, But
<1> QED  BY <1>1, <1>2 DEF Listed

LEMMA NothingListed == \A x : Listed({}, x, 0)
BY DEF Listed, RowsOf

(***************************************************************************)
(* Types, and what a call has at each place.                               *)
(***************************************************************************)
Call == [st : {"none", "shop", "insert", "delete"},
         kind : {"none", "add", "many", "remove", "clear"},
         list : Lists \cup {NoList}, todo : Seq(Line), done : Seq(Line)]

Row(n) == [id : 1..(n - 1), code : Codes, qty : 0..MaxQty]

CartTypeOK ==
    /\ cart \in [Codes -> 0..MaxQty]
    /\ nextItem \in Nat \ {0}
    /\ DOMAIN lists \subseteq Lists /\ lists \in [DOMAIN lists -> SUBSET Row(nextItem)]
    /\ tool \in [Shoppers -> Call] /\ tools \in Nat
    /\ last \in [Codes -> Lists \cup {NoList}]
    /\ mirrored \in BOOLEAN

Adds(t) == t.kind \in {"add", "many"}

\* Rows are inserted by the tools that add, and the others delete.
PlacesOf(t) ==
    /\ t.st = "none" <=> t = NoTool
    /\ t.st = "insert" => Adds(t) /\ t.list \in Lists /\ t.done # <<>>
    /\ t.st = "delete" => t.list \in Lists /\ t.kind \in {"remove", "clear"}
    /\ t.st = "delete" /\ t.kind = "remove" => t.done # <<>> /\ t.done[1].qty = 0
    /\ t.st = "shop" /\ t.kind # "many" => t.done = <<>>
    /\ t.st = "shop" /\ t.kind \in {"add", "remove"} => Len(t.todo) = 1
    /\ t.st = "shop" /\ t.kind = "clear" => t.todo = <<>>
    /\ t.st = "shop" /\ t.kind = "remove" => t.todo[1].qty = 0
    /\ t.st = "shop" => t.kind # "none"

\* What a call has on its way to a list was taken for that list's plan.
TakenOf(t, took) ==
    Adds(t) /\ t.list # NoList => \A i \in 1..Len(t.done) : <<t.list, t.done[i]>> \in took

AddInv ==
    /\ CartTypeOK
    /\ \A c \in Shoppers : PlacesOf(tool[c]) /\ TakenOf(tool[c], taken)
    /\ RecordsWereAdded

(***************************************************************************)
(* What the shop did not take is in no list.                               *)
(***************************************************************************)
LEMMA NoToolIsCall ==
    /\ NoTool \in Call /\ PlacesOf(NoTool) /\ NoTool.st = "none" /\ NoTool.kind = "none"
    /\ NoTool.list = NoList /\ \A took : TakenOf(NoTool, took)
BY DEF NoTool, Call, PlacesOf, TakenOf, Adds

LEMMA InitAddInv == CartInit => AddInv
<1> SUFFICES ASSUME CartInit PROVE AddInv
  OBVIOUS
<1>1. CartTypeOK
  BY NoToolIsCall DEF CartInit, CartTypeOK
<1>2. \A c \in Shoppers : PlacesOf(tool[c]) /\ TakenOf(tool[c], taken)
  BY NoToolIsCall DEF CartInit
<1>3. RecordsWereAdded
  BY DEF CartInit, RecordsWereAdded
<1> QED  BY <1>1, <1>2, <1>3 DEF AddInv

\* A step of one call; what was seen to be taken stays so.
LEMMA OneCall ==
    ASSUME AddInv, NEW c \in Shoppers, NEW t \in Call, tool' = [tool EXCEPT ![c] = t],
           PlacesOf(t), taken \subseteq taken', TakenOf(t, taken')
    PROVE  /\ tool' \in [Shoppers -> Call]
           /\ \A d \in Shoppers : PlacesOf(tool'[d]) /\ TakenOf(tool'[d], taken')
<1>1. tool' \in [Shoppers -> Call] /\ \A d \in Shoppers : tool'[d] = IF d = c THEN t ELSE tool[d]
  BY DEF AddInv, CartTypeOK
<1>2. \A d \in Shoppers : TakenOf(tool[d], taken')
  BY DEF AddInv, TakenOf
<1> QED  BY <1>1, <1>2 DEF AddInv

\* One that leaves the lists alone.
LEMMA OneCallAddInv ==
    ASSUME AddInv, NEW c \in Shoppers, NEW t \in Call, tool' = [tool EXCEPT ![c] = t],
           PlacesOf(t), taken \subseteq taken', TakenOf(t, taken'),
           UNCHANGED <<lists, nextItem, mirrored>>,
           cart' \in [Codes -> 0..MaxQty], tools' \in Nat,
           last' \in [Codes -> Lists \cup {NoList}]
    PROVE  AddInv'
<1>1. CartTypeOK'
  BY OneCall DEF AddInv, CartTypeOK
<1>2. RecordsWereAdded'
  BY DEF AddInv, RecordsWereAdded
<1> QED  BY <1>1, <1>2, OneCall DEF AddInv

LEMMA BeginsAddInv ==
    ASSUME AddInv, NEW c \in Shoppers, NEW kind \in {"add", "many", "remove", "clear"},
           NEW todo \in Seq(Line), Begins(c, kind, todo),
           kind \in {"add", "remove"} => Len(todo) = 1, kind = "clear" => todo = <<>>,
           kind = "remove" => todo[1].qty = 0
    PROVE  AddInv'
<1>1. PICK w \in Lists \cup {NoList} :
          tool' = [tool EXCEPT ![c] = [st |-> "shop", kind |-> kind, list |-> w,
                                       todo |-> todo, done |-> <<>>]]
  BY DEF Begins
<1> DEFINE t == [st |-> "shop", kind |-> kind, list |-> w, todo |-> todo, done |-> <<>>]
<1>2. t \in Call /\ NoTool.st = "none"
  BY DEF Call, NoTool
<1>3. PlacesOf(t) /\ TakenOf(t, taken)
  <2>1. t # NoTool
    BY <1>2
  <2> QED  BY <1>2, <2>1 DEF PlacesOf, TakenOf, Adds
<1>4. UNCHANGED <<cart, lists, nextItem, taken, last, mirrored>> /\ tools' \in Nat
  BY DEF Begins, AddInv, CartTypeOK
<1> HIDE DEF t
<1> QED  BY <1>1, <1>2, <1>3, <1>4, OneCallAddInv DEF t, AddInv, CartTypeOK

LEMMA AsksAddInv ==
    ASSUME AddInv, NEW c \in Shoppers,
           AddOne(c) \/ AddMany(c) \/ RemoveOne(c) \/ ClearAll(c)
    PROVE  AddInv'
<1>1. \A n \in Nat : \A todo \in Lines(n) : todo \in Seq(Line) /\ Len(todo) = n
  <2> SUFFICES ASSUME NEW n \in Nat, NEW todo \in Lines(n) PROVE todo \in Seq(Line) /\ Len(todo) = n
    OBVIOUS
  <2>1. \A i \in 1..n : todo[i] \in Line
    BY DEF Lines, Qty, Line
  <2>2. todo = [i \in 1..n |-> todo[i]]
    BY DEF Lines
  <2> QED  BY <2>1, <2>2
<1>2. CASE AddOne(c)
  BY <1>1, <1>2, BeginsAddInv DEF AddOne
<1>3. CASE AddMany(c)
  BY <1>1, <1>3, BeginsAddInv DEF AddMany
<1>4. CASE RemoveOne(c)
  <2>1. PICK x \in Codes : Begins(c, "remove", <<[code |-> x, qty |-> 0]>>)
    BY <1>4 DEF RemoveOne
  <2>2. /\ <<[code |-> x, qty |-> 0]>> \in Seq(Line) /\ Len(<<[code |-> x, qty |-> 0]>>) = 1
        /\ <<[code |-> x, qty |-> 0]>>[1].qty = 0
    BY DEF Line
  <2> QED  BY <2>1, <2>2, BeginsAddInv
<1>5. CASE ClearAll(c)
  <2>1. Begins(c, "clear", <<>>) /\ <<>> \in Seq(Line)
    BY <1>5 DEF ClearAll
  <2> QED  BY <2>1, BeginsAddInv
<1> QED  BY <1>2, <1>3, <1>4, <1>5

\* What a call has, in the words of the steps' proofs.
LEMMA CallFacts ==
    ASSUME AddInv, NEW c \in Shoppers
    PROVE  /\ tool[c] \in Call /\ PlacesOf(tool[c]) /\ TakenOf(tool[c], taken)
           /\ cart \in [Codes -> 0..MaxQty] /\ last \in [Codes -> Lists \cup {NoList}]
           /\ tools \in Nat /\ nextItem \in Nat \ {0}
           /\ DOMAIN lists \subseteq Lists /\ lists \in [DOMAIN lists -> SUBSET Row(nextItem)]
BY DEF AddInv, CartTypeOK

\* The first line leaves what is to do, and may be done.
LEMMA HeadGone ==
    ASSUME NEW s \in Seq(Line), s # <<>>
    PROVE  /\ Head(s) \in Line /\ Tail(s) \in Seq(Line) /\ Head(s) = s[1]
           /\ Len(s) > 0 /\ Len(Tail(s)) = Len(s) - 1
           /\ \A i \in 1..Len(Tail(s)) : Tail(s)[i] = s[i + 1]
OBVIOUS

LEMMA LineAdded ==
    ASSUME NEW s \in Seq(Line), NEW l \in Line
    PROVE  /\ Append(s, l) \in Seq(Line) /\ Append(s, l) # <<>> /\ Len(Append(s, l)) = Len(s) + 1
           /\ Append(s, l)[Len(s) + 1] = l /\ \A i \in 1..Len(s) : Append(s, l)[i] = s[i]
OBVIOUS

LEMMA TakesAddInv ==
    ASSUME AddInv, NEW c \in Shoppers, Takes(c)
    PROVE  AddInv'
<1> DEFINE t == tool[c]
           l == Head(t.todo)
           rest == [t EXCEPT !.todo = Tail(@), !.done = Append(@, l)]
           st == IF t.kind = "add" THEN "insert" ELSE "delete"
           next == IF t.kind = "many" THEN rest ELSE Mirrors(rest, st)
<1>1. t \in Call /\ PlacesOf(t) /\ TakenOf(t, taken) /\ t.st = "shop" /\ t.todo # <<>>
  BY CallFacts DEF Takes
<1>2. l \in Line /\ Tail(t.todo) \in Seq(Line) /\ Append(t.done, l) \in Seq(Line)
      /\ Len(Tail(t.todo)) = Len(t.todo) - 1 /\ l = t.todo[1]
  BY <1>1, HeadGone, LineAdded DEF Call
<1>3. /\ rest \in Call /\ rest.st = "shop" /\ rest.kind = t.kind /\ rest.list = t.list
      /\ rest.todo = Tail(t.todo) /\ rest.done = Append(t.done, l)
  BY <1>1, <1>2 DEF Call
<1>4. taken' = IF t.kind = "remove" \/ t.list = NoList THEN taken ELSE taken \cup {<<t.list, l>>}
  BY DEF Takes
<1>5. taken \subseteq taken'
  BY <1>4
<1>6. TakenOf(rest, taken')
  <2> SUFFICES ASSUME Adds(t), t.list # NoList, NEW i \in 1..Len(Append(t.done, l))
               PROVE  <<t.list, Append(t.done, l)[i]>> \in taken'
    BY <1>3 DEF TakenOf, Adds
  <2>1. <<t.list, l>> \in taken'
    BY <1>4 DEF Adds
  <2>2. \A j \in 1..Len(t.done) : <<t.list, t.done[j]>> \in taken'
    BY <1>1, <1>5 DEF TakenOf
  <2>3. t.done \in Seq(Line)
    BY <1>1 DEF Call
  <2> QED  BY <1>2, <2>1, <2>2, <2>3, LineAdded
<1>7. next \in Call /\ PlacesOf(next) /\ TakenOf(next, taken')
  <2> HIDE DEF rest, t, l
  <2>1. CASE t.kind = "many"
    <3>1. PlacesOf(rest)
      BY <1>3, <2>1, NoToolIsCall DEF PlacesOf
    <3> QED  BY <1>3, <1>6, <2>1, <3>1
  <2>2. CASE t.kind # "many" /\ t.list = NoList
    BY <1>3, <2>2, NoToolIsCall DEF Mirrors
  <2>3. CASE t.kind # "many" /\ t.list # NoList
    <3>1. /\ next \in Call /\ next.st = st /\ next.kind = t.kind /\ next.list = t.list
          /\ next.todo = rest.todo /\ next.done = rest.done
      <4>1. next = [rest EXCEPT !.st = st]
        BY <1>3, <2>3 DEF Mirrors
      <4>2. st \in {"insert", "delete"}
        OBVIOUS
      <4> HIDE DEF st, next
      <4> QED  BY <1>3, <4>1, <4>2 DEF Call
    <3>2. TakenOf(next, taken')
      BY <1>3, <1>6, <3>1 DEF TakenOf, Adds
    <3>3. /\ t.kind \in {"add", "remove", "clear"} /\ t.kind # "clear" /\ t.done = <<>>
          /\ t.list \in Lists
      BY <1>1, <2>3 DEF PlacesOf, Call
    <3>4. next.done # <<>> /\ next.done[1] = l /\ (t.kind = "remove" => l.qty = 0)
      BY <1>1, <1>2, <1>3, <3>1, <3>3 DEF PlacesOf
    <3>5. next # NoTool
      BY <3>1, NoToolIsCall
    <3>6. PlacesOf(next)
      <4> HIDE DEF next
      <4> QED  BY <3>1, <3>3, <3>4, <3>5 DEF PlacesOf, Adds
    <3> QED  BY <3>1, <3>2, <3>6
  <2> QED  BY <2>1, <2>2, <2>3
<1>8. tool' = [tool EXCEPT ![c] = next]
  BY DEF Takes
<1>9. UNCHANGED <<lists, nextItem, mirrored>> /\ tools' \in Nat
  BY CallFacts DEF Takes
<1>10. cart' \in [Codes -> 0..MaxQty] /\ last' \in [Codes -> Lists \cup {NoList}]
  <2>1. /\ cart' = [cart EXCEPT ![l.code] = l.qty] /\ last' = [last EXCEPT ![l.code] = t.list]
    BY DEF Takes
  <2>2. l.qty \in 0..MaxQty /\ t.list \in Lists \cup {NoList}
    BY <1>1, <1>2 DEF Line, Call
  <2> HIDE DEF l, t
  <2> QED  BY <2>1, <2>2, CallFacts
<1> HIDE DEF next
<1> QED  BY <1>5, <1>7, <1>8, <1>9, <1>10, OneCallAddInv

LEMMA ShopFailsAddInv ==
    ASSUME AddInv, NEW c \in Shoppers, ShopFails(c)
    PROVE  AddInv'
<1> DEFINE t == tool[c]
           next == IF t.kind = "many" THEN [t EXCEPT !.todo = Tail(@)] ELSE NoTool
<1>1. t \in Call /\ PlacesOf(t) /\ TakenOf(t, taken) /\ t.st = "shop" /\ t.todo # <<>>
  BY CallFacts DEF ShopFails
<1>2. Head(t.todo) \in Line /\ Tail(t.todo) \in Seq(Line)
  BY <1>1, HeadGone DEF Call
<1>3. next \in Call /\ PlacesOf(next) /\ TakenOf(next, taken)
  <2>1. CASE t.kind = "many"
    <3>1. /\ next \in Call /\ next.st = "shop" /\ next.kind = "many" /\ next.list = t.list
          /\ next.done = t.done
      BY <1>1, <1>2, <2>1 DEF Call
    <3> HIDE DEF next
    <3> QED  BY <1>1, <2>1, <3>1, NoToolIsCall DEF PlacesOf, TakenOf, Adds
  <2> QED  BY <2>1, NoToolIsCall
<1>4. tool' = [tool EXCEPT ![c] = next] /\ UNCHANGED <<lists, nextItem, tools, taken, last, mirrored>>
  BY DEF ShopFails
<1>5. cart' \in [Codes -> 0..MaxQty]
  <2>1. cart' = cart \/ cart' = [cart EXCEPT ![Head(t.todo).code] = Head(t.todo).qty]
    BY DEF ShopFails
  <2>2. Head(t.todo).qty \in 0..MaxQty
    BY <1>2 DEF Line
  <2> QED  BY <2>1, <2>2, CallFacts
<1> HIDE DEF next
<1> QED  BY <1>3, <1>4, <1>5, OneCallAddInv, CallFacts

LEMMA ReloadsAddInv ==
    ASSUME AddInv, NEW c \in Shoppers, Reloads(c)
    PROVE  AddInv'
<1> DEFINE t == tool[c]
<1>1. t \in Call /\ PlacesOf(t) /\ TakenOf(t, taken) /\ t.st = "shop" /\ t.kind = "many"
  BY CallFacts DEF Reloads
<1>2. PICK next \in Call :
         tool' = [tool EXCEPT ![c] = next] /\ PlacesOf(next) /\ TakenOf(next, taken)
  <2>1. CASE tool' = [tool EXCEPT ![c] = NoTool]
    BY <2>1, NoToolIsCall
  <2>2. CASE t.done # <<>> /\ tool' = [tool EXCEPT ![c] = Mirrors(t, "insert")]
    <3>1. CASE t.list = NoList
      BY <2>2, <3>1, NoToolIsCall DEF Mirrors
    <3>2. CASE t.list # NoList
      <4> DEFINE next == [t EXCEPT !.st = "insert"]
      <4>1. /\ next \in Call /\ next.st = "insert" /\ next.kind = "many" /\ next.list = t.list
            /\ next.done = t.done /\ t.list \in Lists
        BY <1>1, <3>2 DEF Call
      <4>2. tool' = [tool EXCEPT ![c] = next]
        BY <2>2, <3>2 DEF Mirrors
      <4> HIDE DEF next
      <4>3. PlacesOf(next) /\ TakenOf(next, taken)
        BY <1>1, <2>2, <4>1, NoToolIsCall DEF PlacesOf, TakenOf, Adds
      <4> QED  BY <4>1, <4>2, <4>3
    <3> QED  BY <3>1, <3>2
  <2> QED  BY <2>1, <2>2 DEF Reloads
<1>3. UNCHANGED <<cart, lists, nextItem, tools, taken, last, mirrored>>
  BY DEF Reloads
<1> QED  BY <1>2, <1>3, OneCallAddInv, CallFacts

LEMMA ClearsAddInv ==
    ASSUME AddInv, NEW c \in Shoppers, Clears(c)
    PROVE  AddInv'
<1> DEFINE t == tool[c]
<1>1. t \in Call /\ PlacesOf(t) /\ TakenOf(t, taken) /\ t.st = "shop" /\ t.kind = "clear"
  BY CallFacts DEF Clears
<1>2. PICK next \in Call :
         tool' = [tool EXCEPT ![c] = next] /\ PlacesOf(next) /\ TakenOf(next, taken)
  <2>1. CASE tool' = [tool EXCEPT ![c] = NoTool] \/ t.list = NoList
    BY <2>1, NoToolIsCall DEF Clears, Mirrors
  <2>2. CASE t.list # NoList /\ tool' = [tool EXCEPT ![c] = Mirrors(t, "delete")]
    <3> DEFINE next == [t EXCEPT !.st = "delete"]
    <3>1. /\ next \in Call /\ next.st = "delete" /\ next.kind = "clear" /\ next.list = t.list
          /\ t.list \in Lists
      BY <1>1, <2>2 DEF Call
    <3>2. tool' = [tool EXCEPT ![c] = next]
      BY <2>2 DEF Mirrors
    <3> HIDE DEF next
    <3>3. PlacesOf(next) /\ TakenOf(next, taken)
      BY <3>1, NoToolIsCall DEF PlacesOf, TakenOf, Adds
    <3> QED  BY <3>1, <3>2, <3>3
  <2> QED  BY <2>1, <2>2 DEF Clears
<1>3. UNCHANGED <<lists, nextItem, tools, taken, mirrored>>
  BY DEF Clears
<1>4. cart' \in [Codes -> 0..MaxQty] /\ last' \in [Codes -> Lists \cup {NoList}]
  BY <1>1, CallFacts DEF Clears, Call
<1> QED  BY <1>2, <1>3, <1>4, OneCallAddInv, CallFacts

\* A row that was there is a row of a longer table.
LEMMA RowsStay ==
    ASSUME NEW n \in Nat \ {0}
    PROVE  Row(n) \subseteq Row(n + 1)
BY DEF Row

LEMMA InsertsAddInv ==
    ASSUME AddInv, NEW c \in Shoppers, Inserts(c)
    PROVE  AddInv'
<1> DEFINE t == tool[c]
           w == t.list
           l == Head(t.done)
           next == IF Tail(t.done) = <<>> THEN NoTool ELSE [t EXCEPT !.done = Tail(@)]
<1>1. /\ t \in Call /\ PlacesOf(t) /\ TakenOf(t, taken) /\ t.st = "insert" /\ t.done # <<>>
      /\ Adds(t) /\ w \in Lists
  BY CallFacts DEF Inserts, PlacesOf
<1>2. /\ l \in Line /\ Tail(t.done) \in Seq(Line) /\ l = t.done[1] /\ 1 \in 1..Len(t.done)
      /\ Len(Tail(t.done)) = Len(t.done) - 1
      /\ \A i \in 1..Len(Tail(t.done)) : Tail(t.done)[i] = t.done[i + 1]
  BY <1>1, HeadGone DEF Call
<1>3. next \in Call /\ PlacesOf(next) /\ TakenOf(next, taken)
  <2>1. CASE Tail(t.done) # <<>>
    <3>1. /\ next \in Call /\ next.st = "insert" /\ next.kind = t.kind /\ next.list = w
          /\ next.done = Tail(t.done)
      BY <1>1, <1>2, <2>1 DEF Call
    <3>2. PlacesOf(next)
      <4> HIDE DEF next
      <4> QED  BY <1>1, <2>1, <3>1, NoToolIsCall DEF PlacesOf, Adds
    <3>3. TakenOf(next, taken)
      <4> HIDE DEF next
      <4> SUFFICES ASSUME w # NoList, NEW i \in 1..Len(Tail(t.done))
                   PROVE  <<w, Tail(t.done)[i]>> \in taken
        BY <1>1, <3>1 DEF TakenOf, Adds
      <4>1. i + 1 \in 1..Len(t.done)
        BY <1>1, <1>2 DEF Call
      <4> QED  BY <1>1, <1>2, <4>1 DEF TakenOf
    <3> QED  BY <3>1, <3>2, <3>3
  <2> QED  BY <2>1, NoToolIsCall
<1>4. tool' = [tool EXCEPT ![c] = next] /\ UNCHANGED <<cart, tools, taken, last, mirrored>>
  BY DEF Inserts
<1> HIDE DEF next
<1>5. CASE UNCHANGED <<lists, nextItem>>
  BY <1>3, <1>4, <1>5, OneCallAddInv, CallFacts
<1>6. CASE /\ w \in DOMAIN lists /\ nextItem' = nextItem + 1
           /\ lists' = [lists EXCEPT ![w] = @ \cup {Item(nextItem, l)}]
  <2>1. Item(nextItem, l) \in Row(nextItem + 1)
    BY <1>2, CallFacts DEF Item, Row, Line
  <2>2. /\ DOMAIN lists' = DOMAIN lists
        /\ \A v \in DOMAIN lists : lists'[v] = IF v = w THEN lists[v] \cup {Item(nextItem, l)}
                                               ELSE lists[v]
    BY <1>6, CallFacts
  <2>3. lists' \in [DOMAIN lists' -> SUBSET Row(nextItem')]
    <3>1. lists \in [DOMAIN lists -> SUBSET Row(nextItem + 1)]
      BY CallFacts, RowsStay
    <3> QED  BY <1>6, <2>1, <3>1
  <2>4. CartTypeOK'
    <3>1. nextItem' \in Nat \ {0} /\ DOMAIN lists' \subseteq Lists
      BY <1>6, <2>2, CallFacts
    <3> QED  BY <1>3, <1>4, <2>3, <3>1, OneCall DEF AddInv, CartTypeOK
  <2>5. RecordsWereAdded'
    <3> SUFFICES ASSUME NEW v \in DOMAIN lists, NEW row \in lists'[v]
                 PROVE  <<v, [code |-> row.code, qty |-> row.qty]>> \in taken
      BY <1>4, <2>2 DEF RecordsWereAdded
    <3>1. CASE row \in lists[v]
      BY <3>1 DEF AddInv, RecordsWereAdded
    <3>2. CASE v = w /\ row = Item(nextItem, l)
      <4>1. [code |-> row.code, qty |-> row.qty] = l
        BY <1>2, <3>2 DEF Item, Line
      <4>2. <<w, l>> \in taken
        BY <1>1, <1>2 DEF TakenOf
      <4> QED  BY <3>2, <4>1, <4>2
    <3> QED  BY <2>2, <3>1, <3>2
  <2> QED  BY <1>3, <1>4, <2>4, <2>5, OneCall DEF AddInv
<1> QED  BY <1>5, <1>6 DEF Inserts

\* Fewer rows, and fewer plans.
LEMMA FewerRowsAddInv ==
    ASSUME AddInv, tool' \in [Shoppers -> Call],
           \A d \in Shoppers : PlacesOf(tool'[d]) /\ TakenOf(tool'[d], taken),
           lists' = [v \in DOMAIN lists' |-> lists'[v]], DOMAIN lists' \subseteq DOMAIN lists,
           \A v \in DOMAIN lists' : lists'[v] \subseteq lists[v],
           UNCHANGED <<cart, nextItem, tools, taken, last, mirrored>>
    PROVE  AddInv'
<1>1. \A v \in DOMAIN lists' : lists'[v] \in SUBSET Row(nextItem)
  BY DEF AddInv, CartTypeOK
<1>2. lists' \in [DOMAIN lists' -> SUBSET Row(nextItem)]
  BY <1>1
<1>3. CartTypeOK'
  BY <1>2 DEF AddInv, CartTypeOK
<1>4. RecordsWereAdded'
  BY DEF AddInv, RecordsWereAdded
<1> QED  BY <1>3, <1>4 DEF AddInv

LEMMA DeletesAddInv ==
    ASSUME AddInv, NEW c \in Shoppers, Deletes(c)
    PROVE  AddInv'
<1>1. /\ tool' = [tool EXCEPT ![c] = NoTool]
      /\ UNCHANGED <<cart, nextItem, tools, taken, last, mirrored>>
  BY DEF Deletes
<1>2. /\ tool' \in [Shoppers -> Call]
      /\ \A d \in Shoppers : PlacesOf(tool'[d]) /\ TakenOf(tool'[d], taken)
  BY <1>1, NoToolIsCall, OneCall
<1>3. CASE UNCHANGED lists
  BY <1>1, <1>3, NoToolIsCall, OneCallAddInv, CallFacts
<1>4. CASE ~UNCHANGED lists
  <2> DEFINE Stays(row) == tool[c].kind = "remove" /\ row.code # tool[c].done[1].code
  <2>1. lists' = [w \in DOMAIN lists |-> IF w = tool[c].list THEN {row \in lists[w] : Stays(row)}
                                         ELSE lists[w]]
    BY <1>4 DEF Deletes
  <2> HIDE DEF Stays
  <2>2. DOMAIN lists' = DOMAIN lists /\ \A v \in DOMAIN lists' : lists'[v] \subseteq lists[v]
    BY <2>1
  <2>3. lists' = [v \in DOMAIN lists' |-> lists'[v]]
    BY <2>1
  <2> QED  BY <1>1, <1>2, <2>2, <2>3, FewerRowsAddInv
<1> QED  BY <1>3, <1>4

LEMMA DeletePlanAddInv ==
    ASSUME AddInv, NEW w \in Lists, DeletePlan(w)
    PROVE  AddInv'
<1>1. /\ lists' = [v \in DOMAIN lists \ {w} |-> lists[v]]
      /\ UNCHANGED <<cart, nextItem, tool, tools, taken, last, mirrored>>
  BY DEF DeletePlan
<1>2. tool' \in [Shoppers -> Call] /\ \A d \in Shoppers : PlacesOf(tool'[d]) /\ TakenOf(tool'[d], taken)
  BY <1>1 DEF AddInv, CartTypeOK
<1>3. DOMAIN lists' \subseteq DOMAIN lists /\ \A v \in DOMAIN lists' : lists'[v] \subseteq lists[v]
  BY <1>1
<1>4. lists' = [v \in DOMAIN lists' |-> lists'[v]]
  BY <1>1
<1> QED  BY <1>1, <1>2, <1>3, <1>4, FewerRowsAddInv

LEMMA ToolsEndAddInv ==
    ASSUME AddInv, ToolsEnd
    PROVE  AddInv'
<1>1. /\ tool' = [c \in Shoppers |-> NoTool]
      /\ UNCHANGED <<cart, lists, nextItem, tools, taken, last, mirrored>>
  BY DEF ToolsEnd
<1>2. CartTypeOK'
  BY <1>1, NoToolIsCall DEF AddInv, CartTypeOK
<1>3. RecordsWereAdded'
  BY <1>1 DEF AddInv, RecordsWereAdded
<1> QED  BY <1>1, <1>2, <1>3, NoToolIsCall DEF AddInv

\* The invariant of the records, which holds whatever fails and overlaps.
LEMMA NextAddInv == AddInv /\ [CartNext]_cartVars => AddInv'
<1> SUFFICES ASSUME AddInv, [CartNext]_cartVars PROVE AddInv'
  OBVIOUS
<1>1. ASSUME NEW c \in Shoppers,
             AddOne(c) \/ AddMany(c) \/ RemoveOne(c) \/ ClearAll(c)
      PROVE  AddInv'
  BY <1>1, AsksAddInv
<1>2. ASSUME NEW c \in Shoppers,
             Takes(c) \/ ShopFails(c) \/ Reloads(c) \/ Clears(c) \/ Inserts(c) \/ Deletes(c)
      PROVE  AddInv'
  BY <1>2, TakesAddInv, ShopFailsAddInv, ReloadsAddInv, ClearsAddInv, InsertsAddInv, DeletesAddInv
<1>3. CASE \E w \in Lists : DeletePlan(w)
  BY <1>3, DeletePlanAddInv
<1>4. CASE ToolsEnd
  BY <1>4, ToolsEndAddInv
<1>5. CASE UNCHANGED cartVars
  <2>1. UNCHANGED <<cart, lists, nextItem, tool, tools, taken, last, mirrored>>
    BY <1>5 DEF cartVars
  <2> QED  BY <2>1 DEF AddInv, CartTypeOK, RecordsWereAdded
<1> QED  BY <1>1, <1>2, <1>3, <1>4, <1>5 DEF CartNext

THEOREM CartInductive == CartSpec => []AddInv
BY InitAddInv, NextAddInv, PTL DEF CartSpec

\* A list never has what the shop did not take for this very plan, in this
\* quantity, after failures or when calls of several chats interleave (the
\* inserts of shopCartAddTool and shopCartAddManyTool, after CartAdd).
THEOREM RecordsTrue == CartSpec => []RecordsWereAdded
<1>1. AddInv => RecordsWereAdded
  BY DEF AddInv
<1> QED  BY <1>1, CartInductive, PTL

(***************************************************************************)
(* What is added has a quantity.                                           *)
(***************************************************************************)
RealLines(t) ==
    Adds(t) => /\ \A i \in 1..Len(t.todo) : t.todo[i].qty # 0
               /\ \A i \in 1..Len(t.done) : t.done[i].qty # 0

RealInv == \A c \in Shoppers : RealLines(tool[c])

LEMMA NoToolReal == RealLines(NoTool)
BY DEF RealLines, Adds, NoTool

LEMMA OneCallReal ==
    ASSUME AddInv, RealInv, NEW c \in Shoppers, NEW t, tool' = [tool EXCEPT ![c] = t],
           RealLines(t)
    PROVE  RealInv'
BY DEF AddInv, CartTypeOK, RealInv

LEMMA NextRealInv == AddInv /\ RealInv /\ [CartNext]_cartVars => RealInv'
<1> SUFFICES ASSUME AddInv, RealInv, [CartNext]_cartVars PROVE RealInv'
  OBVIOUS
<1>1. ASSUME NEW c \in Shoppers, NEW kind, NEW todo, Begins(c, kind, todo),
             kind \in {"add", "many"} => \A i \in 1..Len(todo) : todo[i].qty # 0
      PROVE  RealInv'
  <2>1. PICK w : tool' = [tool EXCEPT ![c] = [st |-> "shop", kind |-> kind, list |-> w,
                                              todo |-> todo, done |-> <<>>]]
    BY <1>1 DEF Begins
  <2>2. RealLines([st |-> "shop", kind |-> kind, list |-> w, todo |-> todo, done |-> <<>>])
    BY <1>1 DEF RealLines, Adds
  <2> QED  BY <2>1, <2>2, OneCallReal
<1>2. \A n \in Nat : \A todo \in Lines(n) : \A i \in 1..Len(todo) : todo[i].qty # 0
  <2> SUFFICES ASSUME NEW n \in Nat, NEW todo \in Lines(n), NEW i \in 1..Len(todo)
               PROVE  todo[i].qty # 0
    OBVIOUS
  <2>1. Len(todo) = n
    BY DEF Lines
  <2>2. todo[i].qty \in {Qty(q) : q \in 0..MaxQty}
    BY <2>1 DEF Lines
  <2> QED  BY <2>2 DEF Qty
<1>3. ASSUME NEW c \in Shoppers, AddOne(c) \/ AddMany(c) \/ RemoveOne(c) \/ ClearAll(c)
      PROVE  RealInv'
  <2>1. CASE AddOne(c)
    BY <1>1, <1>2, <2>1 DEF AddOne
  <2>2. CASE AddMany(c)
    BY <1>1, <1>2, <2>2 DEF AddMany
  <2>3. CASE RemoveOne(c)
    BY <1>1, <2>3 DEF RemoveOne
  <2>4. CASE ClearAll(c)
    BY <1>1, <2>4 DEF ClearAll
  <2> QED  BY <1>3, <2>1, <2>2, <2>3, <2>4
<1>4. ASSUME NEW c \in Shoppers, Takes(c)
      PROVE  RealInv'
  <2> DEFINE t == tool[c]
             l == Head(t.todo)
             rest == [t EXCEPT !.todo = Tail(@), !.done = Append(@, l)]
             st == IF t.kind = "add" THEN "insert" ELSE "delete"
             next == IF t.kind = "many" THEN rest ELSE Mirrors(rest, st)
  <2>1. t \in Call /\ t.todo \in Seq(Line) /\ t.todo # <<>> /\ t.done \in Seq(Line)
    BY <1>4, CallFacts DEF Takes, Call
  <2>2. RealLines(t)
    BY DEF RealInv
  <2>3. /\ rest.kind = t.kind /\ rest.todo = Tail(t.todo) /\ rest.done = Append(t.done, l)
    BY <2>1 DEF Call
  <2>4. l = t.todo[1] /\ 1 \in 1..Len(t.todo) /\ l \in Line
    BY <2>1, HeadGone
  <2>5. RealLines(rest)
    <3> SUFFICES ASSUME Adds(t)
                 PROVE  /\ \A i \in 1..Len(Tail(t.todo)) : Tail(t.todo)[i].qty # 0
                        /\ \A i \in 1..Len(Append(t.done, l)) : Append(t.done, l)[i].qty # 0
      <4> HIDE DEF rest
      <4> QED  BY <2>3 DEF RealLines, Adds
    <3>1. /\ \A i \in 1..Len(t.todo) : t.todo[i].qty # 0
          /\ \A i \in 1..Len(t.done) : t.done[i].qty # 0
      BY <2>2 DEF RealLines
    <3>2. ASSUME NEW i \in 1..Len(Tail(t.todo)) PROVE Tail(t.todo)[i].qty # 0
      <4>1. i + 1 \in 1..Len(t.todo) /\ Tail(t.todo)[i] = t.todo[i + 1]
        BY <2>1, HeadGone
      <4> QED  BY <3>1, <4>1
    <3>3. ASSUME NEW i \in 1..Len(Append(t.done, l)) PROVE Append(t.done, l)[i].qty # 0
      BY <2>1, <2>4, <3>1, LineAdded
    <3> QED  BY <3>2, <3>3
  <2>6. RealLines(next)
    <3>1. CASE t.kind = "many"
      BY <2>5, <3>1
    <3>2. CASE t.kind # "many"
      <4>1. CASE rest.list = NoList
        BY <3>2, <4>1, NoToolReal DEF Mirrors
      <4>2. CASE rest.list # NoList
        <5>1. next.kind = rest.kind /\ next.todo = rest.todo /\ next.done = rest.done
          BY <3>2, <4>2 DEF Mirrors
        <5> HIDE DEF next, rest
        <5> QED  BY <2>5, <5>1 DEF RealLines, Adds
      <4> QED  BY <4>1, <4>2
    <3> QED  BY <3>1, <3>2
  <2>7. tool' = [tool EXCEPT ![c] = next]
    BY <1>4 DEF Takes
  <2> HIDE DEF next
  <2> QED  BY <2>6, <2>7, OneCallReal
<1>5. ASSUME NEW c \in Shoppers, ShopFails(c)
      PROVE  RealInv'
  <2> DEFINE t == tool[c]
             next == [t EXCEPT !.todo = Tail(@)]
  <2>1. t \in Call /\ t.todo \in Seq(Line) /\ t.todo # <<>>
    BY <1>5, CallFacts DEF ShopFails, Call
  <2>2. RealLines(t)
    BY DEF RealInv
  <2>3. next.kind = t.kind /\ next.todo = Tail(t.todo) /\ next.done = t.done
    BY <2>1 DEF Call
  <2>4. \A i \in 1..Len(Tail(t.todo)) : i + 1 \in 1..Len(t.todo) /\ Tail(t.todo)[i] = t.todo[i + 1]
    BY <2>1, HeadGone
  <2>5. tool' = [tool EXCEPT ![c] = next] \/ tool' = [tool EXCEPT ![c] = NoTool]
    BY <1>5 DEF ShopFails
  <2> HIDE DEF next
  <2>6. RealLines(next)
    BY <2>2, <2>3, <2>4 DEF RealLines, Adds
  <2> QED  BY <2>5, <2>6, NoToolReal, OneCallReal
<1>6. ASSUME NEW c \in Shoppers, Reloads(c) \/ Clears(c) \/ Deletes(c)
      PROVE  RealInv'
  <2> DEFINE t == tool[c]
             On(st) == [t EXCEPT !.st = st]
  <2>1. PICK st : \/ tool' = [tool EXCEPT ![c] = NoTool]
                  \/ tool' = [tool EXCEPT ![c] = On(st)]
    BY <1>6 DEF Reloads, Clears, Deletes, Mirrors
  <2>2. On(st).kind = t.kind /\ On(st).todo = t.todo /\ On(st).done = t.done
    BY CallFacts DEF Call
  <2> HIDE DEF On
  <2>3. RealLines(On(st))
    BY <2>2 DEF RealInv, RealLines, Adds
  <2> QED  BY <2>1, <2>3, NoToolReal, OneCallReal
<1>7. ASSUME NEW c \in Shoppers, Inserts(c)
      PROVE  RealInv'
  <2> DEFINE t == tool[c]
             next == [t EXCEPT !.done = Tail(@)]
  <2>1. t \in Call /\ t.done \in Seq(Line) /\ t.done # <<>>
    BY <1>7, CallFacts DEF Inserts, PlacesOf, Call
  <2>2. RealLines(t)
    BY DEF RealInv
  <2>3. next.kind = t.kind /\ next.todo = t.todo /\ next.done = Tail(t.done)
    BY <2>1 DEF Call
  <2>4. \A i \in 1..Len(Tail(t.done)) : i + 1 \in 1..Len(t.done) /\ Tail(t.done)[i] = t.done[i + 1]
    BY <2>1, HeadGone
  <2>5. tool' = [tool EXCEPT ![c] = next] \/ tool' = [tool EXCEPT ![c] = NoTool]
    BY <1>7 DEF Inserts
  <2> HIDE DEF next
  <2>6. RealLines(next)
    BY <2>2, <2>3, <2>4 DEF RealLines, Adds
  <2> QED  BY <2>5, <2>6, NoToolReal, OneCallReal
<1>8. CASE (\E w \in Lists : DeletePlan(w)) \/ UNCHANGED cartVars
  BY <1>8 DEF DeletePlan, cartVars, RealInv
<1>9. CASE ToolsEnd
  BY <1>9, NoToolReal DEF ToolsEnd, RealInv
<1> QED  BY <1>3, <1>4, <1>5, <1>6, <1>7, <1>8, <1>9 DEF CartNext

(***************************************************************************)
(* The mirror.                                                             *)
(***************************************************************************)
\* The call still has to mirror something of product x, and will leave v.
Touches(t, x) ==
    \/ Adds(t) /\ \E i \in 1..Len(t.done) : t.done[i].code = x
    \/ t.st = "delete" /\ (t.kind = "clear" \/ t.done[1].code = x)

Leaves(t, x, v) ==
    \/ /\ Adds(t)
       /\ \E i \in 1..Len(t.done) :
            /\ t.done[i].code = x /\ t.done[i].qty = v
            /\ \A j \in (i + 1)..Len(t.done) : t.done[j].code # x
    \/ t.st = "delete" /\ (t.kind = "clear" \/ t.done[1].code = x) /\ v = 0

\* The plan for which a product was changed last, w, lists the quantity v that
\* the cart has of it already, or a call that is made for it will bring it there.
Booked(ls, ts, w, v, x) ==
    w \in DOMAIN ls =>
        \/ /\ Listed(ls[w], x, v)
           /\ \A c \in Shoppers : ts[c].list = w => ~Touches(ts[c], x)
        \/ \E c \in Shoppers : ts[c].list = w /\ Leaves(ts[c], x, v)

MirrorInv ==
    mirrored =>
        /\ \A c, d \in Shoppers : tool[c] # NoTool /\ tool[d] # NoTool => c = d
        /\ \A x \in Codes : Booked(lists, tool, last[x], cart[x], x)

\* The same when one chat at most makes a call, t.
SoleBooked(ls, t, w, v, x) ==
    w \in DOMAIN ls =>
        \/ Listed(ls[w], x, v) /\ (t.list = w => ~Touches(t, x))
        \/ t.list = w /\ Leaves(t, x, v)

LEMMA BookedSole ==
    ASSUME NEW ls, DOMAIN ls \subseteq Lists, NEW ts, NEW c \in Shoppers, NEW w, NEW v, NEW x,
           \A d \in Shoppers : d # c => ts[d] = NoTool
    PROVE  Booked(ls, ts, w, v, x) <=> SoleBooked(ls, ts[c], w, v, x)
<1>1. w \in DOMAIN ls => \A d \in Shoppers : ts[d].list = w => d = c
  BY NoToolIsCall
<1> QED  BY <1>1 DEF Booked, SoleBooked

\* A step of the only call.
LEMMA SoleStep ==
    ASSUME AddInv, MirrorInv, mirrored, mirrored', NEW c \in Shoppers, tool[c] # NoTool,
           DOMAIN lists' \subseteq Lists,
           NEW t, tool' = [tool EXCEPT ![c] = t],
           \A x \in Codes : SoleBooked(lists, tool[c], last[x], cart[x], x)
                            => SoleBooked(lists', t, last'[x], cart'[x], x)
    PROVE  MirrorInv'
<1>1. \A d \in Shoppers : d # c => tool[d] = NoTool
  BY DEF MirrorInv
<1>2. tool' \in [Shoppers -> {tool'[d] : d \in Shoppers}] /\ tool'[c] = t
      /\ \A d \in Shoppers : d # c => tool'[d] = NoTool
  BY <1>1 DEF AddInv, CartTypeOK
<1>3. \A x \in Codes : Booked(lists, tool, last[x], cart[x], x)
                       => SoleBooked(lists, tool[c], last[x], cart[x], x)
  BY <1>1, BookedSole DEF AddInv, CartTypeOK
<1>4. \A x \in Codes : SoleBooked(lists', tool'[c], last'[x], cart'[x], x)
                       => Booked(lists', tool', last'[x], cart'[x], x)
  BY <1>2, BookedSole
<1>5. \A x \in Codes : Booked(lists', tool', last'[x], cart'[x], x)
  BY <1>2, <1>3, <1>4 DEF MirrorInv
<1> QED  BY <1>2, <1>5 DEF MirrorInv

\* A call that has done nothing yet touches nothing.
LEMMA IdleTouches == \A t, x : t.done = <<>> /\ t.st # "delete" => ~Touches(t, x) /\ \A v : ~Leaves(t, x, v)
BY DEF Touches, Leaves

LEMMA NoToolTouches == \A x : ~Touches(NoTool, x) /\ \A v : ~Leaves(NoTool, x, v)
BY DEF Touches, Leaves, NoTool, Adds

LEMMA BeginsMirrorInv ==
    ASSUME AddInv, MirrorInv, NEW c \in Shoppers, NEW kind, NEW todo, Begins(c, kind, todo)
    PROVE  MirrorInv'
<1> SUFFICES ASSUME mirrored PROVE MirrorInv'
  BY DEF Begins, MirrorInv
<1>1. PICK w \in Lists \cup {NoList} :
          tool' = [tool EXCEPT ![c] = [st |-> "shop", kind |-> kind, list |-> w,
                                       todo |-> todo, done |-> <<>>]]
  BY DEF Begins
<1> DEFINE t == [st |-> "shop", kind |-> kind, list |-> w, todo |-> todo, done |-> <<>>]
<1>2. UNCHANGED <<cart, lists, last, mirrored>> /\ \A d \in Shoppers : tool[d] = NoTool
  BY DEF Begins
<1>3. tool'[c] = t /\ \A d \in Shoppers : d # c => tool'[d] = NoTool
  BY <1>1, <1>2 DEF AddInv, CartTypeOK
<1>4. t.done = <<>> /\ t.st # "delete"
  OBVIOUS
<1> HIDE DEF t
<1>5. ASSUME NEW x \in Codes
      PROVE  Booked(lists', tool', last'[x], cart'[x], x)
  <2>1. SoleBooked(lists, tool[c], last[x], cart[x], x)
    BY <1>2, BookedSole DEF MirrorInv, AddInv, CartTypeOK
  <2>2. last[x] \in DOMAIN lists => Listed(lists[last[x]], x, cart[x])
    BY <1>2, <2>1, NoToolTouches DEF SoleBooked
  <2>3. ~Touches(t, x)
    BY <1>4, IdleTouches
  <2>4. SoleBooked(lists, t, last[x], cart[x], x)
    BY <2>2, <2>3 DEF SoleBooked
  <2> QED  BY <1>2, <1>3, <2>4, BookedSole DEF AddInv, CartTypeOK
<1> QED  BY <1>3, <1>5 DEF MirrorInv

\* A line that was done last is what a call that adds leaves of its product.
LEMMA LineTouches ==
    ASSUME NEW t, NEW n, NEW l \in Line, NEW x, t.done \in Seq(Line), Adds(t), Adds(n),
           n.st # "delete", t.st # "delete", n.done = Append(t.done, l)
    PROVE  /\ x = l.code => Leaves(n, x, l.qty)
           /\ x # l.code => /\ Touches(n, x) => Touches(t, x)
                            /\ \A v : Leaves(t, x, v) => Leaves(n, x, v)
<1>1. /\ Len(n.done) = Len(t.done) + 1 /\ Len(t.done) \in Nat /\ n.done[Len(t.done) + 1] = l
      /\ \A i \in 1..Len(t.done) : n.done[i] = t.done[i]
  BY LineAdded
<1>2. ASSUME x = l.code PROVE Leaves(n, x, l.qty)
  BY <1>1, <1>2 DEF Leaves
<1>3. ASSUME x # l.code, Touches(n, x) PROVE Touches(t, x)
  <2>1. PICK i \in 1..Len(n.done) : n.done[i].code = x
    BY <1>3 DEF Touches
  <2>2. i \in 1..Len(t.done)
    BY <1>1, <1>3, <2>1
  <2> QED  BY <1>1, <2>1, <2>2 DEF Touches
<1>4. ASSUME x # l.code, NEW v, Leaves(t, x, v) PROVE Leaves(n, x, v)
  <2>1. PICK i \in 1..Len(t.done) : /\ t.done[i].code = x /\ t.done[i].qty = v
                                    /\ \A j \in (i + 1)..Len(t.done) : t.done[j].code # x
    BY <1>4 DEF Leaves
  <2>2. ASSUME NEW j \in (i + 1)..Len(n.done) PROVE n.done[j].code # x
    <3>1. CASE j \in (i + 1)..Len(t.done)
      BY <1>1, <2>1, <3>1
    <3>2. CASE j = Len(t.done) + 1
      BY <1>1, <1>4, <3>2
    <3> QED  BY <1>1, <3>1, <3>2
  <2> QED  BY <1>1, <2>1, <2>2 DEF Leaves
<1> QED  BY <1>2, <1>3, <1>4

LEMMA TakesMirrorInv ==
    ASSUME AddInv, MirrorInv, NEW c \in Shoppers, Takes(c)
    PROVE  MirrorInv'
<1> SUFFICES ASSUME mirrored PROVE MirrorInv'
  BY DEF Takes, MirrorInv
<1> DEFINE t == tool[c]
           l == Head(t.todo)
           rest == [t EXCEPT !.todo = Tail(@), !.done = Append(@, l)]
           st == IF t.kind = "add" THEN "insert" ELSE "delete"
           next == IF t.kind = "many" THEN rest ELSE Mirrors(rest, st)
<1>1. t \in Call /\ PlacesOf(t) /\ t.st = "shop" /\ t.todo # <<>> /\ t.done \in Seq(Line)
  BY CallFacts DEF Takes, Call
<1>2. l \in Line /\ Tail(t.todo) \in Seq(Line) /\ Append(t.done, l) \in Seq(Line) /\ l = t.todo[1]
  BY <1>1, HeadGone, LineAdded DEF Call
<1>3. /\ rest.st = "shop" /\ rest.kind = t.kind /\ rest.list = t.list
      /\ rest.done = Append(t.done, l) /\ rest \in Call
  BY <1>1, <1>2 DEF Call
<1>4. t # NoTool
  BY <1>1, NoToolIsCall
<1>5. /\ tool' = [tool EXCEPT ![c] = next] /\ UNCHANGED <<lists, mirrored>>
      /\ cart' = [cart EXCEPT ![l.code] = l.qty] /\ last' = [last EXCEPT ![l.code] = t.list]
  BY DEF Takes
<1>6. \A x \in Codes : cart'[x] = (IF x = l.code THEN l.qty ELSE cart[x])
                       /\ last'[x] = (IF x = l.code THEN t.list ELSE last[x])
  BY <1>5, CallFacts
<1>7. DOMAIN lists \subseteq Lists
  BY CallFacts
<1>8. ASSUME NEW x \in Codes, SoleBooked(lists, t, last[x], cart[x], x)
      PROVE  SoleBooked(lists', next, last'[x], cart'[x], x)
  <2> HIDE DEF rest, t, l
  <2>1. CASE t.kind = "many"
    <3>1. Adds(t) /\ Adds(rest) /\ rest.st # "delete" /\ t.st # "delete"
      BY <1>1, <1>3, <2>1 DEF Adds
    <3>2. /\ x = l.code => Leaves(rest, x, l.qty)
          /\ x # l.code => /\ Touches(rest, x) => Touches(t, x)
                           /\ \A v : Leaves(t, x, v) => Leaves(rest, x, v)
      <4>1. /\ t.done \in Seq(Line) /\ l \in Line /\ Adds(t) /\ Adds(rest)
            /\ rest.st # "delete" /\ t.st # "delete" /\ rest.done = Append(t.done, l)
        BY <1>1, <1>2, <1>3, <3>1
      <4> QED  BY ONLY <4>1, LineTouches
    <3>3. CASE x = l.code
      BY <1>3, <1>6, <2>1, <3>2, <3>3 DEF SoleBooked
    <3>4. CASE x # l.code
      BY <1>3, <1>5, <1>6, <1>8, <2>1, <3>2, <3>4 DEF SoleBooked
    <3> QED  BY <3>3, <3>4
  <2>2. CASE t.kind # "many" /\ t.list = NoList
    <3>1. next = NoTool
      BY <1>3, <2>2 DEF Mirrors
    <3>2. CASE x = l.code
      BY <1>5, <1>6, <1>7, <2>2, <3>2 DEF SoleBooked
    <3>3. CASE x # l.code
      BY <1>5, <1>6, <1>7, <1>8, <2>2, <3>1, <3>3, NoToolTouches DEF SoleBooked
    <3> QED  BY <3>2, <3>3
  <2>3. CASE t.kind # "many" /\ t.list # NoList
    <3>1. t.kind \in {"add", "remove"} /\ t.done = <<>> /\ (t.kind = "remove" => l.qty = 0)
      BY <1>1, <1>2, <2>3 DEF PlacesOf, Call
    <3>2. next.st = st /\ next.kind = t.kind /\ next.list = t.list /\ next.done = Append(<<>>, l)
      <4>1. next = [rest EXCEPT !.st = st]
        BY <1>3, <2>3 DEF Mirrors
      <4> HIDE DEF st, next
      <4> QED  BY <1>3, <3>1, <4>1 DEF Call
    <3>3. Len(next.done) = 1 /\ next.done[1] = l
      BY <3>2
    <3>4. /\ x = l.code => Leaves(next, x, l.qty)
          /\ x # l.code => ~Touches(next, x)
      <4> HIDE DEF next
      <4>1. CASE t.kind = "add"
        BY <3>2, <3>3, <4>1 DEF Leaves, Touches, Adds
      <4>2. CASE t.kind = "remove"
        BY <3>1, <3>2, <3>3, <4>2 DEF Leaves, Touches, Adds
      <4> QED  BY <3>1, <4>1, <4>2
    <3>5. ~Touches(t, x) /\ \A v : ~Leaves(t, x, v)
      BY <1>1, <3>1, IdleTouches
    <3> HIDE DEF next
    <3>6. CASE x = l.code
      BY <1>6, <3>2, <3>4, <3>6 DEF SoleBooked
    <3>7. CASE x # l.code
      BY <1>5, <1>6, <1>8, <3>2, <3>4, <3>5, <3>7 DEF SoleBooked
    <3> QED  BY <3>6, <3>7
  <2> QED  BY <2>1, <2>2, <2>3
<1> HIDE DEF next
<1> QED  BY <1>4, <1>5, <1>7, <1>8, SoleStep

LEMMA ReloadsMirrorInv ==
    ASSUME AddInv, MirrorInv, NEW c \in Shoppers, Reloads(c)
    PROVE  MirrorInv'
<1> SUFFICES ASSUME mirrored PROVE MirrorInv'
  BY DEF Reloads, MirrorInv
<1> DEFINE t == tool[c]
           next == IF t.done = <<>> THEN NoTool ELSE Mirrors(t, "insert")
<1>1. t \in Call /\ t.st = "shop" /\ t.kind = "many" /\ t # NoTool
  BY CallFacts, NoToolIsCall DEF Reloads
<1>2. tool' = [tool EXCEPT ![c] = next] /\ UNCHANGED <<cart, lists, last, mirrored>>
  BY DEF Reloads
<1>3. DOMAIN lists \subseteq Lists
  BY CallFacts
<1>4. ASSUME NEW x \in Codes, SoleBooked(lists, t, last[x], cart[x], x)
      PROVE  SoleBooked(lists, next, last[x], cart[x], x)
  <2>1. CASE t.done = <<>>
    BY <1>1, <1>4, <2>1, IdleTouches, NoToolTouches DEF SoleBooked
  <2>2. CASE t.list = NoList
    <3>1. next = NoTool
      BY <2>2 DEF Mirrors
    <3> QED  BY <1>3, <1>4, <2>2, <3>1, NoToolTouches DEF SoleBooked
  <2>3. CASE t.done # <<>> /\ t.list # NoList
    <3>1. next.st = "insert" /\ next.kind = "many" /\ next.list = t.list /\ next.done = t.done
      BY <1>1, <2>3 DEF Mirrors, Call
    <3> HIDE DEF next, t
    <3>2. /\ Touches(next, x) => Touches(t, x)
          /\ \A v : Leaves(t, x, v) => Leaves(next, x, v)
      BY <1>1, <3>1 DEF Touches, Leaves, Adds
    <3> QED  BY <1>4, <3>1, <3>2 DEF SoleBooked
  <2> QED  BY <2>1, <2>2, <2>3
<1> HIDE DEF next
<1> QED  BY <1>1, <1>2, <1>3, <1>4, SoleStep

LEMMA ClearsMirrorInv ==
    ASSUME AddInv, MirrorInv, NEW c \in Shoppers, Clears(c)
    PROVE  MirrorInv'
<1> SUFFICES ASSUME mirrored PROVE MirrorInv'
  BY DEF Clears, MirrorInv
<1> DEFINE t == tool[c]
           next == Mirrors(t, "delete")
<1>1. t \in Call /\ t.st = "shop" /\ t.kind = "clear" /\ t # NoTool
  BY CallFacts, NoToolIsCall DEF Clears
<1>2. /\ tool' = [tool EXCEPT ![c] = next] /\ UNCHANGED <<lists, mirrored>>
      /\ cart' = [x \in Codes |-> 0] /\ last' = [x \in Codes |-> t.list]
  BY DEF Clears
<1>3. DOMAIN lists \subseteq Lists
  BY CallFacts
<1>4. ASSUME NEW x \in Codes
      PROVE  SoleBooked(lists', next, last'[x], cart'[x], x)
  <2>1. CASE t.list = NoList
    BY <1>2, <1>3, <2>1 DEF SoleBooked
  <2>2. CASE t.list # NoList
    <3>1. next.st = "delete" /\ next.kind = "clear" /\ next.list = t.list
      BY <1>1, <2>2 DEF Mirrors, Call
    <3> HIDE DEF next, t
    <3>2. Leaves(next, x, 0)
      BY <3>1 DEF Leaves
    <3> QED  BY <1>2, <3>1, <3>2 DEF SoleBooked
  <2> QED  BY <2>1, <2>2
<1> HIDE DEF next
<1> QED  BY <1>1, <1>2, <1>3, <1>4, SoleStep

\* The line that is inserted is the first that is done.
LEMMA LineInserted ==
    ASSUME NEW t, NEW n, NEW x, t.done \in Seq(Line), t.done # <<>>, Adds(t), t.st = "insert",
           \/ n = NoTool /\ Tail(t.done) = <<>>
           \/ n.st = "insert" /\ n.kind = t.kind /\ n.done = Tail(t.done)
    PROVE  /\ Touches(n, x) => Touches(t, x)
           /\ Head(t.done).code = x => Touches(t, x)
           /\ \A v : Leaves(t, x, v) => \/ Leaves(n, x, v)
                                        \/ /\ Head(t.done).code = x /\ Head(t.done).qty = v
                                           /\ ~Touches(n, x)
<1>1. /\ Head(t.done) = t.done[1] /\ Len(t.done) > 0 /\ Len(Tail(t.done)) = Len(t.done) - 1
      /\ \A i \in 1..Len(Tail(t.done)) : Tail(t.done)[i] = t.done[i + 1]
      /\ Len(t.done) \in Nat
  BY HeadGone
<1>2. Touches(n, x) => \E i \in 1..(Len(t.done) - 1) : t.done[i + 1].code = x
  <2>1. CASE n = NoTool
    BY <2>1, NoToolTouches
  <2>2. CASE n.st = "insert" /\ n.done = Tail(t.done)
    BY <1>1, <2>2 DEF Touches
  <2> QED  BY <2>1, <2>2
<1>3. Touches(n, x) => Touches(t, x)
  <2> SUFFICES ASSUME Touches(n, x) PROVE Touches(t, x)
    OBVIOUS
  <2>1. PICK i \in 1..(Len(t.done) - 1) : t.done[i + 1].code = x
    BY <1>2
  <2>2. i + 1 \in 1..Len(t.done)
    BY <1>1
  <2> QED  BY <2>1, <2>2 DEF Touches
<1>4. Head(t.done).code = x => Touches(t, x)
  BY <1>1 DEF Touches
<1>5. ASSUME NEW v, Leaves(t, x, v)
      PROVE  Leaves(n, x, v) \/ (/\ Head(t.done).code = x /\ Head(t.done).qty = v
                                 /\ ~Touches(n, x))
  <2>1. PICK i \in 1..Len(t.done) : /\ t.done[i].code = x /\ t.done[i].qty = v
                                    /\ \A j \in (i + 1)..Len(t.done) : t.done[j].code # x
    BY <1>5 DEF Leaves
  <2>2. CASE i = 1
    <3>1. \A k \in 1..(Len(t.done) - 1) : t.done[k + 1].code # x
      <4> TAKE k \in 1..(Len(t.done) - 1)
      <4>1. k + 1 \in (1 + 1)..Len(t.done)
        BY <1>1
      <4> QED  BY <2>1, <2>2, <4>1
    <3> QED  BY <1>1, <1>2, <2>1, <2>2, <3>1
  <2>3. CASE i # 1
    <3>1. i - 1 \in 1..Len(Tail(t.done)) /\ Tail(t.done)[i - 1] = t.done[i]
      BY <1>1, <2>3
    <3>2. n.done = Tail(t.done) /\ Adds(n)
      <4>1. Tail(t.done) # <<>>
        BY <1>1, <3>1
      <4> QED  BY <4>1 DEF Adds
    <3>3. ASSUME NEW j \in ((i - 1) + 1)..Len(Tail(t.done)) PROVE Tail(t.done)[j].code # x
      <4>1. j + 1 \in (i + 1)..Len(t.done) /\ j \in 1..Len(Tail(t.done))
        BY <1>1
      <4> QED  BY <1>1, <2>1, <4>1
    <3> QED  BY <2>1, <3>1, <3>2, <3>3 DEF Leaves
  <2> QED  BY <2>2, <2>3
<1> QED  BY <1>3, <1>4, <1>5

LEMMA InsertsMirrorInv ==
    ASSUME AddInv, RealInv, MirrorInv, NEW c \in Shoppers, Inserts(c)
    PROVE  MirrorInv'
<1> SUFFICES ASSUME mirrored PROVE MirrorInv'
  BY DEF Inserts, MirrorInv
<1> DEFINE t == tool[c]
           w == t.list
           l == Head(t.done)
           next == IF Tail(t.done) = <<>> THEN NoTool ELSE [t EXCEPT !.done = Tail(@)]
<1>1. /\ t \in Call /\ t.st = "insert" /\ t.done # <<>> /\ Adds(t) /\ t # NoTool
      /\ t.done \in Seq(Line)
  BY CallFacts, NoToolIsCall DEF Inserts, PlacesOf, Call
<1>2. tool' = [tool EXCEPT ![c] = next] /\ UNCHANGED <<cart, last, mirrored>>
  BY DEF Inserts
<1>3. \/ next = NoTool /\ Tail(t.done) = <<>>
      \/ /\ next.st = "insert" /\ next.kind = t.kind /\ next.done = Tail(t.done)
         /\ next.list = t.list
  BY <1>1 DEF Call
<1>4. DOMAIN lists' = DOMAIN lists /\ DOMAIN lists \subseteq Lists
  BY CallFacts DEF Inserts
<1>5. \/ w \notin DOMAIN lists /\ UNCHANGED lists
      \/ /\ w \in DOMAIN lists
         /\ \A v \in DOMAIN lists : lists'[v] = IF v = w THEN lists[v] \cup {Item(nextItem, l)}
                                                ELSE lists[v]
  BY CallFacts DEF Inserts
<1>6. l.qty # 0
  <2>1. l = t.done[1] /\ 1 \in 1..Len(t.done)
    BY <1>1, HeadGone
  <2> QED  BY <1>1, <2>1 DEF RealInv, RealLines
<1> HIDE DEF next, l, t
<1>7. ASSUME NEW x \in Codes, SoleBooked(lists, t, last[x], cart[x], x)
      PROVE  SoleBooked(lists', next, last[x], cart[x], x)
  <2>1. /\ Touches(next, x) => Touches(t, x)
        /\ l.code = x => Touches(t, x)
        /\ \A v : Leaves(t, x, v) => \/ Leaves(next, x, v)
                                     \/ l.code = x /\ l.qty = v /\ ~Touches(next, x)
    BY <1>1, <1>3, LineInserted DEF l
  <2> SUFFICES ASSUME last[x] \in DOMAIN lists
               PROVE  \/ /\ Listed(lists'[last[x]], x, cart[x])
                         /\ next.list = last[x] => ~Touches(next, x)
                      \/ next.list = last[x] /\ Leaves(next, x, cart[x])
    BY <1>4 DEF SoleBooked
  <2>2. CASE last[x] # w
    <3>1. lists'[last[x]] = lists[last[x]] /\ (next.list = last[x] => next = NoTool)
      BY <1>3, <1>5, <2>2
    <3> QED  BY <1>7, <2>2, <3>1, NoToolTouches DEF SoleBooked
  <2>3. CASE last[x] = w
    <3>1. /\ l.code = x => Listed(lists'[w], x, l.qty)
          /\ l.code # x => \A q : Listed(lists[w], x, q) => Listed(lists'[w], x, q)
      <4>1. lists'[w] = lists[w] \cup {Item(nextItem, l)}
        BY <1>5, <2>3
      <4>2. /\ l.code = x /\ l.qty # 0 => Listed(lists[w] \cup {Item(nextItem, l)}, x, l.qty)
            /\ l.code # x => \A q : Listed(lists[w], x, q)
                                    => Listed(lists[w] \cup {Item(nextItem, l)}, x, q)
        BY ONLY InsertedIsListed
      <4> QED  BY <1>6, <4>1, <4>2
    <3>2. CASE Listed(lists[w], x, cart[x]) /\ ~Touches(t, x)
      BY <2>1, <2>3, <3>1, <3>2
    <3>3. CASE Leaves(t, x, cart[x])
      <4>1. CASE Leaves(next, x, cart[x])
        <5>1. next # NoTool
          BY <4>1, NoToolTouches
        <5> QED  BY <1>3, <2>3, <4>1, <5>1
      <4>2. CASE l.code = x /\ l.qty = cart[x] /\ ~Touches(next, x)
        BY <2>3, <3>1, <4>2
      <4> QED  BY <2>1, <3>3, <4>1, <4>2
    <3> QED  BY <1>7, <2>3, <3>2, <3>3 DEF SoleBooked
  <2> QED  BY <2>2, <2>3
<1> QED  BY <1>1, <1>2, <1>4, <1>7, SoleStep DEF t

LEMMA DeletesMirrorInv ==
    ASSUME AddInv, MirrorInv, NEW c \in Shoppers, Deletes(c)
    PROVE  MirrorInv'
<1> SUFFICES ASSUME mirrored PROVE MirrorInv'
  BY DEF Deletes, MirrorInv
<1> DEFINE t == tool[c]
           w == t.list
           y == t.done[1].code
           Stays(row) == t.kind = "remove" /\ row.code # y
<1>1. t \in Call /\ t.st = "delete" /\ t # NoTool /\ t.kind \in {"remove", "clear"}
  BY CallFacts, NoToolIsCall DEF Deletes, PlacesOf
<1>2. /\ tool' = [tool EXCEPT ![c] = NoTool] /\ UNCHANGED <<cart, last, mirrored>>
      /\ lists' = [v \in DOMAIN lists |-> IF v = w THEN {row \in lists[v] : Stays(row)} ELSE lists[v]]
  BY DEF Deletes
<1>3. DOMAIN lists' = DOMAIN lists /\ DOMAIN lists \subseteq Lists
  BY <1>2, CallFacts
<1>4. ~Adds(t)
  BY <1>1 DEF Adds
<1>5. ASSUME NEW x \in Codes, SoleBooked(lists, t, last[x], cart[x], x)
      PROVE  SoleBooked(lists', NoTool, last[x], cart[x], x)
  <2> SUFFICES ASSUME last[x] \in DOMAIN lists
               PROVE  Listed(lists'[last[x]], x, cart[x])
    BY <1>3, NoToolTouches DEF SoleBooked
  <2>1. CASE last[x] # w
    <3>1. lists'[last[x]] = lists[last[x]]
      BY <1>2, <2>1
    <3> QED  BY <1>5, <2>1, <3>1 DEF SoleBooked
  <2>2. CASE last[x] = w
    <3>1. lists'[w] = {row \in lists[w] : Stays(row)}
      BY <1>2, <2>2
    <3>2. \/ Listed(lists[w], x, cart[x]) /\ ~Touches(t, x)
          \/ Leaves(t, x, cart[x])
      BY <1>5, <2>2 DEF SoleBooked
    <3>3. CASE t.kind = "clear"
      <4>1. lists'[w] = {}
        BY <3>1, <3>3
      <4>2. Touches(t, x)
        BY <1>1, <3>3 DEF Touches
      <4>3. cart[x] = 0
        BY <1>4, <3>2, <4>2 DEF Leaves
      <4> QED  BY <2>2, <4>1, <4>3, NothingListed
    <3>4. CASE t.kind = "remove"
      <4>1. lists'[w] = But(lists[w], y)
        BY <3>1, <3>4 DEF But
      <4>2. /\ x = y => Listed(But(lists[w], y), x, 0)
            /\ x # y => (Listed(lists[w], x, cart[x]) => Listed(But(lists[w], y), x, cart[x]))
        BY DeletedIsGone
      <4>3. CASE x = y
        <5>1. Touches(t, x)
          BY <1>1, <4>3 DEF Touches
        <5>2. cart[x] = 0
          BY <1>4, <3>2, <5>1 DEF Leaves
        <5> QED  BY <2>2, <4>1, <4>2, <4>3, <5>2
      <4>4. CASE x # y
        <5>1. ~Leaves(t, x, cart[x])
          BY <1>4, <3>4, <4>4 DEF Leaves
        <5> QED  BY <2>2, <3>2, <4>1, <4>2, <4>4, <5>1
      <4> QED  BY <4>3, <4>4
    <3> QED  BY <1>1, <3>3, <3>4
  <2> QED  BY <2>1, <2>2
<1> QED  BY <1>1, <1>2, <1>3, <1>5, SoleStep

LEMMA DeletePlanMirrorInv ==
    ASSUME AddInv, MirrorInv, NEW w \in Lists, DeletePlan(w)
    PROVE  MirrorInv'
<1>1. /\ DOMAIN lists' \subseteq DOMAIN lists /\ \A v \in DOMAIN lists' : lists'[v] = lists[v]
      /\ UNCHANGED <<cart, tool, last, mirrored>>
  BY DEF DeletePlan
<1> QED  BY <1>1 DEF MirrorInv, Booked

\* Whoever waits has no call when the process ends.
LEMMA ToolsEndMirrorInv ==
    ASSUME AddInv, MirrorInv, ToolsEnd
    PROVE  MirrorInv'
<1>1. /\ \A c \in Shoppers : tool'[c] = NoTool
      /\ mirrored => \A c \in Shoppers : tool[c] = NoTool
      /\ UNCHANGED <<cart, lists, last, mirrored>>
  BY DEF ToolsEnd
<1> QED  BY <1>1 DEF MirrorInv, Booked

\* The invariant of the mirror, for calls that do not overlap and do not fail.
LEMMA NextMirrorInv == AddInv /\ RealInv /\ MirrorInv /\ [CartNext]_cartVars => MirrorInv'
<1> SUFFICES ASSUME AddInv, RealInv, MirrorInv, [CartNext]_cartVars PROVE MirrorInv'
  OBVIOUS
<1>1. ASSUME NEW c \in Shoppers,
             AddOne(c) \/ AddMany(c) \/ RemoveOne(c) \/ ClearAll(c)
      PROVE  MirrorInv'
  BY <1>1, BeginsMirrorInv DEF AddOne, AddMany, RemoveOne, ClearAll
<1>2. ASSUME NEW c \in Shoppers, Takes(c) \/ Reloads(c) \/ Clears(c) \/ Inserts(c) \/ Deletes(c)
      PROVE  MirrorInv'
  BY <1>2, TakesMirrorInv, ReloadsMirrorInv, ClearsMirrorInv, InsertsMirrorInv, DeletesMirrorInv
<1>3. ASSUME NEW c \in Shoppers, ShopFails(c)
      PROVE  MirrorInv'
  BY <1>3 DEF ShopFails, MirrorInv
<1>4. CASE \E w \in Lists : DeletePlan(w)
  BY <1>4, DeletePlanMirrorInv
<1>5. CASE ToolsEnd
  BY <1>5, ToolsEndMirrorInv
<1>6. CASE UNCHANGED cartVars
  BY <1>6 DEF cartVars, MirrorInv, Booked
<1> QED  BY <1>1, <1>2, <1>3, <1>4, <1>5, <1>6 DEF CartNext

\* A product whose last change in the cart was made for a plan is in that plan's
\* list exactly if the cart has it, and with the cart's quantity, when no two
\* calls overlap and none fails (the cart tools of tools.go and their writes to
\* cart_items).
THEOREM CartsAreListed == CartSpec => []CartIsListed
<1>1. CartInit => MirrorInv /\ RealInv
  <2> SUFFICES ASSUME CartInit PROVE MirrorInv /\ RealInv
    OBVIOUS
  <2>1. \A x \in Codes : last[x] \notin DOMAIN lists
    BY DEF CartInit
  <2>2. \A c \in Shoppers : tool[c] = NoTool
    BY DEF CartInit
  <2> QED  BY <2>1, <2>2, NoToolReal DEF MirrorInv, Booked, RealInv
<1>2. MirrorInv => CartIsListed
  <2> SUFFICES ASSUME MirrorInv, mirrored, \A c \in Shoppers : tool[c] = NoTool,
                      NEW x \in Codes, last[x] \in DOMAIN lists
               PROVE  Listed(lists[last[x]], x, cart[x])
    BY DEF CartIsListed
  <2>1. Booked(lists, tool, last[x], cart[x], x)
    BY DEF MirrorInv
  <2> QED  BY <2>1, NoToolTouches DEF Booked
<1> QED  BY <1>1, <1>2, CartInductive, NextRealInv, NextMirrorInv, PTL DEF CartSpec

\* The lists beside the shop's session (tools.go, willys.go): together they keep
\* what each promises alone.
THEOREM ShopKeeps ==
    ShopSpec => /\ [](TypeOK /\ NoStaleAccount /\ CalmNoGuestCart)
                /\ [](RecordsWereAdded /\ CartIsListed)
<1>1. ShopInit => Init /\ CartInit
  BY DEF ShopInit, SessionRests, ListsRest
<1>2. [ShopNext]_<<focus, vars, cartVars>> => [Next]_vars /\ [CartNext]_cartVars
  BY DEF ShopNext
<1>3. ShopSpec => Spec /\ CartSpec
  BY <1>1, <1>2, PTL DEF ShopSpec, Spec, CartSpec
<1> QED  BY <1>3, SessionTypes, StaleAccountNeverServed, CalmCartsAreNoGuests, RecordsTrue,
            CartsAreListed, PTL
=============================================================================
