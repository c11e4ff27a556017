----------------------------- MODULE ChatProofs -----------------------------
(***************************************************************************)
(* Proofs about the chat, for any plans, turns, rounds, calls and bounds:  *)
(* the types, that what goes to the model is whole, that the tab and the   *)
(* server together are a server of ChatServer with a client, and what the  *)
(* user sees: a menu that is not behind the turns that ended, cards with   *)
(* the results of their own calls, and no text that is not stored.         *)
(***************************************************************************)
EXTENDS ChatTab, SequenceTheorems, TLAPS

USE ChatAssumption, FirstAssumption

(***************************************************************************)
(* The server's invariant.                                                 *)
(***************************************************************************)
\* A turn that is past ensureConversation has a conversation.
Placed(t) == t.pc \in {"load", "save", "model", "batch", "tool", "finish"} => t.conv \in Turns

\* The first d calls of a round have their results.
Partial(r, d) ==
    d =< Len(r.calls) /\ Len(r.results) = d /\ \A j \in 1..d : r.results[j] = r.calls[j]

\* Rounds before the last are whole, and the last is as far as the loop is.
Loop(t) ==
    LET n == Len(t.rounds)
    IN  /\ \A i \in 1..(n - 1) : t.rounds[i].results = t.rounds[i].calls
        /\ t.pc \in {"none", "begin", "insert", "load", "save"} => n = 0
        /\ t.pc = "model" /\ n > 0 => t.rounds[n].results = t.rounds[n].calls
        /\ t.pc \in {"batch", "tool"} => n > 0 /\ Partial(t.rounds[n], t.done)
        /\ t.pc = "tool" => t.done < Len(t.rounds[n].calls)

\* A message is stored when its turn is past saveMessage, and not in the
\* history of its own turn.
AfterSave == {"model", "batch", "tool", "finish", "over"}
RowsPlaced ==
    \A c \in Turns : \A i \in DOMAIN rows[c] :
        rows[c][i].role = "user" => turn[rows[c][i].turn].pc \in AfterSave
SeesOthers == \A k \in Turns : k \notin turn[k].seen

\* The inductive invariant of the server.
CInv == ServerTypeOK /\ (\A k \in Turns : Placed(turn[k]) /\ Loop(turn[k])) /\ RowsPlaced /\ SeesOthers

(***************************************************************************)
(* Lemmas about the records.                                               *)
(***************************************************************************)
\* A turn's fields and the places in the code keep their types.
LEMMA RequestType ==
    ASSUME NEW p \in {None} \cup Plans, NEW c \in {None} \cup Turns
    PROVE  Request(p, c) \in TurnType
BY DEF Request, TurnType, Places, None

LEMMA PcType ==
    ASSUME NEW t \in TurnType, NEW p \in Places
    PROVE  [t EXCEPT !.pc = p] \in TurnType
BY DEF TurnType

LEMMA ConvTurnType ==
    ASSUME NEW t \in TurnType, NEW c \in Turns
    PROVE  [t EXCEPT !.pc = "load", !.conv = c] \in TurnType
BY DEF TurnType, Places

LEMMA SeenType ==
    ASSUME NEW t \in TurnType, NEW s \in SUBSET Turns
    PROVE  [t EXCEPT !.pc = "save", !.seen = s] \in TurnType
BY DEF TurnType, Places

LEMMA SaidType ==
    ASSUME NEW t \in TurnType
    PROVE  [t EXCEPT !.said = @ + 1] \in TurnType
<1>1. t.said + 1 \in Nat
  BY DEF TurnType
<1> QED  BY <1>1 DEF TurnType

\* So does the turn when its handler returns.
LEMMA OverType ==
    ASSUME ServerTypeOK, NEW k \in Turns, NEW b \in BOOLEAN
    PROVE  Over(k, b) \in TurnType
<1>1. turn[k] \in TurnType /\ version \in [Plans -> Nat]
  BY DEF ServerTypeOK
<1>2. turn[k].plan \in {None} \cup Plans /\ turn[k].conv \in {None} \cup Turns
  BY <1>1 DEF TurnType
<1>3. (IF turn[k].plan = None THEN None ELSE version[turn[k].plan]) \in Nat
  BY <1>1, <1>2 DEF None
<1>4. Request(turn[k].plan, None) \in TurnType
  BY <1>2, RequestType
<1> QED  BY <1>2, <1>3, <1>4 DEF Over, TurnType, Places, Request

\* What is written to the connection is events, what is stored messages.
LEMMA SendsType ==
    ASSUME ServerTypeOK, NEW k \in Turns, NEW e \in EventType, Sends(k, e)
    PROVE  wire' \in [Turns -> Seq(EventType)]
BY DEF ServerTypeOK, Sends

LEMMA StoresType ==
    ASSUME ServerTypeOK, NEW c \in Turns, NEW r \in RowType, Stores(c, r)
    PROVE  rows' \in [Turns -> Seq(RowType)]
BY DEF ServerTypeOK, Stores

LEMMA UpsetType == ServerTypeOK /\ (Upset \/ upsets' = upsets) => upsets' \in Nat
BY DEF ServerTypeOK, Upset

\* A turn that is over has no rounds, no history, and its place.
LEMMA OverLoop ==
    ASSUME NEW k \in Turns, NEW b \in BOOLEAN
    PROVE  /\ Placed(Over(k, b)) /\ Loop(Over(k, b))
           /\ Over(k, b).seen = {} /\ Over(k, b).pc = "over"
           /\ Over(k, b).plan = turn[k].plan
BY DEF Over, Request, Placed, Loop

\* One turn changes: its place, its rounds and its history decide whether the
\* invariant holds on.
LEMMA OneTurn ==
    ASSUME CInv, NEW k \in Turns, NEW t \in TurnType, turn' = [turn EXCEPT ![k] = t],
           Placed(t), Loop(t), k \notin t.seen, ServerTypeOK',
           \A c \in Turns : rows'[c] = rows[c] \/ rows'[c] = <<>>,
           turn[k].pc \in AfterSave => t.pc \in AfterSave
    PROVE  CInv'
<1> USE DEF CInv
<1>1. turn \in [Turns -> TurnType] /\ rows \in [Turns -> Seq(RowType)]
  BY DEF ServerTypeOK
<1>2. \A j \in Turns : Placed(turn'[j]) /\ Loop(turn'[j]) /\ j \notin turn'[j].seen
  BY <1>1 DEF SeesOthers
<1>3. \A j \in Turns : turn[j].pc \in AfterSave => turn'[j].pc \in AfterSave
  BY <1>1
<1>4. RowsPlaced'
  <2> SUFFICES ASSUME NEW c \in Turns, NEW i \in DOMAIN rows'[c], rows'[c][i].role = "user"
               PROVE  turn'[rows'[c][i].turn].pc \in AfterSave
    BY DEF RowsPlaced
  <2>1. rows'[c] = rows[c]
    OBVIOUS
  <2>2. rows[c] \in Seq(RowType) /\ i \in DOMAIN rows[c]
    BY <1>1, <2>1
  <2>3. rows[c][i] \in RowType
    BY <2>2
  <2>4. rows[c][i].turn \in Turns
    BY <2>3 DEF RowType
  <2> QED  BY <2>1, <2>2, <2>4, <1>3 DEF RowsPlaced
<1> QED  BY <1>2, <1>4 DEF SeesOthers

(***************************************************************************)
(* The server's steps.                                                     *)
(***************************************************************************)
\* Each step of a handler keeps the invariant.
LEMMA UseConversationCInv ==
    ASSUME CInv, NEW k \in Turns, UseConversation(k)
    PROVE  CInv'
<1> USE DEF CInv
<1>1. PICK c \in Found(k) : UseConversation(k)!2!(c)
  BY DEF UseConversation
<1>2. turn[k] \in TurnType /\ clock \in Nat
  BY DEF ServerTypeOK
<1>3. c \in Turns
  BY <1>2 DEF Found, Latest, TurnType, None
<1> DEFINE t == [turn[k] EXCEPT !.pc = "load", !.conv = c]
<1>4. t \in TurnType
  BY <1>2, <1>3, ConvTurnType
<1>5. turn' = [turn EXCEPT ![k] = t]
  BY <1>1, <1>2 DEF ServerTypeOK
<1>6. clock + 1 \in Nat /\ convs[c] \in ConvType
  BY <1>2, <1>3 DEF ServerTypeOK
<1>7. [convs[c] EXCEPT !.updated = clock + 1] \in ConvType
  BY <1>6 DEF ConvType
<1>8. ServerTypeOK'
  <2>1. turn' \in [Turns -> TurnType]
    BY <1>4, <1>5 DEF ServerTypeOK
  <2>2. convs' = [convs EXCEPT ![c].updated = clock + 1] /\ clock' = clock + 1
    BY <1>1
  <2>3. convs' \in [Turns -> ConvType]
    BY <1>3, <1>7, <2>2 DEF ServerTypeOK
  <2>4. UNCHANGED <<version, rows, wire, hungup, work, upsets>>
    BY DEF UseConversation
  <2> QED  BY <1>6, <2>1, <2>2, <2>3, <2>4 DEF ServerTypeOK
<1>9. Placed(t) /\ Loop(t) /\ k \notin t.seen /\ turn[k].pc = "begin"
  BY <1>2, <1>3 DEF Placed, Loop, SeesOthers, UseConversation, TurnType
<1> QED
  BY <1>4, <1>5, <1>8, <1>9, OneTurn DEF UseConversation, AfterSave

LEMMA NoConversationCInv ==
    ASSUME CInv, NEW k \in Turns, NoConversation(k)
    PROVE  CInv'
<1> USE DEF CInv
<1>1. turn[k] \in TurnType
  BY DEF ServerTypeOK
<1> DEFINE t == [turn[k] EXCEPT !.pc = "insert"]
<1>2. t \in TurnType
  BY <1>1, PcType DEF Places
<1>3. turn' = [turn EXCEPT ![k] = t]
  BY DEF NoConversation
<1>4. ServerTypeOK'
  BY <1>2, <1>3, UpsetType DEF ServerTypeOK, NoConversation
<1>5. Placed(t) /\ Loop(t) /\ k \notin t.seen
  BY <1>1 DEF Placed, Loop, SeesOthers, NoConversation, TurnType
<1> QED
  BY <1>2, <1>3, <1>4, <1>5, OneTurn DEF NoConversation, AfterSave

LEMMA InsertConversationCInv ==
    ASSUME CInv, NEW k \in Turns, InsertConversation(k)
    PROVE  CInv'
<1> USE DEF CInv
<1>1. turn[k] \in TurnType /\ clock \in Nat
  BY DEF ServerTypeOK
<1> DEFINE t == [turn[k] EXCEPT !.pc = "load", !.conv = k]
           c == [live |-> TRUE, plan |-> turn[k].plan, updated |-> clock + 1]
<1>2. t \in TurnType
  BY <1>1, ConvTurnType
<1>3. turn' = [turn EXCEPT ![k] = t] /\ convs' = [convs EXCEPT ![k] = c]
  BY DEF InsertConversation
<1>4. clock + 1 \in Nat /\ c \in ConvType
  BY <1>1 DEF ConvType, TurnType
<1>5. ServerTypeOK'
  BY <1>2, <1>3, <1>4 DEF ServerTypeOK, InsertConversation
<1>6. Placed(t) /\ Loop(t) /\ k \notin t.seen
  BY <1>1 DEF Placed, Loop, SeesOthers, InsertConversation, TurnType
<1> QED
  BY <1>2, <1>3, <1>5, <1>6, OneTurn DEF InsertConversation, AfterSave

LEMMA RefuseCInv ==
    ASSUME CInv, NEW k \in Turns, Refuse(k)
    PROVE  CInv'
<1> USE DEF CInv
<1>1. Over(k, TRUE) \in TurnType
  BY OverType
<1>2. Event("refused", None) \in EventType
  BY DEF Event, EventType, None
<1>3. wire' \in [Turns -> Seq(EventType)]
  BY <1>2, SendsType DEF Refuse
<1>4. upsets' \in Nat
  BY UpsetType DEF Refuse
<1>5. turn' = [turn EXCEPT ![k] = Over(k, TRUE)]
  BY DEF Refuse, Ends
<1>6. ServerTypeOK'
  BY <1>1, <1>3, <1>4, <1>5 DEF ServerTypeOK, Refuse
<1> QED
  BY <1>1, <1>5, <1>6, OverLoop, OneTurn DEF Refuse, AfterSave

LEMMA LoadHistoryCInv ==
    ASSUME CInv, NEW k \in Turns, LoadHistory(k)
    PROVE  CInv'
<1> USE DEF CInv
<1>1. turn[k] \in TurnType /\ turn[k].pc = "load" /\ turn[k].conv \in Turns
  BY DEF ServerTypeOK, LoadHistory, Placed
<1> DEFINE s == UserTurns(rows[turn[k].conv])
           t == [turn[k] EXCEPT !.pc = "save", !.seen = s]
<1>2. s \in SUBSET Turns /\ k \notin s
  <2>1. rows[turn[k].conv] \in Seq(RowType)
    BY <1>1 DEF ServerTypeOK
  <2>2. \A i \in DOMAIN rows[turn[k].conv] : rows[turn[k].conv][i] \in RowType
    BY <2>1
  <2>3. \A i \in DOMAIN rows[turn[k].conv] : rows[turn[k].conv][i].turn \in Turns
    BY <2>2 DEF RowType
  <2>4. \A i \in DOMAIN rows[turn[k].conv] :
           rows[turn[k].conv][i].role = "user" => rows[turn[k].conv][i].turn # k
    BY <1>1 DEF RowsPlaced, AfterSave
  <2> QED  BY <2>3, <2>4 DEF UserTurns
<1>3. t \in TurnType
  BY <1>1, <1>2, SeenType
<1>4. turn' = [turn EXCEPT ![k] = t]
  BY DEF LoadHistory
<1>5. Event("meta", turn[k].conv) \in EventType
  BY <1>1 DEF Event, EventType, Turns
<1>6. wire' \in [Turns -> Seq(EventType)]
  BY <1>5, SendsType DEF LoadHistory
<1>7. ServerTypeOK'
  BY <1>3, <1>4, <1>6 DEF ServerTypeOK, LoadHistory
<1>8. Placed(t) /\ Loop(t) /\ k \notin t.seen
  BY <1>1, <1>2 DEF Placed, Loop, TurnType
<1> QED
  BY <1>1, <1>3, <1>4, <1>7, <1>8, OneTurn DEF LoadHistory, AfterSave

\* A message of the turn is stored besides.
LEMMA OneTurnStores ==
    ASSUME CInv, NEW k \in Turns, NEW t \in TurnType, turn' = [turn EXCEPT ![k] = t],
           Placed(t), Loop(t), k \notin t.seen, ServerTypeOK', t.pc \in AfterSave,
           NEW c \in Turns, NEW r, Stores(c, Row(r, k, turn[k].said)) \/ Stores(c, Row(r, k, 1))
    PROVE  CInv'
<1> USE DEF CInv
<1>1. turn \in [Turns -> TurnType] /\ rows \in [Turns -> Seq(RowType)]
  BY DEF ServerTypeOK
<1>2. \A j \in Turns : Placed(turn'[j]) /\ Loop(turn'[j]) /\ j \notin turn'[j].seen
  BY <1>1 DEF SeesOthers
<1>3. \A j \in Turns : turn[j].pc \in AfterSave => turn'[j].pc \in AfterSave
  BY <1>1
<1>4. turn'[k].pc \in AfterSave
  BY <1>1
<1>5. RowsPlaced'
  <2> SUFFICES ASSUME NEW d \in Turns, NEW i \in DOMAIN rows'[d], rows'[d][i].role = "user"
               PROVE  turn'[rows'[d][i].turn].pc \in AfterSave
    BY DEF RowsPlaced
  <2>1. PICK x : x.turn = k /\ rows' = [rows EXCEPT ![c] = Append(@, x)]
    BY DEF Stores, Row
  <2>2. CASE i \in DOMAIN rows[d] /\ rows'[d][i] = rows[d][i]
    <3>1. rows[d][i] \in RowType
      BY <1>1, <2>2
    <3>2. rows[d][i].turn \in Turns
      BY <3>1 DEF RowType
    <3> QED  BY <2>2, <3>2, <1>3 DEF RowsPlaced
  <2>3. CASE rows'[d][i].turn = k
    BY <2>3, <1>4
  <2>4. rows[d] \in Seq(RowType)
    BY <1>1
  <2>5. rows'[d] = IF d = c THEN Append(rows[d], x) ELSE rows[d]
    BY <1>1, <2>1
  <2>6. (i \in DOMAIN rows[d] /\ rows'[d][i] = rows[d][i]) \/ rows'[d][i] = x
    BY <2>4, <2>5
  <2> QED  BY <2>1, <2>2, <2>3, <2>6
<1> QED  BY <1>2, <1>5 DEF SeesOthers

LEMMA SaveUserCInv ==
    ASSUME CInv, NEW k \in Turns, SaveUser(k)
    PROVE  CInv'
<1> USE DEF CInv
<1>1. turn[k] \in TurnType /\ turn[k].pc = "save" /\ turn[k].conv \in Turns
  BY DEF ServerTypeOK, SaveUser, Placed
<1> DEFINE t == [turn[k] EXCEPT !.pc = "model"]
<1>2. t \in TurnType
  BY <1>1, PcType DEF Places
<1>3. turn' = [turn EXCEPT ![k] = t]
  BY DEF SaveUser
<1>4. Placed(t) /\ Loop(t) /\ k \notin t.seen /\ t.pc \in AfterSave
  BY <1>1 DEF Placed, Loop, SeesOthers, TurnType, AfterSave
<1>5. Row("user", k, 1) \in RowType
  BY DEF Row, RowType
<1>6. upsets' \in Nat
  BY UpsetType DEF SaveUser, Fails
<1>7. CASE Stores(turn[k].conv, Row("user", k, 1))
  <2>1. rows' \in [Turns -> Seq(RowType)]
    BY <1>1, <1>5, <1>7, StoresType
  <2>2. ServerTypeOK'
    BY <1>2, <1>3, <1>6, <2>1 DEF ServerTypeOK, SaveUser
  <2> QED  BY <1>1, <1>2, <1>3, <1>4, <1>7, <2>2, OneTurnStores
<1>8. CASE rows' = rows
  <2>1. ServerTypeOK'
    BY <1>2, <1>3, <1>6, <1>8 DEF ServerTypeOK, SaveUser
  <2> QED  BY <1>2, <1>3, <1>4, <1>8, <2>1, OneTurn
<1> QED  BY <1>7, <1>8 DEF SaveUser

LEMMA FinishCInv ==
    ASSUME CInv, NEW k \in Turns, Finish(k)
    PROVE  CInv'
<1> USE DEF CInv
<1>1. turn[k] \in TurnType /\ turn[k].pc = "finish" /\ turn[k].conv \in Turns
  BY DEF ServerTypeOK, Finish, Placed
<1>2. PICK b \in BOOLEAN : turn' = [turn EXCEPT ![k] = Over(k, b)]
  BY DEF Finish, Ends
<1>3. Over(k, b) \in TurnType
  BY OverType
<1>4. Placed(Over(k, b)) /\ Loop(Over(k, b)) /\ k \notin Over(k, b).seen /\ Over(k, b).pc \in AfterSave
  BY OverLoop DEF AfterSave
<1>5. Row("assistant", k, turn[k].said) \in RowType
  BY <1>1 DEF Row, RowType, TurnType
<1>6. upsets' \in Nat
  BY UpsetType DEF Finish, Fails
<1>7. Event("end", None) \in EventType
  BY DEF Event, EventType, None
<1>8. wire' \in [Turns -> Seq(EventType)]
  BY <1>7, SendsType DEF Finish
<1>9. CASE Stores(turn[k].conv, Row("assistant", k, turn[k].said))
  <2>1. rows' \in [Turns -> Seq(RowType)]
    BY <1>1, <1>5, <1>9, StoresType
  <2>2. ServerTypeOK'
    BY <1>2, <1>3, <1>6, <1>8, <2>1 DEF ServerTypeOK, Finish
  <2> QED  BY <1>1, <1>2, <1>3, <1>4, <1>9, <2>2, OneTurnStores
<1>10. CASE rows' = rows
  <2>1. ServerTypeOK'
    BY <1>2, <1>3, <1>6, <1>8, <1>10 DEF ServerTypeOK, Finish
  <2> QED  BY <1>2, <1>3, <1>4, <1>10, <2>1, OneTurn
<1> QED  BY <1>9, <1>10 DEF Finish

LEMMA SayCInv ==
    ASSUME CInv, NEW k \in Turns, Say(k)
    PROVE  CInv'
<1> USE DEF CInv
<1>1. turn[k] \in TurnType
  BY DEF ServerTypeOK
<1> DEFINE t == [turn[k] EXCEPT !.said = @ + 1]
<1>2. t \in TurnType
  BY <1>1, SaidType
<1>3. turn' = [turn EXCEPT ![k] = t]
  BY DEF Say
<1>4. Event("text", turn[k].said + 1) \in EventType
  BY <1>1 DEF Event, EventType, TurnType
<1>5. wire' \in [Turns -> Seq(EventType)]
  BY <1>4, SendsType DEF Say
<1>6. work' \in Nat
  BY DEF Say, ServerTypeOK
<1>7. ServerTypeOK'
  BY <1>2, <1>3, <1>5, <1>6 DEF ServerTypeOK, Say
<1>8. t.pc = turn[k].pc /\ t.conv = turn[k].conv /\ t.rounds = turn[k].rounds /\ t.done = turn[k].done
         /\ t.seen = turn[k].seen
  BY <1>1 DEF TurnType
<1>9. Placed(t) /\ Loop(t) /\ k \notin t.seen
  BY <1>8 DEF Placed, Loop, SeesOthers
<1> QED
  BY <1>2, <1>3, <1>7, <1>8, <1>9, OneTurn DEF Say

LEMMA ModelFailsCInv ==
    ASSUME CInv, NEW k \in Turns, ModelFails(k)
    PROVE  CInv'
<1> USE DEF CInv
<1>1. turn[k] \in TurnType /\ turn[k].pc = "model"
  BY DEF ServerTypeOK, ModelFails
<1> DEFINE t == [turn[k] EXCEPT !.pc = "finish"]
<1>2. t \in TurnType
  BY <1>1, PcType DEF Places
<1>3. turn' = [turn EXCEPT ![k] = t]
  BY DEF ModelFails
<1>4. Event("error", None) \in EventType
  BY DEF Event, EventType, None
<1>5. wire' \in [Turns -> Seq(EventType)]
  BY <1>4, SendsType DEF ModelFails
<1>6. ServerTypeOK'
  BY <1>2, <1>3, <1>5 DEF ServerTypeOK, ModelFails
<1>7. Placed(t) /\ Loop(t) /\ k \notin t.seen /\ t.pc \in AfterSave
  BY <1>1 DEF Placed, Loop, SeesOthers, TurnType, AfterSave
<1> QED
  BY <1>2, <1>3, <1>6, <1>7, OneTurn DEF ModelFails

\* The last round, while its calls are made.
LEMMA LastRoundType ==
    ASSUME CInv, NEW k \in Turns, turn[k].pc \in {"batch", "tool"}
    PROVE  /\ turn[k] \in TurnType /\ LastRound(k) \in RoundType
           /\ Len(turn[k].rounds) \in Nat \ {0} /\ turn[k].done \in Nat
           /\ turn[k].rounds \in Seq(RoundType)
           /\ Partial(LastRound(k), turn[k].done)
<1> USE DEF CInv
<1>1. turn[k] \in TurnType
  BY DEF ServerTypeOK
<1>2. turn[k].rounds \in Seq(RoundType) /\ turn[k].done \in Nat
  BY <1>1 DEF TurnType
<1>3. Len(turn[k].rounds) > 0 /\ Partial(LastRound(k), turn[k].done)
  BY DEF Loop, LastRound
<1>4. LastRound(k) \in RoundType
  BY <1>2, <1>3 DEF LastRound
<1> QED  BY <1>1, <1>2, <1>3, <1>4

\* The call that is next, or under way, is a number.
LEMMA CallType ==
    ASSUME CInv, NEW k \in Turns, turn[k].pc \in {"batch", "tool"},
           turn[k].done < Len(LastRound(k).calls)
    PROVE  LastRound(k).calls[turn[k].done + 1] \in Nat
<1>1. LastRound(k) \in RoundType /\ turn[k].done \in Nat
  BY LastRoundType
<1>2. LastRound(k).calls \in Seq(Nat)
  BY <1>1 DEF RoundType
<1> QED  BY <1>1, <1>2

LEMMA CallToolCInv ==
    ASSUME CInv, NEW k \in Turns, CallTool(k)
    PROVE  CInv'
<1> USE DEF CInv
<1>1. turn[k] \in TurnType /\ turn[k].pc = "batch" /\ turn[k].done < Len(LastRound(k).calls)
  BY DEF ServerTypeOK, CallTool
<1> DEFINE t == [turn[k] EXCEPT !.pc = "tool"]
           n == LastRound(k).calls[turn[k].done + 1]
<1>2. t \in TurnType
  BY <1>1, PcType DEF Places
<1>3. turn' = [turn EXCEPT ![k] = t]
  BY DEF CallTool
<1>4. n \in Nat
  BY <1>1, CallType
<1>5. Event("call", n) \in EventType
  BY <1>4 DEF Event, EventType
<1>6. wire' \in [Turns -> Seq(EventType)]
  BY <1>5, SendsType DEF CallTool
<1>7. ServerTypeOK'
  BY <1>2, <1>3, <1>6 DEF ServerTypeOK, CallTool
<1>8. Placed(t) /\ Loop(t) /\ k \notin t.seen /\ t.pc \in AfterSave
  BY <1>1 DEF Placed, Loop, SeesOthers, TurnType, AfterSave, LastRound
<1> QED
  BY <1>2, <1>3, <1>7, <1>8, OneTurn DEF CallTool

\* A round is over when its last result is in: it is whole.
LEMMA RoundWhole ==
    ASSUME CInv, NEW k \in Turns, RoundOver(k)
    PROVE  /\ turn[k] \in TurnType /\ turn[k].pc = "batch"
           /\ turn[k].rounds[Len(turn[k].rounds)].results = turn[k].rounds[Len(turn[k].rounds)].calls
<1> DEFINE r == LastRound(k)
<1>1. turn[k] \in TurnType /\ r \in RoundType /\ Partial(r, turn[k].done) /\ turn[k].done = Len(r.calls)
  BY LastRoundType DEF RoundOver
<1>2. r.calls \in Seq(Nat) /\ r.results \in Seq(Nat)
  BY <1>1 DEF RoundType
<1>3. Len(r.results) = Len(r.calls) /\ \A j \in 1..Len(r.calls) : r.results[j] = r.calls[j]
  BY <1>1 DEF Partial
<1>4. r.results = r.calls
  BY <1>2, <1>3, SeqEqual
<1> QED  BY <1>1, <1>4 DEF RoundOver, LastRound

LEMMA NextRoundCInv ==
    ASSUME CInv, NEW k \in Turns, NextRound(k)
    PROVE  CInv'
<1> USE DEF CInv
<1>1. turn[k] \in TurnType /\ turn[k].pc = "batch"
         /\ turn[k].rounds[Len(turn[k].rounds)].results = turn[k].rounds[Len(turn[k].rounds)].calls
  BY RoundWhole DEF NextRound
<1> DEFINE t == [turn[k] EXCEPT !.pc = "model"]
<1>2. t \in TurnType
  BY <1>1, PcType DEF Places
<1>3. turn' = [turn EXCEPT ![k] = t]
  BY DEF NextRound
<1>4. ServerTypeOK'
  BY <1>2, <1>3 DEF ServerTypeOK, NextRound
<1>5. Placed(t) /\ Loop(t) /\ k \notin t.seen /\ t.pc \in AfterSave
  BY <1>1 DEF Placed, Loop, SeesOthers, TurnType, AfterSave
<1> QED
  BY <1>2, <1>3, <1>4, <1>5, OneTurn DEF NextRound

LEMMA DoneCInv ==
    ASSUME CInv, NEW k \in Turns, Done(k)
    PROVE  CInv'
<1> USE DEF CInv
<1>1. turn[k] \in TurnType /\ turn[k].pc = "batch"
  BY DEF ServerTypeOK, Done, RoundOver
<1> DEFINE t == [turn[k] EXCEPT !.pc = "finish"]
<1>2. t \in TurnType
  BY <1>1, PcType DEF Places
<1>3. turn' = [turn EXCEPT ![k] = t]
  BY DEF Done
<1>4. ServerTypeOK'
  BY <1>2, <1>3 DEF ServerTypeOK, Done
<1>5. Placed(t) /\ Loop(t) /\ k \notin t.seen /\ t.pc \in AfterSave
  BY <1>1 DEF Placed, Loop, SeesOthers, TurnType, AfterSave
<1> QED
  BY <1>2, <1>3, <1>4, <1>5, OneTurn DEF Done

LEMMA GiveUpCInv ==
    ASSUME CInv, NEW k \in Turns, GiveUp(k)
    PROVE  CInv'
<1> USE DEF CInv
<1>1. turn[k] \in TurnType /\ turn[k].pc = "batch"
  BY DEF ServerTypeOK, GiveUp, RoundOver
<1> DEFINE t == [turn[k] EXCEPT !.pc = "finish"]
<1>2. t \in TurnType
  BY <1>1, PcType DEF Places
<1>3. turn' = [turn EXCEPT ![k] = t]
  BY DEF GiveUp
<1>4. Event("error", None) \in EventType
  BY DEF Event, EventType, None
<1>5. wire' \in [Turns -> Seq(EventType)]
  BY <1>4, SendsType DEF GiveUp
<1>6. ServerTypeOK'
  BY <1>2, <1>3, <1>5 DEF ServerTypeOK, GiveUp
<1>7. Placed(t) /\ Loop(t) /\ k \notin t.seen /\ t.pc \in AfterSave
  BY <1>1 DEF Placed, Loop, SeesOthers, TurnType, AfterSave
<1> QED
  BY <1>2, <1>3, <1>6, <1>7, OneTurn DEF GiveUp

\* A round that begins: its calls are numbers, and none has returned.
LEMMA RoundType0 ==
    ASSUME NEW c \in Nat, NEW n \in Nat, NEW m \in BOOLEAN
    PROVE  /\ Round([i \in 1..c |-> n + i], m) \in RoundType
           /\ Partial(Round([i \in 1..c |-> n + i], m), 0)
<1> DEFINE s == [i \in 1..c |-> n + i]
<1>1. s \in Seq(Nat) /\ Len(s) = c
  OBVIOUS
<1>2. <<>> \in Seq(Nat) /\ Len(<<>>) = 0
  OBVIOUS
<1> HIDE DEF s
<1>3. Round(s, m) \in RoundType
  BY <1>1, <1>2 DEF Round, RoundType
<1>4. Partial(Round(s, m), 0)
  BY <1>1, <1>2 DEF Round, Partial
<1> QED  BY <1>3, <1>4 DEF s

LEMMA RoundsType ==
    ASSUME NEW t \in TurnType, NEW p \in Places, NEW d \in Nat, NEW r \in Seq(RoundType)
    PROVE  [t EXCEPT !.pc = p, !.done = d, !.rounds = r] \in TurnType
BY DEF TurnType

LEMMA LenInNat ==
    ASSUME NEW q \in Seq(Nat)
    PROVE  Len(q) \in Nat
OBVIOUS

LEMMA ModelStopsCInv ==
    ASSUME CInv, NEW k \in Turns, NEW c \in 0..MaxCalls, NEW more \in BOOLEAN, ModelStops(k, c, more)
    PROVE  CInv'
<1> USE DEF CInv
<1>1. turn[k] \in TurnType /\ turn[k].pc = "model" /\ turn[k].conv \in Turns
  BY DEF ServerTypeOK, ModelStops, Placed
<1> DEFINE rs == turn[k].rounds
           m == MaxCalls * Len(rs)
           r == Round([i \in 1..c |-> m + i], more)
           t == [turn[k] EXCEPT !.pc = "batch", !.done = 0, !.rounds = Append(rs, r)]
<1>2. rs \in Seq(RoundType) /\ Len(rs) \in Nat
  BY <1>1 DEF TurnType
<1>3. m \in Nat /\ c \in Nat
  BY <1>2
<1> HIDE DEF m
<1>4. r \in RoundType /\ Partial(r, 0)
  BY <1>3, RoundType0
<1> HIDE DEF r
<1>5. /\ Append(rs, r) \in Seq(RoundType) /\ Len(Append(rs, r)) = Len(rs) + 1
      /\ \A i \in 1..Len(rs) : Append(rs, r)[i] = rs[i]
      /\ Append(rs, r)[Len(rs) + 1] = r
  BY <1>2, <1>4
<1>6. t \in TurnType
  <2>1. 0 \in Nat /\ "batch" \in Places
    BY DEF Places
  <2> QED  BY <1>1, <1>5, <2>1, RoundsType
<1>7. turn' = [turn EXCEPT ![k] = t]
  BY DEF ModelStops, r, m, ServerTypeOK
<1>8. work' \in Nat
  BY DEF ModelStops, ServerTypeOK
<1>9. ServerTypeOK'
  <2>1. turn' \in [Turns -> TurnType]
    BY <1>6, <1>7 DEF ServerTypeOK
  <2>2. UNCHANGED <<version, convs, clock, rows, wire, hungup, upsets>>
    BY DEF ModelStops
  <2> QED  BY <1>8, <2>1, <2>2 DEF ServerTypeOK
<1>10. \A i \in 1..Len(rs) : rs[i].results = rs[i].calls
  BY <1>1, <1>2 DEF Loop
<1>11. /\ t.pc = "batch" /\ t.done = 0 /\ t.rounds = Append(rs, r) /\ t.conv \in Turns
       /\ t.seen = turn[k].seen
  BY <1>1 DEF TurnType
<1>12. Placed(t) /\ k \notin t.seen /\ t.pc \in AfterSave
  BY <1>11 DEF Placed, SeesOthers, AfterSave
<1>13. Loop(t)
  BY <1>2, <1>4, <1>5, <1>10, <1>11 DEF Loop
<1> QED
  BY <1>6, <1>7, <1>9, <1>12, <1>13, OneTurn DEF ModelStops

LEMMA ToolReturnsCInv ==
    ASSUME CInv, NEW k \in Turns, NEW o \in Outcomes, ToolReturns(k, o)
    PROVE  CInv'
<1> USE DEF CInv
<1> DEFINE rs == turn[k].rounds
           n == Len(rs)
           d == turn[k].done
           x == LastRound(k).calls[d + 1]
           r == [rs[n] EXCEPT !.results = Append(@, x)]
           t == [turn[k] EXCEPT !.pc = "batch", !.done = d + 1, !.rounds = [rs EXCEPT ![n] = r]]
<1>1. /\ turn[k] \in TurnType /\ turn[k].pc = "tool" /\ turn[k].conv \in Turns
      /\ d < Len(LastRound(k).calls)
  BY DEF ServerTypeOK, ToolReturns, Placed, Loop, LastRound
<1>2. /\ n \in Nat \ {0} /\ d \in Nat /\ rs \in Seq(RoundType) /\ rs[n] \in RoundType
      /\ Partial(rs[n], d) /\ d < Len(rs[n].calls) /\ x = rs[n].calls[d + 1]
  BY <1>1, LastRoundType DEF LastRound
<1>3. x \in Nat
  BY <1>1, CallType
<1> HIDE DEF x
<1>4. rs[n].calls \in Seq(Nat) /\ rs[n].results \in Seq(Nat) /\ Len(rs[n].results) = d
  BY <1>2 DEF RoundType, Partial
<1>5. /\ Append(rs[n].results, x) \in Seq(Nat) /\ Len(Append(rs[n].results, x)) = d + 1
      /\ \A j \in 1..d : Append(rs[n].results, x)[j] = rs[n].results[j]
      /\ Append(rs[n].results, x)[d + 1] = x
  BY <1>3, <1>4
<1>6. r \in RoundType /\ r.calls = rs[n].calls /\ r.results = Append(rs[n].results, x)
  BY <1>2, <1>5 DEF RoundType
<1> HIDE DEF r
<1>7. Partial(r, d + 1)
  <2> DEFINE q == Append(rs[n].results, x)
  <2> HIDE DEF q
  <2>1. r.calls = rs[n].calls /\ r.results = q /\ Len(q) = d + 1 /\ q[d + 1] = x
           /\ \A j \in 1..d : q[j] = rs[n].results[j]
    BY <1>5, <1>6 DEF q
  <2>2. d \in Nat /\ d < Len(rs[n].calls) /\ x = rs[n].calls[d + 1]
           /\ \A j \in 1..d : rs[n].results[j] = rs[n].calls[j]
    BY <1>2 DEF Partial
  <2>3. Len(rs[n].calls) \in Nat
    BY <1>4, LenInNat
  <2>4. \A j \in 1..(d + 1) : q[j] = rs[n].calls[j]
    BY <2>1, <2>2
  <2> QED  BY <2>1, <2>2, <2>3, <2>4 DEF Partial
<1>8. /\ [rs EXCEPT ![n] = r] \in Seq(RoundType) /\ Len([rs EXCEPT ![n] = r]) = n
      /\ \A i \in 1..(n - 1) : [rs EXCEPT ![n] = r][i] = rs[i]
      /\ [rs EXCEPT ![n] = r][n] = r
  BY <1>2, <1>6
<1>9. t \in TurnType
  <2> DEFINE q == [rs EXCEPT ![n] = r]
  <2>1. q \in Seq(RoundType) /\ d + 1 \in Nat /\ "batch" \in Places
    BY <1>2, <1>8 DEF Places
  <2> HIDE DEF q
  <2>2. [turn[k] EXCEPT !.pc = "batch", !.done = d + 1, !.rounds = q] \in TurnType
    BY <1>1, <2>1, RoundsType
  <2> QED  BY <2>2 DEF q
<1>10. turn' = [turn EXCEPT ![k] = t]
  BY <1>1, <1>2 DEF ToolReturns, r, x, ServerTypeOK, TurnType, RoundType
<1>11. version' \in [Plans -> Nat]
  <2>1. version \in [Plans -> Nat]
    BY DEF ServerTypeOK
  <2>2. \A p \in Plans : version[p] + 1 \in Nat
    BY <2>1
  <2> QED  BY <2>1, <2>2 DEF ToolReturns, Writes
<1>12. Event(IF o = "news" THEN "news" ELSE "result", x) \in EventType
  BY <1>3 DEF Event, EventType
<1>13. wire' \in [Turns -> Seq(EventType)]
  BY <1>12, SendsType DEF ToolReturns, x
<1>14. ServerTypeOK'
  <2>1. turn' \in [Turns -> TurnType]
    BY <1>9, <1>10 DEF ServerTypeOK
  <2>2. UNCHANGED <<convs, clock, rows, hungup, work, upsets>>
    BY DEF ToolReturns
  <2> QED  BY <1>11, <1>13, <2>1, <2>2 DEF ServerTypeOK
<1>15. /\ t.pc = "batch" /\ t.done = d + 1 /\ t.rounds = [rs EXCEPT ![n] = r] /\ t.conv \in Turns
       /\ t.seen = turn[k].seen
  BY <1>1 DEF TurnType
<1>16. Placed(t) /\ k \notin t.seen /\ t.pc \in AfterSave
  BY <1>15 DEF Placed, SeesOthers, AfterSave
<1>17. \A i \in 1..(n - 1) : rs[i].results = rs[i].calls
  BY DEF Loop
<1>18. Loop(t)
  BY <1>2, <1>7, <1>8, <1>15, <1>17 DEF Loop
<1> QED
  BY <1>9, <1>10, <1>14, <1>16, <1>18, OneTurn DEF ToolReturns

(***************************************************************************)
(* The other steps of the server.                                          *)
(***************************************************************************)
LEMMA PostCInv ==
    ASSUME CInv, NEW k \in Turns, NEW p \in {None} \cup Plans, NEW c \in {None} \cup Turns,
           Post(k, p, c)
    PROVE  CInv'
<1> USE DEF CInv
<1>1. Request(p, c) \in TurnType
  BY RequestType
<1>2. turn' = [turn EXCEPT ![k] = Request(p, c)]
  BY DEF Post
<1>3. ServerTypeOK'
  BY <1>1, <1>2 DEF ServerTypeOK, Post
<1>4. Placed(Request(p, c)) /\ Loop(Request(p, c)) /\ k \notin Request(p, c).seen
  BY DEF Placed, Loop, Request
<1> QED
  BY <1>1, <1>2, <1>3, <1>4, OneTurn DEF Post, AfterSave

\* No turn changes, and at most messages go.
LEMMA NoTurn ==
    ASSUME CInv, turn' = turn, ServerTypeOK',
           \A c \in Turns : rows'[c] = rows[c] \/ rows'[c] = <<>>
    PROVE  CInv'
<1> USE DEF CInv
<1>1. RowsPlaced'
  <2> SUFFICES ASSUME NEW c \in Turns, NEW i \in DOMAIN rows'[c], rows'[c][i].role = "user"
               PROVE  turn'[rows'[c][i].turn].pc \in AfterSave
    BY DEF RowsPlaced
  <2>1. rows'[c] = rows[c]
    OBVIOUS
  <2> QED  BY <2>1 DEF RowsPlaced
<1> QED  BY <1>1 DEF SeesOthers

LEMMA ReadsCInv ==
    ASSUME CInv, NEW k \in Turns, Reads(k)
    PROVE  CInv'
<1> USE DEF CInv
<1>1. wire[k] \in Seq(EventType) /\ wire[k] # <<>>
  BY DEF ServerTypeOK, Reads
<1>2. Tail(wire[k]) \in Seq(EventType)
  BY <1>1, HeadTailProperties
<1>3. ServerTypeOK'
  BY <1>2 DEF ServerTypeOK, Reads
<1> QED  BY <1>3, NoTurn DEF Reads

LEMMA HangUpCInv ==
    ASSUME CInv, NEW k \in Turns, HangUp(k)
    PROVE  CInv'
<1> USE DEF CInv
<1>1. ServerTypeOK'
  BY UpsetType DEF ServerTypeOK, HangUp
<1> QED  BY <1>1, NoTurn DEF HangUp

LEMMA DeleteConversationsCInv ==
    ASSUME CInv, NEW p \in Plans, DeleteConversations(p)
    PROVE  CInv'
<1> USE DEF CInv
<1>1. NoConv \in ConvType /\ <<>> \in Seq(RowType)
  BY DEF NoConv, ConvType, None
<1>2. ServerTypeOK'
  BY <1>1 DEF ServerTypeOK, DeleteConversations
<1>3. \A c \in Turns : rows'[c] = rows[c] \/ rows'[c] = <<>>
  BY DEF DeleteConversations
<1> QED  BY <1>2, <1>3, NoTurn DEF DeleteConversations

LEMMA DeletePlanCInv ==
    ASSUME CInv, NEW p \in Plans, DeletePlan(p)
    PROVE  CInv'
<1> USE DEF CInv
<1>1. \A c \in Turns : [convs[c] EXCEPT !.plan = None] \in ConvType
  BY DEF ServerTypeOK, ConvType
<1>2. convs' \in [Turns -> ConvType]
  BY <1>1 DEF ServerTypeOK, DeletePlan
<1>3. version' \in [Plans -> Nat]
  BY DEF ServerTypeOK, DeletePlan, None
<1>4. ServerTypeOK'
  BY <1>2, <1>3, UpsetType DEF ServerTypeOK, DeletePlan
<1> QED  BY <1>4, NoTurn DEF DeletePlan

LEMMA PatchPlanCInv ==
    ASSUME CInv, NEW p \in Plans, PatchPlan(p)
    PROVE  CInv'
<1> USE DEF CInv
<1>1. version' \in [Plans -> Nat]
  BY DEF ServerTypeOK, PatchPlan
<1>2. ServerTypeOK'
  BY <1>1 DEF ServerTypeOK, PatchPlan
<1> QED  BY <1>2, NoTurn DEF PatchPlan

LEMMA UnseenCInv ==
    ASSUME CInv, Unseen
    PROVE  CInv'
<1> USE DEF CInv
<1>1. ServerTypeOK'
  BY UpsetType DEF ServerTypeOK, Unseen
<1> QED  BY <1>1, NoTurn DEF Unseen

LEMMA CrashCInv ==
    ASSUME CInv, Crash
    PROVE  CInv'
<1> USE DEF CInv
<1> DEFINE lost == {k \in Turns : Active(k)}
<1>1. \A k \in Turns : Over(k, FALSE) \in TurnType
  BY OverType
<1>2. turn' = [k \in Turns |-> IF k \in lost THEN Over(k, FALSE) ELSE turn[k]]
  BY DEF Crash
<1>3. turn' \in [Turns -> TurnType]
  BY <1>1, <1>2 DEF ServerTypeOK
<1>4. Event("broken", None) \in EventType
  BY DEF Event, EventType, None
<1>5. \A k \in Turns : Append(wire[k], Event("broken", None)) \in Seq(EventType)
  BY <1>4 DEF ServerTypeOK
<1>6. wire' \in [Turns -> Seq(EventType)]
  BY <1>5 DEF ServerTypeOK, Crash
<1>7. ServerTypeOK'
  BY <1>3, <1>6, UpsetType DEF ServerTypeOK, Crash
<1>8. \A k \in Turns : Placed(turn'[k]) /\ Loop(turn'[k]) /\ k \notin turn'[k].seen
  BY <1>2, OverLoop DEF SeesOthers
<1>9. \A k \in Turns : turn[k].pc \in AfterSave => turn'[k].pc \in AfterSave
  BY <1>2, OverLoop DEF AfterSave
<1>10. RowsPlaced'
  <2> SUFFICES ASSUME NEW c \in Turns, NEW i \in DOMAIN rows[c], rows[c][i].role = "user"
               PROVE  turn'[rows[c][i].turn].pc \in AfterSave
    BY DEF RowsPlaced, Crash
  <2>1. rows[c] \in Seq(RowType)
    BY DEF ServerTypeOK
  <2>2. rows[c][i] \in RowType
    BY <2>1
  <2>3. rows[c][i].turn \in Turns
    BY <2>2 DEF RowType
  <2> QED  BY <2>3, <1>9 DEF RowsPlaced
<1> QED  BY <1>7, <1>8, <1>10 DEF SeesOthers

\* It holds at first.
LEMMA InitCInv == ServerInit => CInv
<1> SUFFICES ASSUME ServerInit PROVE CInv
  OBVIOUS
<1>1. None \in {None} \cup Plans /\ None \in {None} \cup Turns
  OBVIOUS
<1>2. Request(None, None) \in TurnType
  BY <1>1, RequestType
<1>3. Unused \in TurnType
  BY <1>2, PcType DEF Unused, Places
<1>4. NoConv \in ConvType
  BY DEF NoConv, ConvType, None
<1>5. ServerTypeOK
  BY <1>3, <1>4 DEF ServerTypeOK, ServerInit
<1>6. Placed(Unused) /\ Loop(Unused) /\ Unused.seen = {}
  BY DEF Placed, Loop, Unused, Request
<1>7. RowsPlaced /\ SeesOthers /\ \A k \in Turns : Placed(turn[k]) /\ Loop(turn[k])
  BY <1>6 DEF RowsPlaced, SeesOthers, ServerInit
<1> QED  BY <1>5, <1>7 DEF CInv

\* Every step of the server keeps it.
LEMMA StepCInv ==
    ASSUME CInv, NEW k \in Turns, ServerStep(k)
    PROVE  CInv'
BY UseConversationCInv, NoConversationCInv, InsertConversationCInv, RefuseCInv, LoadHistoryCInv,
   SaveUserCInv, SayCInv, ModelFailsCInv, CallToolCInv, ModelStopsCInv, ToolReturnsCInv,
   NextRoundCInv, DoneCInv, GiveUpCInv, FinishCInv
DEF ServerStep

LEMMA NextCInv ==
    ASSUME CInv, [ServerNext]_serverVars
    PROVE  CInv'
<1>1. CASE ServerNext
  BY <1>1, StepCInv, ReadsCInv, HangUpCInv, PostCInv, DeleteConversationsCInv, DeletePlanCInv,
     PatchPlanCInv, UnseenCInv, CrashCInv
  DEF ServerNext
<1>2. CASE UNCHANGED serverVars
  BY <1>2 DEF serverVars, CInv, ServerTypeOK, RowsPlaced, SeesOthers
<1> QED  BY <1>1, <1>2

(***************************************************************************)
(* The types of the tab.                                                   *)
(***************************************************************************)
LEMMA LineType ==
    ASSUME NEW k \in Turns, NEW e \in {"user", "assistant", "tool", "error", "cancelled"}
    PROVE  Line(e, k) \in EntryType
<1>1. <<>> \in Seq(Turns \X Nat)
  OBVIOUS
<1> QED  BY <1>1 DEF Line, EntryType, None

LEMMA WordsType ==
    ASSUME NEW k \in Turns, NEW s \in Seq(Turns \X Nat)
    PROVE  /\ Words(k, s) \in EntryType
           /\ Words(k, s).kind = "assistant" /\ Words(k, s).text = s
<1>1. Line("assistant", k) \in EntryType /\ Line("assistant", k).kind = "assistant"
  BY LineType DEF Line
<1> QED  BY <1>1 DEF Words, EntryType

LEMMA CardType ==
    ASSUME NEW k \in Turns, NEW n \in Nat
    PROVE  Card(k, n) \in EntryType
<1>1. Line("tool", k) \in EntryType
  BY LineType
<1> QED  BY <1>1 DEF Card, EntryType

LEMMA ShownType ==
    ASSUME NEW r \in RowType
    PROVE  Shown(r) \in EntryType
<1>1. r.turn \in Turns /\ r.n \in Nat
  BY DEF RowType
<1> DEFINE s == [i \in 1..r.n |-> <<r.turn, i>>]
<1>2. s \in Seq(Turns \X Nat)
  BY <1>1
<1> HIDE DEF s
<1> QED  BY <1>1, <1>2, LineType, WordsType DEF Shown, s

\* A request of the loader: the home page makes none.
LoadType == {NoLoad} \cup [st : {"asked", "answered"}, plan : Plans, ver : Nat]
FillType == {NoFill} \cup [st : {"asked", "answered"}, plan : Plans, conv : {None} \cup Turns,
                           log : Seq(RowType)]
LEMMA ReloadType ==
    ASSUME NEW r \in {None} \cup Plans
    PROVE  Reload(r) \in LoadType
BY DEF Reload, Ask, LoadType, None

\* What the tab reads of a turn.
LEMMA HeardType ==
    ASSUME CInv, TabTypeOK, busy, wire[cur] # <<>>
    PROVE  cur \in Turns /\ Heard \in EventType /\ Heard.n \in Nat
               /\ (Heard.kind = "meta" => Heard.n \in Turns)
<1>1. cur \in Turns
  BY DEF TabTypeOK
<1>2. wire[cur] \in Seq(EventType)
  BY <1>1 DEF CInv, ServerTypeOK
<1>3. Head(wire[cur]) \in EventType
  BY <1>2, HeadTailProperties
<1> QED  BY <1>1, <1>3 DEF Heard, EventType, Turns

\* The steps that concern the plan.
LEMMA LoaderType ==
    ASSUME CInv, TabTypeOK,
           \/ \E r \in {None} \cup Plans : Go(r)
           \/ Refresh \/ ServeLoad \/ GotLoad \/ NotLoaded
    PROVE  TabTypeOK'
<1>1. load \in LoadType /\ route \in {None} \cup Plans /\ week \in {None} \cup Plans
  BY DEF TabTypeOK, LoadType
<1>2. load'\in LoadType /\ week' \in {None} \cup Plans /\ ver' \in Nat /\ status' \in {"ready", "error"}
         /\ route' \in {None} \cup Plans
  <2>1. CASE \E r \in {None} \cup Plans : Go(r)
    BY <2>1, ReloadType DEF Go, TabTypeOK
  <2>2. CASE Refresh
    BY <2>2, <1>1, ReloadType DEF Refresh, TabTypeOK
  <2>3. CASE ServeLoad
    <3>1. load.plan \in Plans
      BY <1>1, <2>3 DEF ServeLoad, LoadType, NoLoad
    <3>2. version[load.plan] \in Nat
      BY <3>1 DEF CInv, ServerTypeOK
    <3> QED  BY <1>1, <2>3, <3>1, <3>2 DEF ServeLoad, TabTypeOK, LoadType, NoLoad
  <2>4. CASE GotLoad
    BY <1>1, <2>4, ReloadType DEF GotLoad, TabTypeOK, LoadType, NoLoad, Ask, None
  <2>5. CASE NotLoaded
    BY <1>1, <2>5 DEF NotLoaded, TabTypeOK, LoadType
  <2> QED  BY <2>1, <2>2, <2>3, <2>4, <2>5
<1>3. fill' \in FillType
  <2>1. CASE GotLoad
    <3>1. load.plan \in Plans
      BY <1>1, <2>1 DEF GotLoad, LoadType, NoLoad
    <3>2. <<>> \in Seq(RowType)
      OBVIOUS
    <3>3. AskChat(load.plan) \in FillType
      BY <3>1, <3>2 DEF AskChat, FillType
    <3> QED  BY <2>1, <3>3 DEF GotLoad, TabTypeOK, FillType
  <2> QED  BY <2>1 DEF Go, Refresh, ServeLoad, NotLoaded, TabTypeOK, FillType
<1>4. UNCHANGED <<conv, entries, busy, cur, fresh, at, tools, cut, clearing, patch>> /\ late' \in BOOLEAN
  BY DEF Go, Refresh, ServeLoad, GotLoad, NotLoaded, TabTypeOK
<1> QED  BY <1>2, <1>3, <1>4 DEF TabTypeOK, LoadType, FillType

\* The steps of a PATCH.
LEMMA PatchType ==
    ASSUME CInv, TabTypeOK, Patch \/ ServePatch \/ GotPatch \/ PatchFails
    PROVE  TabTypeOK'
<1>1. /\ load \in LoadType /\ fill \in FillType /\ status \in {"ready", "error"}
      /\ route \in {None} \cup Plans /\ week \in {None} \cup Plans /\ ver \in Nat /\ late \in BOOLEAN
      /\ patch \in {NoPatch} \cup [st : {"asked", "answered"}, plan : Plans, ver : Nat, ended : Nat]
  BY DEF TabTypeOK, LoadType, FillType
<1>2. Ended \in Nat
  BY DEF Ended, TabTypeOK, Turns
<1>3. UNCHANGED <<route, conv, entries, busy, cur, fresh, at, tools, cut, clearing>>
  BY DEF Patch, ServePatch, GotPatch, PatchFails
<1>4. ASSUME /\ load' \in LoadType /\ fill' \in FillType /\ status' \in {"ready", "error"}
             /\ week' \in {None} \cup Plans /\ ver' \in Nat /\ late' \in BOOLEAN
             /\ patch' \in {NoPatch} \cup [st : {"asked", "answered"}, plan : Plans, ver : Nat, ended : Nat]
      PROVE  TabTypeOK'
  BY <1>3, <1>4 DEF TabTypeOK, LoadType, FillType
<1>5. CASE Patch
  <2>1. patch' \in [st : {"asked", "answered"}, plan : Plans, ver : Nat, ended : Nat]
    BY <1>1, <1>5 DEF Patch, NoPatch, None
  <2> QED  BY <1>1, <1>4, <1>5, <2>1 DEF Patch
<1>6. CASE ServePatch
  <2>1. patch.plan \in Plans
    BY <1>1, <1>6 DEF ServePatch, NoPatch
  <2>2. version[patch.plan] \in Nat
    BY <2>1 DEF CInv, ServerTypeOK
  <2>3. version'[patch.plan] \in Nat
    BY <1>6, <2>1, <2>2 DEF ServePatch, PatchPlan, CInv, ServerTypeOK
  <2>4. patch' \in [st : {"asked", "answered"}, plan : Plans, ver : Nat, ended : Nat]
    BY <1>1, <1>2, <1>6, <2>1, <2>3 DEF ServePatch, NoPatch
  <2> QED  BY <1>1, <1>4, <1>6, <2>4 DEF ServePatch
<1>7. CASE GotPatch
  <2>1. patch \in [st : {"asked", "answered"}, plan : Plans, ver : Nat, ended : Nat]
    BY <1>1, <1>7 DEF GotPatch, NoPatch
  <2>2. week' \in Plans /\ ver' \in Nat /\ late' \in BOOLEAN /\ patch' = NoPatch
    BY <1>7, <2>1 DEF GotPatch
  <2>3. <<>> \in Seq(RowType)
    OBVIOUS
  <2>4. AskChat(patch.plan) \in FillType /\ Reload(route) \in LoadType
    BY <1>1, <2>1, <2>3, ReloadType DEF AskChat, FillType
  <2>5. load' \in LoadType /\ fill' \in FillType /\ status' \in {"ready", "error"}
    BY <1>1, <1>7, <2>4 DEF GotPatch
  <2> QED  BY <1>4, <2>2, <2>5
<1>8. CASE PatchFails
  BY <1>1, <1>4, <1>8 DEF PatchFails
<1> QED  BY <1>5, <1>6, <1>7, <1>8

\* The steps that concern the chat of the plan.
LEMMA FillerType ==
    ASSUME CInv, TabTypeOK, ServeFill \/ GotFill
    PROVE  TabTypeOK'
<1>1. fill \in FillType /\ fill # NoFill
  <2>1. fill \in FillType
    BY DEF TabTypeOK, FillType
  <2>2. fill.st # "none"
    BY DEF ServeFill, GotFill
  <2> QED  BY <2>1, <2>2 DEF NoFill
<1>2. fill.plan \in Plans /\ fill.conv \in {None} \cup Turns /\ fill.log \in Seq(RowType)
  BY <1>1 DEF FillType
<1>3. CASE ServeFill
  <2>1. \A c \in Latest(fill.plan) : c \in Turns /\ rows[c] \in Seq(RowType)
    BY DEF Latest, CInv, ServerTypeOK
  <2>2. fill' \in FillType
    BY <1>1, <1>2, <1>3, <2>1 DEF ServeFill, FillType
  <2>3. UNCHANGED <<route, week, ver, status, load, conv, entries, busy, cur, fresh, at, tools, cut,
                    clearing, patch, late>>
    BY <1>3 DEF ServeFill
  <2> QED  BY <2>2, <2>3 DEF TabTypeOK, FillType
<1>4. CASE GotFill
  <2>1. \A i \in DOMAIN fill.log : Shown(fill.log[i]) \in EntryType
    BY <1>2, ShownType
  <2>2. [i \in DOMAIN fill.log |-> Shown(fill.log[i])] \in Seq(EntryType)
    BY <1>2, <2>1
  <2> DEFINE shown == [i \in DOMAIN fill.log |-> Shown(fill.log[i])]
  <2>3. entries' = shown \/ entries' = <<>>
    BY <1>4 DEF GotFill
  <2> HIDE DEF shown
  <2>4. <<>> \in Seq(EntryType)
    OBVIOUS
  <2>5. entries' \in Seq(EntryType)
    BY <2>2, <2>3, <2>4 DEF shown
  <2>6. conv' \in {None} \cup Turns /\ fill' \in FillType
    BY <1>2, <1>4 DEF GotFill, FillType
  <2> QED  BY <1>4, <2>5, <2>6 DEF GotFill, TabTypeOK, FillType
<1> QED  BY <1>3, <1>4

\* The steps of a turn.
LEMMA SendType ==
    ASSUME CInv, TabTypeOK, Send
    PROVE  TabTypeOK'
<1>1. cur + 1 \in Turns /\ cur + 1 # 0
  BY DEF Send, TabTypeOK, Turns
<1>2. Line("user", cur + 1) \in EntryType
  BY <1>1, LineType
<1>3. entries' \in Seq(EntryType)
  BY <1>2 DEF Send, TabTypeOK
<1>4. cur' \in Turns /\ cur' # 0 /\ busy' = TRUE /\ fresh' \in BOOLEAN /\ at' = 0 /\ tools' = <<>>
  BY <1>1 DEF Send
<1>5. DOMAIN <<>> \subseteq Nat /\ \A n \in DOMAIN <<>> : <<>>[n] \in Nat
  OBVIOUS
<1> QED  BY <1>3, <1>4, <1>5 DEF Send, TabTypeOK

LEMMA HearType ==
    ASSUME CInv, TabTypeOK, Hear
    PROVE  TabTypeOK'
<1>1. busy /\ wire[cur] # <<>>
  BY DEF Hear, HearMeta, HearText, HearCall, HearResult, HearError, HearEnd, HearFailure, Hears
<1>2. cur \in Turns /\ Heard.n \in Nat /\ (Heard.kind = "meta" => Heard.n \in Turns)
  BY <1>1, HeardType
<1>3. entries \in Seq(EntryType) /\ route \in {None} \cup Plans
  BY DEF TabTypeOK
<1>4. Reload(route) \in LoadType
  BY <1>3, ReloadType
<1>5. CASE HearMeta
  <2>1. conv' \in {None} \cup Turns
    BY <1>2, <1>5 DEF HearMeta, Hears, Heard, TabTypeOK
  <2> QED  BY <1>5, <2>1 DEF HearMeta, TabTypeOK
<1>6. CASE HearText
  <2>1. CASE IsA("assistant", at)
    <3>1. at \in DOMAIN entries /\ entries[at] \in EntryType
      BY <1>3, <2>1 DEF IsA
    <3>2. Append(entries[at].text, <<cur, Heard.n>>) \in Seq(Turns \X Nat)
      BY <1>2, <3>1 DEF EntryType
    <3> DEFINE x == Append(entries[at].text, <<cur, Heard.n>>)
    <3> HIDE DEF x
    <3>3. [entries[at] EXCEPT !.text = x] \in EntryType
      BY <3>1, <3>2 DEF EntryType, x
    <3>4. entries' = [entries EXCEPT ![at] = [entries[at] EXCEPT !.text = x]] /\ at' = at
      BY <1>6, <2>1 DEF HearText, x
    <3>5. entries' \in Seq(EntryType)
      BY <1>3, <3>1, <3>3, <3>4
    <3> QED  BY <1>6, <3>4, <3>5 DEF HearText, TabTypeOK
  <2>2. CASE ~IsA("assistant", at)
    <3> DEFINE w == Words(cur, <<<<cur, Heard.n>>>>)
    <3>1. w \in EntryType
      BY <1>2, WordsType
    <3>2. entries' = Append(entries, w) /\ at' = Len(entries) + 1
      BY <1>6, <2>2 DEF HearText
    <3> HIDE DEF w
    <3>3. entries' \in Seq(EntryType) /\ at' \in Nat
      BY <1>3, <3>1, <3>2
    <3> QED  BY <1>6, <3>3 DEF HearText, TabTypeOK
  <2> QED  BY <2>1, <2>2
<1>7. CASE HearCall
  <2>1. Card(cur, Heard.n) \in EntryType
    BY <1>2, CardType
  <2>2. entries' \in Seq(EntryType)
    BY <1>3, <1>7, <2>1 DEF HearCall
  <2>3. DOMAIN tools' \subseteq Nat /\ \A n \in DOMAIN tools' : tools'[n] \in Nat
    <3>1. Len(entries) + 1 \in Nat
      BY <1>3
    <3>2. tools' = [m \in DOMAIN tools \cup {Heard.n} |-> IF m = Heard.n THEN Len(entries) + 1 ELSE tools[m]]
      BY <1>7 DEF HearCall, Indexed
    <3>3. DOMAIN tools \subseteq Nat /\ \A n \in DOMAIN tools : tools[n] \in Nat
      BY DEF TabTypeOK
    <3> QED  BY <1>2, <3>1, <3>2, <3>3
  <2> QED  BY <1>7, <2>2, <2>3 DEF HearCall, TabTypeOK
<1>8. CASE HearResult
  <2>1. entries' \in Seq(EntryType)
    <3>1. CASE Heard.n \in DOMAIN tools /\ IsA("tool", tools[Heard.n])
      <4> DEFINE i == tools[Heard.n]
      <4>1. i \in DOMAIN entries /\ entries[i] \in EntryType
        BY <1>3, <3>1 DEF IsA
      <4>2. [entries[i] EXCEPT !.result = Heard.n] \in EntryType
        BY <1>2, <4>1 DEF EntryType
      <4>3. entries' = [entries EXCEPT ![i] = [entries[i] EXCEPT !.result = Heard.n]]
        BY <1>8, <3>1 DEF HearResult
      <4> QED  BY <1>3, <4>1, <4>2, <4>3
    <3>2. CASE ~(Heard.n \in DOMAIN tools /\ IsA("tool", tools[Heard.n]))
      BY <1>3, <1>8, <3>2 DEF HearResult
    <3> QED  BY <3>1, <3>2
  <2>2. load' \in LoadType
    BY <1>4, <1>8 DEF HearResult, TabTypeOK, LoadType
  <2> QED  BY <1>8, <2>1, <2>2 DEF HearResult, TabTypeOK, LoadType
<1>9. CASE HearError \/ HearFailure
  <2>1. Line("error", cur) \in EntryType
    BY <1>2, LineType
  <2>2. entries' \in Seq(EntryType)
    BY <1>3, <1>9, <2>1 DEF HearError, HearFailure
  <2>3. load' \in LoadType
    BY <1>4, <1>9 DEF HearError, HearFailure, TurnEnds, TabTypeOK, LoadType
  <2>4. cut' = cut \/ cut' = cut \cup {cur}
    BY <1>9 DEF HearError, HearFailure
  <2>5. cut' \subseteq Turns
    BY <1>2, <2>4 DEF TabTypeOK
  <2>6. busy' \in BOOLEAN
    BY <1>9 DEF HearError, HearFailure, TurnEnds, TabTypeOK
  <2>7. cur # 0
    BY <1>2 DEF Turns
  <2>8. UNCHANGED <<route, week, ver, status, conv, fill, cur, fresh, at, tools, clearing, patch, late>>
    BY <1>9 DEF HearError, HearFailure
  <2> QED  BY <2>2, <2>3, <2>5, <2>6, <2>7, <2>8 DEF TabTypeOK, LoadType
<1>10. CASE HearEnd
  <2>1. busy' = FALSE /\ load' \in LoadType
    BY <1>4, <1>10 DEF HearEnd, TurnEnds
  <2>2. UNCHANGED <<route, week, ver, status, conv, fill, entries, cur, fresh, at, tools, cut,
                    clearing, patch, late>>
    BY <1>10 DEF HearEnd
  <2>3. busy' \in BOOLEAN /\ (busy' => cur' # 0)
    BY <2>1
  <2> QED  BY <2>1, <2>2, <2>3 DEF TabTypeOK, LoadType
<1> QED  BY <1>5, <1>6, <1>7, <1>8, <1>9, <1>10 DEF Hear

\* The steps of the user besides.
LEMMA UserType ==
    ASSUME CInv, TabTypeOK,
           Cancel \/ Clear \/ ServeClear \/ Cleared \/ DeleteShown
    PROVE  TabTypeOK'
<1>1. entries \in Seq(EntryType) /\ <<>> \in Seq(EntryType)
  BY DEF TabTypeOK
<1>2. CASE Cancel
  <2>1. cur \in Turns
    BY <1>2 DEF Cancel, TabTypeOK
  <2>2. Line("cancelled", cur) \in EntryType
    BY <2>1, LineType
  <2>3. entries' \in Seq(EntryType)
    BY <1>1, <1>2, <2>2 DEF Cancel
  <2>4. load' \in LoadType
    BY <1>2, ReloadType DEF Cancel, TurnEnds, TabTypeOK
  <2>5. busy' \in BOOLEAN /\ (busy' => cur' # 0) /\ cut' \subseteq Turns
    BY <1>2, <2>1 DEF Cancel, TurnEnds, TabTypeOK
  <2>6. UNCHANGED <<route, week, ver, status, conv, fill, cur, fresh, at, tools, clearing, patch, late>>
    BY <1>2 DEF Cancel
  <2> QED  BY <2>3, <2>4, <2>5, <2>6 DEF TabTypeOK, LoadType
<1>3. CASE Clear
  <2>1. clearing' \in [st : {"asked", "answered"}, plan : Plans]
    BY <1>3 DEF Clear, TabTypeOK
  <2> QED  BY <1>3, <2>1 DEF Clear, TabTypeOK
<1>4. CASE ServeClear
  <2>1. clearing' \in [st : {"asked", "answered"}, plan : Plans]
    BY <1>4 DEF ServeClear, TabTypeOK, NoClear
  <2> QED  BY <1>4, <2>1 DEF ServeClear, TabTypeOK
<1>5. CASE Cleared
  BY <1>1, <1>5 DEF Cleared, TabTypeOK
<1>6. CASE DeleteShown
  <2>1. load' = NoLoad /\ fill' = NoFill /\ entries' = <<>> /\ conv' = None /\ route' = None
           /\ week' = None /\ status' = "ready"
    BY <1>6 DEF DeleteShown
  <2> QED  BY <1>1, <1>6, <2>1 DEF DeleteShown, TabTypeOK
<1> QED  BY <1>2, <1>3, <1>4, <1>5, <1>6

\* The tab's types hold at first, and every step of the two keeps them.
LEMMA InitTabType == Init => TabTypeOK
<1> SUFFICES ASSUME Init PROVE TabTypeOK
  OBVIOUS
<1>1. entries = <<>> /\ <<>> \in Seq(EntryType)
  BY DEF Init
<1>2. tools = <<>> /\ DOMAIN <<>> \subseteq Nat /\ \A n \in DOMAIN <<>> : <<>>[n] \in Nat
  BY DEF Init
<1> QED  BY <1>1, <1>2 DEF Init, TabTypeOK

LEMMA NextTabType ==
    ASSUME CInv, TabTypeOK, [Next]_vars
    PROVE  TabTypeOK'
<1>1. CASE UNCHANGED tabVars
  BY <1>1 DEF tabVars, TabTypeOK
<1>2. ASSUME NEW p \in Plans, DeleteElsewhere(p) PROVE UNCHANGED tabVars
  BY <1>2 DEF DeleteElsewhere, tabVars
<1> QED
  BY <1>1, <1>2, LoaderType, FillerType, SendType, HearType, PatchType, UserType
  DEF Next, vars, ServerRuns, ServerDies

(***************************************************************************)
(* The tab and the server together are a server.                           *)
(***************************************************************************)
LEMMA NextIsServer ==
    ASSUME CInv, TabTypeOK, [Next]_vars
    PROVE  [ServerNext]_serverVars
<1>1. CASE Hear
  <2>1. Reads(cur) /\ busy
    BY <1>1 DEF Hear, HearMeta, HearText, HearCall, HearResult, HearError, HearEnd, HearFailure, Hears
  <2> QED  BY <2>1 DEF ServerNext, TabTypeOK
<1>2. CASE Send
  <2>1. cur + 1 \in Turns /\ week \in {None} \cup Plans /\ conv \in {None} \cup Turns
    BY <1>2 DEF Send, TabTypeOK, Turns
  <2> QED  BY <1>2, <2>1 DEF Send, ServerNext
<1>3. CASE Cancel
  BY <1>3 DEF Cancel, ServerNext, TabTypeOK
<1>4. CASE ServeClear
  BY <1>4 DEF ServeClear, ServerNext, TabTypeOK, NoClear
<1>5. CASE DeleteShown
  BY <1>5 DEF DeleteShown, ServerNext, TabTypeOK
<1>6. ASSUME NEW p \in Plans, DeleteElsewhere(p) PROVE ServerNext
  BY <1>6 DEF DeleteElsewhere, ServerNext
<1>7. ASSUME NEW k \in Turns, ServerRuns(k) PROVE ServerNext
  BY <1>7 DEF ServerRuns, ServerNext
<1>8. CASE ServerDies \/ Clear \/ Refresh \/ \E r \in {None} \cup Plans : Go(r)
  BY <1>8 DEF ServerDies, Clear, Refresh, Go, ServerNext
<1>9. CASE NotLoaded
  BY <1>9 DEF NotLoaded, ServerNext
<1>10. CASE ServeLoad \/ GotLoad \/ ServeFill \/ GotFill \/ Cleared \/ GotPatch \/ PatchFails
  BY <1>10 DEF ServeLoad, GotLoad, ServeFill, GotFill, Cleared, GotPatch, PatchFails
<1>11. CASE Patch \/ ServePatch
  BY <1>11 DEF Patch, ServePatch, ServerNext, TabTypeOK, NoPatch
<1> QED
  BY <1>1, <1>2, <1>3, <1>4, <1>5, <1>6, <1>7, <1>8, <1>9, <1>10, <1>11 DEF Next, vars

\* The invariant of the two together.
TInv == CInv /\ TabTypeOK

LEMMA InvTInv == Spec => []TInv
<1>1. Init => TInv
  BY InitCInv, InitTabType DEF Init, TInv
<1>2. TInv /\ [Next]_vars => TInv'
  BY NextIsServer, NextCInv, NextTabType DEF TInv
<1> QED  BY <1>1, <1>2, PTL DEF Spec

\* The types, whatever the model answers, the user does and the network loses.
\* In particular the home page asks for no plan (App.tsx:150-156).
THEOREM TypeCorrect == Spec => []TypeOK
<1>1. TInv => TypeOK
  BY DEF TInv, CInv, TypeOK
<1> QED  BY <1>1, InvTInv, PTL

\* What goes to the model is whole, in turns of any number of rounds and calls:
\* each call has its result, in order, and the message is not also in the
\* history (agent.go:136, 172-208; chat.go:47, 66).
THEOREM RequestsWhole == Spec => []RequestWhole
<1>1. TInv => RequestWhole
  <2> SUFFICES ASSUME TInv, NEW k \in Turns, turn[k].pc = "model"
               PROVE  /\ \A i \in DOMAIN turn[k].rounds :
                           turn[k].rounds[i].results = turn[k].rounds[i].calls
                      /\ k \notin turn[k].seen
    BY DEF RequestWhole
  <2>1. turn[k] \in TurnType
    BY DEF TInv, CInv, ServerTypeOK
  <2>2. turn[k].rounds \in Seq(RoundType)
    BY <2>1 DEF TurnType
  <2> DEFINE n == Len(turn[k].rounds)
  <2>3. DOMAIN turn[k].rounds = 1..n /\ n \in Nat
    BY <2>2
  <2>4. Loop(turn[k]) /\ k \notin turn[k].seen
    BY DEF TInv, CInv, SeesOthers
  <2>5. \A i \in 1..(n - 1) : turn[k].rounds[i].results = turn[k].rounds[i].calls
    BY <2>4 DEF Loop
  <2>6. n > 0 => turn[k].rounds[n].results = turn[k].rounds[n].calls
    BY <2>4 DEF Loop
  <2> QED  BY <2>3, <2>4, <2>5, <2>6
<1> QED  BY <1>1, InvTInv, PTL

\* The tab and the server together implement the server with any client at all:
\* the tab does to the server nothing but what a client may.
THEOREM TabIsAClient == Spec => ServerSpec
<1>1. Init => ServerInit
  BY DEF Init
<1>2. TInv /\ [Next]_vars => [ServerNext]_serverVars
  BY NextIsServer DEF TInv
<1> QED  BY <1>1, <1>2, InvTInv, PTL DEF Spec, ServerSpec

(***************************************************************************)
(* The events of a turn come in order.                                     *)
(***************************************************************************)
\* The call that is next, or under way.
Calling(t) == t.rounds[Len(t.rounds)].calls[t.done + 1]

Answers(e, n) == e.kind \in {"result", "news"} /\ e.n = n

\* After a call comes its result or the end of the server, or it is under way;
\* a result follows its call; what ends a stream comes with the turn's end.
Stream(t, w) ==
    /\ \A i \in 1..Len(w) : w[i].kind = "call" =>
          IF i < Len(w) THEN w[i + 1].kind = "broken" \/ Answers(w[i + 1], w[i].n)
                        ELSE t.pc = "tool" /\ w[i].n = Calling(t)
    /\ \A i \in 1..Len(w) : (i > 1 /\ w[i].kind \in {"result", "news"}) => w[i - 1].kind = "call"
    /\ (t.pc = "tool" /\ w # <<>>) => w[Len(w)].kind = "call"
    /\ \A i \in 1..Len(w) : w[i].kind \in {"refused", "end"} => t.pc = "over"
    /\ t.pc = "none" => w = <<>>

StreamInv == \A k \in Turns : Stream(turn[k], wire[k]) /\ (k \in hungup => wire[k] = <<>>)

\* What a step of a handler makes of its turn t and the events w of it, when the
\* browser has gone (h) and when it reads on.
Other == {"meta", "text", "error", "refused", "end"}
Moves(t, u, w, x, h) ==
    /\ t.pc \notin {"none", "over"} /\ u.pc # "none"
    /\ \/ x = w /\ t.pc # "tool" /\ u.pc # "tool"
       \/ h /\ x = <<>> /\ w = <<>>
       \/ \E e \in EventType :
            /\ x = Append(w, e)
            /\ \/ /\ t.pc # "tool" /\ u.pc # "tool" /\ e.kind \in Other
                  /\ e.kind \in {"refused", "end"} => u.pc = "over"
               \/ t.pc # "tool" /\ u.pc = "tool" /\ e.kind = "call" /\ e.n = Calling(u)
               \/ t.pc = "tool" /\ u.pc # "tool" /\ Answers(e, Calling(t))

LEMMA SendsMoves ==
    ASSUME CInv, StreamInv, NEW k \in Turns, NEW e, Sends(k, e)
    PROVE  /\ wire'[k] = Append(wire[k], e) \/ (k \in hungup /\ wire[k] = <<>> /\ wire'[k] = <<>>)
           /\ \A j \in Turns : j # k => wire'[j] = wire[j]
<1>1. wire \in [Turns -> Seq(EventType)]
  BY DEF CInv, ServerTypeOK
<1>2. CASE k \in hungup
  BY <1>1, <1>2 DEF Sends, StreamInv
<1>3. CASE k \notin hungup
  BY <1>1, <1>3 DEF Sends
<1> QED  BY <1>2, <1>3

\* The event that a step sends.
LEMMA EventIs ==
    ASSUME NEW e \in {"text", "call", "result", "news", "error", "refused", "end"}, NEW n \in Nat
    PROVE  Event(e, n) \in EventType /\ Event(e, n).kind = e /\ Event(e, n).n = n
BY DEF Event, EventType

LEMMA Stepped ==
    ASSUME CInv, StreamInv, NEW k \in Turns, NEW e \in EventType, Sends(k, e),
           turn[k].pc \notin {"none", "over"}, turn'[k].pc # "none",
           \/ /\ turn[k].pc # "tool" /\ turn'[k].pc # "tool" /\ e.kind \in Other
              /\ e.kind \in {"refused", "end"} => turn'[k].pc = "over"
           \/ turn[k].pc # "tool" /\ turn'[k].pc = "tool" /\ e.kind = "call"
              /\ e.n = Calling(turn'[k])
           \/ turn[k].pc = "tool" /\ turn'[k].pc # "tool" /\ Answers(e, Calling(turn[k]))
    PROVE  /\ Moves(turn[k], turn'[k], wire[k], wire'[k], k \in hungup)
           /\ \A j \in Turns : j # k => wire'[j] = wire[j]
<1>1. /\ wire'[k] = Append(wire[k], e) \/ (k \in hungup /\ wire[k] = <<>> /\ wire'[k] = <<>>)
      /\ \A j \in Turns : j # k => wire'[j] = wire[j]
  BY SendsMoves
<1> QED  BY <1>1 DEF Moves

LEMMA StepMoves ==
    ASSUME CInv, StreamInv, NEW k \in Turns, ServerStep(k)
    PROVE  /\ Moves(turn[k], turn'[k], wire[k], wire'[k], k \in hungup)
           /\ \A j \in Turns : j # k => turn'[j] = turn[j] /\ wire'[j] = wire[j]
           /\ hungup' = hungup
<1>1. turn \in [Turns -> TurnType]
  BY DEF CInv, ServerTypeOK
<1>2. turn[k].done \in Nat /\ turn[k].said \in Nat /\ None \in Nat
  BY <1>1 DEF TurnType, None
<1>3. CASE UseConversation(k)
  BY <1>1, <1>3 DEF UseConversation, Moves
<1>4. CASE NoConversation(k)
  BY <1>1, <1>4 DEF NoConversation, Moves
<1>5. CASE InsertConversation(k)
  BY <1>1, <1>5 DEF InsertConversation, Moves
<1>6. CASE Refuse(k)
  <2>1. Sends(k, Event("refused", None)) /\ turn[k].pc \in {"begin", "insert", "load"}
        /\ turn'[k] = Over(k, TRUE) /\ \A j \in Turns : j # k => turn'[j] = turn[j]
    BY <1>1, <1>6 DEF Refuse, Ends
  <2>2. turn'[k].pc = "over"
    BY <2>1, OverLoop
  <2> DEFINE e == Event("refused", None)
  <2>3. e \in EventType /\ e.kind = "refused" /\ Sends(k, e)
    BY <1>2, <2>1, EventIs
  <2>4. hungup' = hungup
    BY <1>6 DEF Refuse
  <2> HIDE DEF e
  <2>5. turn[k].pc \notin {"none", "over", "tool"}
    BY <2>1
  <2> QED  BY <2>1, <2>2, <2>3, <2>4, <2>5, Stepped DEF Other
<1>7. CASE LoadHistory(k)
  <2>1. turn[k].conv \in Turns
    BY <1>7 DEF LoadHistory, CInv, Placed
  <2>2. Event("meta", turn[k].conv) \in EventType /\ Event("meta", turn[k].conv).kind = "meta"
    BY <2>1 DEF Event, EventType, Turns
  <2>3. turn[k].pc = "load" /\ turn'[k].pc = "save" /\ \A j \in Turns : j # k => turn'[j] = turn[j]
    BY <1>1, <1>7 DEF LoadHistory
  <2> QED  BY <1>7, <2>2, <2>3, Stepped DEF LoadHistory, Other
<1>8. CASE SaveUser(k)
  BY <1>1, <1>8 DEF SaveUser, Moves
<1>9. CASE Say(k)
  <2>1. turn[k].pc = "model" /\ turn'[k].pc = "model" /\ \A j \in Turns : j # k => turn'[j] = turn[j]
    <3>1. turn[k] \in TurnType /\ turn' = [turn EXCEPT ![k].said = @ + 1] /\ turn[k].pc = "model"
      BY <1>1, <1>9 DEF Say
    <3> QED  BY <1>1, <3>1
  <2>2. turn[k].said + 1 \in Nat
    BY <1>2
  <2> QED  BY <1>9, <2>1, <2>2, EventIs, Stepped DEF Say, Other
<1>10. CASE ModelFails(k)
  <2>1. turn[k].pc = "model" /\ turn'[k].pc = "finish" /\ \A j \in Turns : j # k => turn'[j] = turn[j]
    BY <1>1, <1>10 DEF ModelFails
  <2> QED  BY <1>2, <1>10, <2>1, EventIs, Stepped DEF ModelFails, Other
<1>11. CASE CallTool(k)
  <2> DEFINE n == LastRound(k).calls[turn[k].done + 1]
  <2>1. /\ turn[k].pc = "batch" /\ turn'[k].pc = "tool" /\ \A j \in Turns : j # k => turn'[j] = turn[j]
        /\ turn'[k].rounds = turn[k].rounds /\ turn'[k].done = turn[k].done
    BY <1>1, <1>11 DEF CallTool
  <2>2. n \in Nat /\ n = Calling(turn'[k])
    BY <1>11, <2>1, CallType DEF CallTool, Calling, LastRound
  <2>3. Sends(k, Event("call", n))
    BY <1>11 DEF CallTool
  <2>4. hungup' = hungup
    BY <1>11 DEF CallTool
  <2> HIDE DEF n
  <2>5. Event("call", n) \in EventType /\ Event("call", n).kind = "call" /\ Event("call", n).n = n
    BY <2>2, EventIs
  <2> QED  BY <2>1, <2>2, <2>3, <2>4, <2>5, Stepped
<1>12. CASE \E c \in 0..MaxCalls, more \in BOOLEAN : ModelStops(k, c, more)
  <2>1. turn[k].pc = "model" /\ turn'[k].pc = "batch" /\ \A j \in Turns : j # k => turn'[j] = turn[j]
    <3>1. PICK c \in 0..MaxCalls, more \in BOOLEAN : ModelStops(k, c, more)
      BY <1>12
    <3> DEFINE r == Append(turn[k].rounds,
                          Round([i \in 1..c |-> MaxCalls * Len(turn[k].rounds) + i], more))
    <3>2. turn' = [turn EXCEPT ![k].pc = "batch", ![k].done = 0, ![k].rounds = r]
      BY <1>1, <3>1 DEF ModelStops
    <3>3. turn[k].pc = "model" /\ turn[k] \in TurnType
      BY <1>1, <3>1 DEF ModelStops
    <3> HIDE DEF r
    <3> QED  BY <1>1, <3>2, <3>3 DEF TurnType
  <2>2. wire' = wire /\ hungup' = hungup
    BY <1>12 DEF ModelStops
  <2> QED  BY <2>1, <2>2 DEF Moves
<1>13. CASE \E o \in Outcomes : ToolReturns(k, o)
  <2> DEFINE n == LastRound(k).calls[turn[k].done + 1]
  <2>1. PICK o \in Outcomes : ToolReturns(k, o)
    BY <1>13
  <2>2. turn[k].pc = "tool" /\ turn[k] \in TurnType /\ n \in Nat /\ n = Calling(turn[k])
    BY <1>1, <2>1, CallType DEF ToolReturns, CInv, Loop, LastRound, Calling
  <2>3. turn'[k].pc = "batch" /\ \A j \in Turns : j # k => turn'[j] = turn[j]
    <3> DEFINE rs == [turn[k].rounds EXCEPT ![Len(turn[k].rounds)].results = Append(@, n)]
    <3>1. turn' = [turn EXCEPT ![k].pc = "batch", ![k].done = turn[k].done + 1, ![k].rounds = rs]
      BY <1>1, <2>1, <2>2 DEF ToolReturns, TurnType
    <3> HIDE DEF rs
    <3> QED  BY <1>1, <2>2, <3>1 DEF TurnType
  <2>4. PICK e \in EventType : Sends(k, e) /\ Answers(e, n)
    <3>1. \A kind \in {"result", "news"} : Event(kind, n) \in EventType /\ Answers(Event(kind, n), n)
      BY <2>2, EventIs DEF Answers
    <3>2. Sends(k, Event(IF o = "news" THEN "news" ELSE "result", n))
      BY <2>1 DEF ToolReturns
    <3> HIDE DEF n
    <3> QED  BY <3>1, <3>2
  <2>5. hungup' = hungup
    BY <2>1 DEF ToolReturns
  <2> HIDE DEF n
  <2> QED  BY <2>2, <2>3, <2>4, <2>5, Stepped
<1>14. CASE NextRound(k) \/ Done(k)
  <2>1. /\ turn[k].pc = "batch" /\ turn'[k].pc \in {"model", "finish"}
        /\ \A j \in Turns : j # k => turn'[j] = turn[j]
    <3>1. CASE NextRound(k)
      BY <1>1, <3>1 DEF NextRound, RoundOver
    <3>2. CASE Done(k)
      BY <1>1, <3>2 DEF Done, RoundOver
    <3> QED  BY <1>14, <3>1, <3>2
  <2>2. wire' = wire /\ hungup' = hungup
    BY <1>14 DEF NextRound, Done
  <2> QED  BY <2>1, <2>2 DEF Moves
<1>15. CASE GiveUp(k)
  <2>1. turn[k].pc = "batch" /\ turn'[k].pc = "finish" /\ \A j \in Turns : j # k => turn'[j] = turn[j]
    BY <1>1, <1>15 DEF GiveUp, RoundOver
  <2> QED  BY <1>2, <1>15, <2>1, EventIs, Stepped DEF GiveUp, Other
<1>16. CASE Finish(k)
  <2>1. PICK b \in BOOLEAN : turn' = [turn EXCEPT ![k] = Over(k, b)]
    BY <1>16 DEF Finish, Ends
  <2>2. turn[k].pc = "finish" /\ turn'[k].pc = "over" /\ \A j \in Turns : j # k => turn'[j] = turn[j]
    BY <1>1, <1>16, <2>1, OverLoop DEF Finish
  <2> QED  BY <1>2, <1>16, <2>2, EventIs, Stepped DEF Finish, Other
<1> QED  BY <1>3, <1>4, <1>5, <1>6, <1>7, <1>8, <1>9, <1>10, <1>11, <1>12, <1>13, <1>14, <1>15,
            <1>16 DEF ServerStep

\* A step of the handler keeps the order.
LEMMA StreamMoves ==
    ASSUME NEW t, NEW u, NEW w \in Seq(EventType), NEW x, NEW h, Stream(t, w), Moves(t, u, w, x, h)
    PROVE  Stream(u, x)
<1>1. t.pc \notin {"none", "over"} /\ u.pc # "none"
  BY DEF Moves
<1>2. CASE x = w /\ t.pc # "tool" /\ u.pc # "tool"
  BY <1>1, <1>2 DEF Stream
<1>3. CASE x = <<>>
  BY <1>1, <1>3 DEF Stream
<1>4. ASSUME NEW e \in EventType, x = Append(w, e),
             \/ /\ t.pc # "tool" /\ u.pc # "tool" /\ e.kind \in Other
                /\ e.kind \in {"refused", "end"} => u.pc = "over"
             \/ t.pc # "tool" /\ u.pc = "tool" /\ e.kind = "call" /\ e.n = Calling(u)
             \/ t.pc = "tool" /\ u.pc # "tool" /\ Answers(e, Calling(t))
      PROVE  Stream(u, x)
  <2> DEFINE n == Len(w)
  <2>1. /\ n \in Nat /\ Len(x) = n + 1 /\ x[n + 1] = e /\ x # <<>>
        /\ \A i \in 1..n : x[i] = w[i]
        /\ w # <<>> => n \in 1..n
    BY <1>4
  <2>2. /\ \A i \in 1..n : w[i].kind = "call" /\ i < n
              => (x[i + 1].kind = "broken" \/ Answers(x[i + 1], x[i].n))
        /\ \A i \in 1..n : w[i].kind \notin {"refused", "end"}
        /\ n > 0 /\ w[n].kind = "call" => t.pc = "tool" /\ w[n].n = Calling(t)
        /\ n > 0 /\ t.pc = "tool" => w[n].kind = "call"
        /\ \A i \in 1..n : i > 1 /\ x[i].kind \in {"result", "news"} => x[i - 1].kind = "call"
    BY <1>1, <2>1 DEF Stream
  <2> HIDE DEF n
  <2>3. CASE t.pc # "tool" /\ u.pc # "tool" /\ e.kind \in Other
             /\ (e.kind \in {"refused", "end"} => u.pc = "over")
    BY <1>1, <2>1, <2>2, <2>3 DEF Stream, Other
  <2>4. CASE t.pc # "tool" /\ u.pc = "tool" /\ e.kind = "call" /\ e.n = Calling(u)
    BY <1>1, <2>1, <2>2, <2>4 DEF Stream
  <2>5. CASE t.pc = "tool" /\ u.pc # "tool" /\ Answers(e, Calling(t))
    BY <1>1, <2>1, <2>2, <2>5 DEF Stream, Answers
  <2> QED  BY <1>4, <2>3, <2>4, <2>5
<1> QED  BY <1>2, <1>3, <1>4 DEF Moves

\* So does a browser that reads, and a server that dies.
LEMMA StreamTail ==
    ASSUME NEW t, NEW w \in Seq(EventType), Stream(t, w), w # <<>>
    PROVE  Stream(t, Tail(w))
<1> DEFINE n == Len(w)
           x == Tail(w)
<1>1. /\ n \in Nat \ {0} /\ Len(x) = n - 1 /\ \A i \in 1..(n - 1) : x[i] = w[i + 1]
      /\ x # <<>> => n > 1
  BY HeadTailProperties
<1>2. t.pc # "none"
  BY DEF Stream
<1> HIDE DEF x
<1>3. \A i \in 1..Len(x) : x[i].kind = "call" =>
         IF i < Len(x) THEN x[i + 1].kind = "broken" \/ Answers(x[i + 1], x[i].n)
                       ELSE t.pc = "tool" /\ x[i].n = Calling(t)
  <2> SUFFICES ASSUME NEW i \in 1..Len(x), x[i].kind = "call"
               PROVE  IF i < Len(x) THEN x[i + 1].kind = "broken" \/ Answers(x[i + 1], x[i].n)
                                    ELSE t.pc = "tool" /\ x[i].n = Calling(t)
    OBVIOUS
  <2>1. i + 1 \in 1..n /\ x[i] = w[i + 1] /\ (i < Len(x) <=> i + 1 < n)
        /\ (i < Len(x) => x[i + 1] = w[i + 1 + 1])
    BY <1>1
  <2> QED  BY <2>1 DEF Stream
<1>4. \A i \in 1..Len(x) : (i > 1 /\ x[i].kind \in {"result", "news"}) => x[i - 1].kind = "call"
  <2> SUFFICES ASSUME NEW i \in 1..Len(x), i > 1, x[i].kind \in {"result", "news"}
               PROVE  x[i - 1].kind = "call"
    OBVIOUS
  <2>1. i + 1 \in 1..n /\ x[i] = w[i + 1] /\ x[i - 1] = w[(i + 1) - 1] /\ i + 1 > 1
    BY <1>1
  <2> QED  BY <2>1 DEF Stream
<1>5. (t.pc = "tool" /\ x # <<>>) => x[Len(x)].kind = "call"
  <2> SUFFICES ASSUME t.pc = "tool", x # <<>> PROVE x[Len(x)].kind = "call"
    OBVIOUS
  <2>1. Len(x) \in 1..(n - 1) /\ x[Len(x)] = w[n]
    BY <1>1
  <2> QED  BY <2>1 DEF Stream
<1>6. \A i \in 1..Len(x) : x[i].kind \in {"refused", "end"} => t.pc = "over"
  <2> SUFFICES ASSUME NEW i \in 1..Len(x), x[i].kind \in {"refused", "end"}
               PROVE  t.pc = "over"
    OBVIOUS
  <2>1. i + 1 \in 1..n /\ x[i] = w[i + 1]
    BY <1>1
  <2>2. \A j \in 1..n : w[j].kind \in {"refused", "end"} => t.pc = "over"
    BY DEF Stream
  <2> QED  BY <2>1, <2>2
<1> QED  BY <1>2, <1>3, <1>4, <1>5, <1>6 DEF Stream, x

LEMMA StreamBreaks ==
    ASSUME NEW t, NEW u, NEW w \in Seq(EventType), Stream(t, w), u.pc = "over",
           NEW e, e.kind = "broken"
    PROVE  Stream(u, Append(w, e))
<1> DEFINE n == Len(w)
           x == Append(w, e)
<1>1. /\ n \in Nat /\ Len(x) = n + 1 /\ x[n + 1] = e
      /\ \A i \in 1..n : x[i] = w[i]
  OBVIOUS
<1> HIDE DEF x
<1>2. /\ \A i \in 1..n : (w[i].kind = "call" /\ i < n)
            => (w[i + 1].kind = "broken" \/ Answers(w[i + 1], w[i].n))
      /\ \A i \in 1..n : (i > 1 /\ w[i].kind \in {"result", "news"}) => w[i - 1].kind = "call"
  BY DEF Stream
<1> HIDE DEF n
<1> QED  BY <1>1, <1>2 DEF Stream, x

LEMMA StreamNext ==
    ASSUME CInv, StreamInv, [ServerNext]_serverVars
    PROVE  StreamInv'
<1>1. turn \in [Turns -> TurnType] /\ wire \in [Turns -> Seq(EventType)]
  BY DEF CInv, ServerTypeOK
<1>2. ASSUME NEW k \in Turns, ServerStep(k) PROVE StreamInv'
  <2>1. /\ Moves(turn[k], turn'[k], wire[k], wire'[k], k \in hungup)
        /\ \A j \in Turns : j # k => turn'[j] = turn[j] /\ wire'[j] = wire[j]
        /\ hungup' = hungup
    BY <1>2, StepMoves
  <2>2. Stream(turn'[k], wire'[k])
    BY <1>1, <2>1, StreamMoves DEF StreamInv
  <2>3. k \in hungup => wire'[k] = <<>>
    <3>1. CASE k \in hungup
      <4>1. wire[k] = <<>>
        BY <3>1 DEF StreamInv
      <4>2. wire' = wire \/ \E e : Sends(k, e)
        BY <1>2 DEF ServerStep, UseConversation, NoConversation, InsertConversation, Refuse,
             LoadHistory, SaveUser, Say, ModelFails, CallTool, ModelStops, ToolReturns, NextRound,
             Done, GiveUp, Finish
      <4> QED  BY <3>1, <4>1, <4>2 DEF Sends
    <3> QED  BY <3>1
  <2> QED  BY <2>1, <2>2, <2>3 DEF StreamInv
<1>3. ASSUME NEW k \in Turns, Reads(k) PROVE StreamInv'
  <2>1. /\ turn' = turn /\ hungup' = hungup /\ wire[k] # <<>> /\ wire'[k] = Tail(wire[k])
        /\ \A j \in Turns : j # k => wire'[j] = wire[j]
    BY <1>1, <1>3 DEF Reads
  <2> QED  BY <1>1, <2>1, StreamTail DEF StreamInv
<1>4. ASSUME NEW k \in Turns, HangUp(k) PROVE StreamInv'
  <2>1. Stream(turn[k], <<>>)
    BY DEF Stream
  <2> QED  BY <1>1, <1>4, <2>1 DEF HangUp, StreamInv
<1>5. ASSUME NEW k \in Turns, NEW p \in {None} \cup Plans, NEW c \in {None} \cup Turns, Post(k, p, c)
      PROVE  StreamInv'
  <2>1. /\ wire' = wire /\ hungup' = hungup /\ turn'[k] = Request(p, c) /\ turn[k].pc = "none"
        /\ \A j \in Turns : j # k => turn'[j] = turn[j]
    BY <1>1, <1>5 DEF Post
  <2>2. wire[k] = <<>>
    BY <2>1 DEF StreamInv, Stream
  <2>3. Stream(Request(p, c), <<>>)
    BY DEF Stream
  <2> QED  BY <2>1, <2>2, <2>3 DEF StreamInv
<1>6. CASE Crash
  <2> DEFINE lost == {k \in Turns : Active(k)}
  <2>1. /\ hungup' = hungup
        /\ turn' = [k \in Turns |-> IF k \in lost THEN Over(k, FALSE) ELSE turn[k]]
        /\ wire' = [k \in Turns |-> IF k \in lost \ hungup
                                    THEN Append(wire[k], Event("broken", None)) ELSE wire[k]]
    BY <1>6 DEF Crash
  <2>2. Event("broken", None).kind = "broken" /\ \A k \in Turns : Over(k, FALSE).pc = "over"
    BY OverLoop DEF Event
  <2> HIDE DEF lost
  <2> SUFFICES ASSUME NEW k \in Turns
               PROVE  Stream(turn'[k], wire'[k]) /\ (k \in hungup => wire'[k] = <<>>)
    BY <2>1 DEF StreamInv
  <2>3. CASE k \in lost \ hungup
    BY <1>1, <2>1, <2>2, <2>3, StreamBreaks DEF StreamInv
  <2>4. CASE k \in lost /\ k \in hungup
    <3>1. wire'[k] = <<>> /\ turn'[k].pc = "over"
      BY <2>1, <2>2, <2>4 DEF StreamInv
    <3> QED  BY <3>1 DEF Stream
  <2>5. CASE k \notin lost
    BY <2>1, <2>5 DEF StreamInv
  <2> QED  BY <2>3, <2>4, <2>5
<1>7. CASE \/ (\E p \in Plans : DeleteConversations(p) \/ DeletePlan(p) \/ PatchPlan(p))
           \/ Unseen \/ UNCHANGED serverVars
  BY <1>7 DEF Unseen, DeleteConversations, DeletePlan, PatchPlan, serverVars, StreamInv
<1> QED  BY <1>2, <1>3, <1>4, <1>5, <1>6, <1>7 DEF ServerNext

LEMMA StreamInit == ServerInit => StreamInv
BY DEF ServerInit, StreamInv, Stream, Unused

(***************************************************************************)
(* The versions that the ended turns have seen.                            *)
(***************************************************************************)
\* A plan that is deleted stays deleted; the versions of the others grow.
Grows == \A p \in Plans : IF version[p] = None THEN version'[p] = None
                                               ELSE version'[p] = None \/ version[p] =< version'[p]

Seen(t, v) == IF t.plan = None THEN t.ver = None ELSE v[t.plan] = None \/ t.ver =< v[t.plan]
SeenInv == \A k \in Turns : turn[k].pc = "over" => Seen(turn[k], version)

\* A turn is over in one step, which writes to no plan.
LEMMA StepEnds ==
    ASSUME CInv, NEW k \in Turns, ServerStep(k)
    PROVE  /\ turn'[k].pc = "over" => version' = version /\ \E b \in BOOLEAN : turn'[k] = Over(k, b)
           /\ Grows
<1>1. turn \in [Turns -> TurnType] /\ version \in [Plans -> Nat]
  BY DEF CInv, ServerTypeOK
<1>2. version' = version => Grows
  BY <1>1 DEF Grows, None
<1>3. turn[k] \in TurnType
  BY <1>1
<1>4. CASE Refuse(k) \/ Finish(k)
  <2>1. version' = version /\ \E b \in BOOLEAN : turn' = [turn EXCEPT ![k] = Over(k, b)]
    BY <1>4 DEF Refuse, Finish, Ends
  <2> QED  BY <1>1, <1>2, <2>1
<1>5. CASE \E o \in Outcomes : ToolReturns(k, o)
  <2> DEFINE n == LastRound(k).calls[turn[k].done + 1]
             rs == [turn[k].rounds EXCEPT ![Len(turn[k].rounds)].results = Append(@, n)]
  <2>1. PICK o \in Outcomes : ToolReturns(k, o)
    BY <1>5
  <2>2. turn' = [turn EXCEPT ![k].pc = "batch", ![k].done = turn[k].done + 1, ![k].rounds = rs]
    BY <1>1, <2>1 DEF ToolReturns, TurnType
  <2> HIDE DEF rs
  <2>3. turn'[k].pc = "batch"
    BY <1>1, <1>3, <2>2 DEF TurnType
  <2>4. Writes(k) \/ version' = version
    BY <2>1 DEF ToolReturns
  <2>5. ASSUME Writes(k) PROVE Grows
    <3>1. PICK p \in Plans : version[p] # None /\ version' = [version EXCEPT ![p] = @ + 1]
      BY <2>5 DEF Writes
    <3>2. version'[p] = version[p] + 1 /\ \A q \in Plans : q # p => version'[q] = version[q]
      BY <1>1, <3>1
    <3>3. \A q \in Plans : version[q] \in Nat
      BY <1>1
    <3> QED  BY <3>1, <3>2, <3>3 DEF Grows
  <2> QED  BY <1>2, <2>3, <2>4, <2>5
<1>6. CASE \E c \in 0..MaxCalls, more \in BOOLEAN : ModelStops(k, c, more)
  <2>1. PICK c \in 0..MaxCalls, more \in BOOLEAN : ModelStops(k, c, more)
    BY <1>6
  <2> DEFINE r == Append(turn[k].rounds,
                        Round([i \in 1..c |-> MaxCalls * Len(turn[k].rounds) + i], more))
  <2>2. turn' = [turn EXCEPT ![k].pc = "batch", ![k].done = 0, ![k].rounds = r] /\ version' = version
    BY <1>1, <2>1 DEF ModelStops
  <2> HIDE DEF r
  <2> QED  BY <1>1, <1>2, <1>3, <2>2 DEF TurnType
<1>7. CASE UseConversation(k) \/ NoConversation(k) \/ InsertConversation(k)
  <2>1. version' = version
    BY <1>7 DEF UseConversation, NoConversation, InsertConversation
  <2>2. turn'[k].pc \in {"load", "insert"}
    <3>1. CASE UseConversation(k)
      BY <1>1, <3>1 DEF UseConversation
    <3>2. CASE NoConversation(k)
      BY <1>1, <3>2 DEF NoConversation
    <3>3. CASE InsertConversation(k)
      BY <1>1, <3>3 DEF InsertConversation
    <3> QED  BY <1>7, <3>1, <3>2, <3>3
  <2> QED  BY <1>2, <2>1, <2>2
<1>8. CASE LoadHistory(k) \/ SaveUser(k) \/ Say(k)
  <2>1. version' = version
    BY <1>8 DEF LoadHistory, SaveUser, Say
  <2>2. turn'[k].pc \in {"save", "model"}
    <3>1. CASE LoadHistory(k)
      BY <1>1, <3>1 DEF LoadHistory
    <3>2. CASE SaveUser(k)
      BY <1>1, <3>2 DEF SaveUser
    <3>3. CASE Say(k)
      <4>1. turn' = [turn EXCEPT ![k].said = @ + 1] /\ turn[k].pc = "model"
        BY <3>3 DEF Say
      <4> QED  BY <1>1, <1>3, <4>1 DEF TurnType
    <3> QED  BY <1>8, <3>1, <3>2, <3>3
  <2> QED  BY <1>2, <2>1, <2>2
<1>9. CASE ModelFails(k) \/ CallTool(k) \/ NextRound(k) \/ Done(k) \/ GiveUp(k)
  <2>1. version' = version
    BY <1>9 DEF ModelFails, CallTool, NextRound, Done, GiveUp
  <2>2. turn'[k].pc \in {"finish", "tool", "model"}
    <3>1. CASE ModelFails(k)
      BY <1>1, <3>1 DEF ModelFails
    <3>2. CASE CallTool(k)
      BY <1>1, <3>2 DEF CallTool
    <3>3. CASE NextRound(k)
      BY <1>1, <3>3 DEF NextRound
    <3>4. CASE Done(k)
      BY <1>1, <3>4 DEF Done
    <3>5. CASE GiveUp(k)
      BY <1>1, <3>5 DEF GiveUp
    <3> QED  BY <1>9, <3>1, <3>2, <3>3, <3>4, <3>5
  <2> QED  BY <1>2, <2>1, <2>2
<1> QED  BY <1>4, <1>5, <1>6, <1>7, <1>8, <1>9 DEF ServerStep

\* A turn that is over has the version of its plan.
LEMMA OverSeen ==
    ASSUME CInv, NEW k \in Turns, NEW b \in BOOLEAN
    PROVE  Seen(Over(k, b), version)
<1>1. version \in [Plans -> Nat] /\ turn[k].plan \in {None} \cup Plans
  BY DEF CInv, ServerTypeOK, TurnType
<1>2. Over(k, b).plan = turn[k].plan
      /\ Over(k, b).ver = IF turn[k].plan = None THEN None ELSE version[turn[k].plan]
  BY DEF Over, Request
<1> DEFINE o == Over(k, b)
<1> HIDE DEF o
<1>3. o.plan = turn[k].plan /\ (o.plan = None => o.ver = None)
      /\ (o.plan # None => version[o.plan] \in Nat /\ o.ver = version[o.plan])
  BY <1>1, <1>2 DEF o
<1>4. Seen(o, version)
  BY <1>3 DEF Seen
<1> QED  BY <1>4 DEF o

\* What a turn has seen stays behind its plan.
LEMMA SeenGrows ==
    ASSUME CInv, CInv', Grows, NEW t \in TurnType, Seen(t, version)
    PROVE  Seen(t, version')
<1>1. version \in [Plans -> Nat] /\ t.plan \in {None} \cup Plans /\ t.ver \in Nat
  BY DEF CInv, ServerTypeOK, TurnType
<1>2. CASE t.plan = None
  BY <1>2 DEF Seen
<1>3. CASE t.plan # None
  <2> DEFINE p == t.plan
  <2>1. p \in Plans /\ version[p] \in Nat /\ version'[p] \in Nat /\ t.ver \in Nat
    BY <1>1, <1>3 DEF CInv, ServerTypeOK
  <2>2. version[p] = None \/ t.ver =< version[p]
    BY <1>3 DEF Seen
  <2>3. IF version[p] = None THEN version'[p] = None ELSE version'[p] = None \/ version[p] =< version'[p]
    BY <2>1 DEF Grows
  <2> HIDE DEF p
  <2>4. version'[p] = None \/ t.ver =< version'[p]
    BY <2>1, <2>2, <2>3
  <2> QED  BY <1>3, <2>4 DEF Seen, p
<1> QED  BY <1>2, <1>3

LEMMA SeenNext ==
    ASSUME CInv, CInv', StreamInv, SeenInv, [ServerNext]_serverVars
    PROVE  SeenInv'
<1>1. turn \in [Turns -> TurnType] /\ version \in [Plans -> Nat]
  BY DEF CInv, ServerTypeOK
\* Every turn that is over was so before and stays as it was, or ends now.
<1>2. ASSUME Grows,
             \A k \in Turns : turn'[k].pc = "over" =>
                \/ turn[k].pc = "over" /\ turn'[k] = turn[k]
                \/ version' = version /\ \E b \in BOOLEAN : turn'[k] = Over(k, b)
      PROVE  SeenInv'
  <2> SUFFICES ASSUME NEW k \in Turns, turn'[k].pc = "over" PROVE Seen(turn'[k], version')
    BY DEF SeenInv
  <2>1. CASE turn[k].pc = "over" /\ turn'[k] = turn[k]
    <3>1. Seen(turn[k], version) /\ turn[k] \in TurnType
      BY <1>1, <2>1 DEF SeenInv
    <3> QED  BY <1>2, <2>1, <3>1, SeenGrows
  <2>2. ASSUME NEW b \in BOOLEAN, version' = version, turn'[k] = Over(k, b)
        PROVE  Seen(turn'[k], version')
    BY <2>2, OverSeen DEF Seen
  <2> QED  BY <1>2, <2>1, <2>2
<1>3. version' = version => Grows
  BY <1>1 DEF Grows
<1>4. ASSUME NEW k \in Turns, ServerStep(k) PROVE SeenInv'
  BY <1>2, <1>4, StepMoves, StepEnds
<1>5. ASSUME NEW k \in Turns, Reads(k) \/ HangUp(k) PROVE SeenInv'
  BY <1>5 DEF Reads, HangUp, SeenInv, Seen
<1>6. ASSUME NEW k \in Turns, NEW p \in {None} \cup Plans, NEW c \in {None} \cup Turns, Post(k, p, c)
      PROVE  SeenInv'
  <2>1. /\ version' = version /\ turn'[k].pc = "begin"
        /\ \A j \in Turns : j # k => turn'[j] = turn[j]
    BY <1>1, <1>6 DEF Post, Request
  <2> QED  BY <1>2, <1>3, <2>1
<1>7. CASE Crash
  BY <1>1, <1>2, <1>3, <1>7 DEF Crash, Active
<1>8. ASSUME NEW p \in Plans, DeletePlan(p) \/ PatchPlan(p) PROVE SeenInv'
  <2>1. Grows
    BY <1>1, <1>8 DEF DeletePlan, PatchPlan, Grows
  <2> QED  BY <1>2, <1>8, <2>1 DEF DeletePlan, PatchPlan
<1>9. CASE Unseen \/ (\E p \in Plans : DeleteConversations(p)) \/ UNCHANGED serverVars
  <2>1. turn' = turn /\ version' = version
    BY <1>9 DEF Unseen, DeleteConversations, serverVars
  <2> QED  BY <1>2, <1>3, <2>1
<1> QED  BY <1>4, <1>5, <1>6, <1>7, <1>8, <1>9 DEF ServerNext

LEMMA SeenInit == ServerInit => SeenInv
BY DEF ServerInit, SeenInv, Unused, Request

\* A server that takes a step leaves the turns that are over as they are.
LEMMA OverStays ==
    ASSUME CInv, StreamInv, NEW j \in Turns, turn[j].pc = "over",
           Crash \/ \E k \in Turns : ServerStep(k)
    PROVE  turn'[j] = turn[j]
<1>1. CASE Crash
  BY <1>1 DEF Crash, Active
<1>2. ASSUME NEW k \in Turns, ServerStep(k) PROVE turn'[j] = turn[j]
  BY <1>2, StepMoves DEF Moves
<1> QED  BY <1>1, <1>2

(***************************************************************************)
(* What the tab knows of the plans.                                        *)
(***************************************************************************)
\* The turns that the tab has heard the end of.
Settled(k) == k =< cur /\ k \notin cut /\ ~(busy /\ k = cur)

\* The plan that is asked for is the one of the URL, a plan that was read after
\* a turn ended has its version, and so has the plan on display, unless it came
\* late; the answer of a PATCH covers the turns that it counts.
MenuInv ==
    /\ load # NoLoad => load.plan = route
    /\ patch.ended =< Ended
    /\ patch.st = "answered" =>
          \A k \in Turns : (Settled(k) /\ k =< patch.ended /\ turn[k].plan = patch.plan) => turn[k].ver =< patch.ver
    /\ \A k \in Turns : Settled(k) =>
          /\ turn[k].pc = "over"
          /\ (load.st = "answered" /\ turn[k].plan = load.plan) => load.ver = None \/ turn[k].ver =< load.ver
          /\ (load = NoLoad /\ status = "ready" /\ route = week /\ ~late /\ turn[k].plan = week)
                => turn[k].ver =< ver

\* What the proof goes by.
Inv3 == TInv /\ StreamInv /\ SeenInv

LEMMA InvInv3 == Spec => []Inv3
<1>1. Init => Inv3
  BY InitCInv, InitTabType, StreamInit, SeenInit DEF Init, TInv, Inv3
<1>2. Inv3 /\ [Next]_vars => Inv3'
  <2> SUFFICES ASSUME Inv3, [Next]_vars PROVE Inv3'
    OBVIOUS
  <2>1. [ServerNext]_serverVars /\ CInv /\ CInv' /\ StreamInv /\ SeenInv
    BY NextIsServer, NextCInv DEF TInv, Inv3
  <2> QED  BY <2>1, NextTabType, StreamNext, SeenNext DEF TInv, Inv3
<1> QED  BY <1>1, <1>2, PTL DEF Spec

LEMMA PatchFields ==
    ASSUME TabTypeOK, TabTypeOK'
    PROVE  /\ Ended \in Nat /\ patch.ended \in Nat /\ patch.ver \in Nat
           /\ Ended' \in Nat /\ patch'.ended \in Nat /\ patch'.ver \in Nat
<1> DEFINE P == {NoPatch} \cup [st : {"asked", "answered"}, plan : Plans, ver : Nat, ended : Nat]
<1>1. /\ patch \in P /\ cur \in {0} \cup Turns /\ (busy => cur # 0)
      /\ patch' \in P /\ cur' \in {0} \cup Turns /\ (busy' => cur' # 0)
  BY DEF TabTypeOK
<1>2. \A x \in P : x.ended \in Nat /\ x.ver \in Nat
  BY DEF NoPatch, None
<1> HIDE DEF P
<1>3. Ended \in Nat /\ Ended' \in Nat
  <2>1. Ended = (IF busy THEN cur - 1 ELSE cur) /\ Ended' = (IF busy' THEN cur' - 1 ELSE cur')
    BY DEF Ended
  <2>2. \A c \in {0} \cup Turns : c \in Nat /\ (c # 0 => c - 1 \in Nat)
    BY DEF Turns
  <2>3. CASE busy
    <3>1. Ended = cur - 1 /\ cur - 1 \in Nat
      BY <1>1, <2>1, <2>2, <2>3
    <3> QED  BY <1>1, <2>1, <2>2, <3>1
  <2> QED  BY <1>1, <2>1, <2>2, <2>3
<1> QED  BY <1>1, <1>2, <1>3

\* What a step may do with the request for the plan, with a PATCH, and with the
\* plan on display.
LoadStep ==
    /\ load' # NoLoad => load'.plan = route'
    /\ load'.st = "answered" =>
          (load' = load \/ (load'.ver = version[load'.plan] /\ load'.plan \in Plans))
PatchStep ==
    \/ patch' = patch
    \/ patch'.st # "answered" /\ patch'.ended = 0
    \/ /\ patch'.plan \in Plans /\ version[patch'.plan] # None /\ version[patch'.plan] =< patch'.ver
       /\ patch'.ended = Ended'
DisplayStep ==
    (load' = NoLoad /\ status' = "ready" /\ route' = week' /\ ~late') =>
       \/ load = NoLoad /\ status = "ready" /\ route = week /\ ~late /\ week' = week /\ ver' = ver
       \/ week' = None
       \/ load.st = "answered" /\ load.ver # None /\ week' = load.plan /\ ver' = load.ver
       \/ patch.st = "answered" /\ Ended =< patch.ended /\ week' = patch.plan /\ ver' = patch.ver

\* The turns that are over stay as they are, and the tab settles one more only
\* with a request for the plan of the URL.
LEMMA MenuKeeps ==
    ASSUME Inv3, Inv3', MenuInv, LoadStep, PatchStep, DisplayStep, cut \subseteq cut', Ended =< Ended',
           \A k \in Turns : (k =< cur' /\ k \notin cut' /\ ~(busy' /\ k = cur')) =>
              \/ Settled(k)
              \/ turn[k].pc = "over" /\ load'.st # "answered" /\ (load' = NoLoad => route' = None),
           \A k \in Turns : turn[k].pc = "over" => turn'[k] = turn[k]
    PROVE  MenuInv'
<1>1. /\ turn \in [Turns -> TurnType] /\ version \in [Plans -> Nat] /\ ver \in Nat /\ ver' \in Nat
      /\ cur \in Nat /\ Ended \in Nat /\ Ended' \in Nat /\ patch.ended \in Nat /\ patch'.ended \in Nat
      /\ patch'.ver \in Nat
  <2>1. TabTypeOK /\ TabTypeOK' /\ turn \in [Turns -> TurnType] /\ version \in [Plans -> Nat]
    BY DEF Inv3, TInv, CInv, ServerTypeOK
  <2>2. ver \in Nat /\ ver' \in Nat /\ cur \in {0} \cup Turns /\ cur' \in {0} \cup Turns
    BY <2>1 DEF TabTypeOK
  <2>3. cur \in Nat
    BY <2>2 DEF Turns
  <2>4. Ended \in Nat /\ Ended' \in Nat /\ patch.ended \in Nat /\ patch'.ended \in Nat /\ patch'.ver \in Nat
    BY <2>1, PatchFields
  <2> QED  BY <2>1, <2>2, <2>3, <2>4
<1>2. ASSUME NEW k \in Turns, Settled(k)'
      PROVE  /\ turn[k].pc = "over" /\ turn'[k] = turn[k] /\ Seen(turn[k], version)
             /\ \/ Settled(k)
                \/ turn[k].pc = "over" /\ load'.st # "answered" /\ (load' = NoLoad => route' = None)
  <2>1. \/ Settled(k)
        \/ turn[k].pc = "over" /\ load'.st # "answered" /\ (load' = NoLoad => route' = None)
    BY <1>2 DEF Settled
  <2>2. turn[k].pc = "over"
    BY <2>1 DEF MenuInv
  <2> QED  BY <2>1, <2>2 DEF SeenInv, Inv3
<1>3. patch'.ended =< Ended'
  BY <1>1 DEF PatchStep, MenuInv
<1>4. ASSUME patch'.st = "answered", NEW k \in Turns, Settled(k)', k =< patch'.ended, turn'[k].plan = patch'.plan
      PROVE  turn'[k].ver =< patch'.ver
  <2>1. CASE patch' = patch
    <3>1. k =< cur /\ ~(busy /\ k = cur)
      BY <1>1, <1>4, <2>1 DEF MenuInv, Ended, Turns
    <3>2. Settled(k)
      BY <1>4, <3>1 DEF Settled
    <3> QED  BY <1>2, <1>4, <2>1, <3>2 DEF MenuInv
  <2>2. CASE patch'.st # "answered" /\ patch'.ended = 0
    BY <1>4, <2>2
  <2>3. CASE /\ patch'.plan \in Plans /\ version[patch'.plan] # None /\ version[patch'.plan] =< patch'.ver
             /\ patch'.ended = Ended'
    <3>1. Seen(turn[k], version) /\ turn[k].plan = patch'.plan /\ turn'[k] = turn[k]
      BY <1>2, <1>4
    <3>2. turn[k].ver =< version[patch'.plan]
      BY <2>3, <3>1 DEF Seen, None
    <3>3. turn[k].ver \in Nat /\ version[patch'.plan] \in Nat
      BY <1>1, <2>3 DEF TurnType
    <3> QED  BY <1>1, <2>3, <3>1, <3>2, <3>3
  <2> QED  BY <2>1, <2>2, <2>3 DEF PatchStep
<1>5. ASSUME NEW k \in Turns, Settled(k)', load'.st = "answered", turn'[k].plan = load'.plan
      PROVE  load'.ver = None \/ turn'[k].ver =< load'.ver
  <2>1. CASE load' = load
    BY <1>2, <1>5, <2>1 DEF MenuInv
  <2>2. CASE load'.ver = version[load'.plan] /\ load'.plan \in Plans
    BY <1>2, <1>5, <2>2 DEF Seen, None
  <2> QED  BY <1>5, <2>1, <2>2 DEF LoadStep
<1>6. ASSUME NEW k \in Turns, Settled(k)', load' = NoLoad, status' = "ready", route' = week', ~late',
             turn'[k].plan = week'
      PROVE  turn'[k].ver =< ver'
  <2>1. CASE week' = None
    <3>1. turn'[k].ver = None
      BY <1>2, <1>6, <2>1 DEF Seen
    <3> QED  BY <1>1, <3>1 DEF None
  <2>2. CASE week' # None
    <3>1. Settled(k) /\ turn'[k] = turn[k]
      BY <1>2, <1>6, <2>2
    <3>2. CASE load = NoLoad /\ status = "ready" /\ route = week /\ ~late /\ week' = week /\ ver' = ver
      BY <1>6, <3>1, <3>2 DEF MenuInv
    <3>3. CASE load.st = "answered" /\ load.ver # None /\ week' = load.plan /\ ver' = load.ver
      BY <1>6, <3>1, <3>3 DEF MenuInv
    <3>4. CASE patch.st = "answered" /\ Ended =< patch.ended /\ week' = patch.plan /\ ver' = patch.ver
      <4>1. k =< Ended
        BY <1>1, <3>1 DEF Settled, Ended, Turns
      <4>2. k =< patch.ended
        BY <1>1, <3>4, <4>1 DEF Turns
      <4> QED  BY <1>6, <3>1, <3>4, <4>2 DEF MenuInv
    <3> QED  BY <1>6, <2>2, <3>2, <3>3, <3>4 DEF DisplayStep
  <2> QED  BY <2>1, <2>2
<1>7. load' # NoLoad => load'.plan = route'
  BY DEF LoadStep
<1>8. \A k \in Turns : Settled(k)' => turn'[k].pc = "over"
  BY <1>2
<1> QED  BY <1>3, <1>4, <1>5, <1>6, <1>7, <1>8 DEF MenuInv

LEMMA MenuNext ==
    ASSUME Inv3, Inv3', MenuInv, [Next]_vars
    PROVE  MenuInv'
<1> DEFINE Same == \A k \in Turns : turn[k].pc = "over" => turn'[k] = turn[k]
<1>1. turn \in [Turns -> TurnType] /\ TabTypeOK /\ StreamInv /\ CInv
  BY DEF Inv3, TInv, CInv, ServerTypeOK
<1>2. turn' = turn => Same
  OBVIOUS
\* A step that settles no turn.
<1>3. ASSUME Same, UNCHANGED <<cur, busy>>, cut \subseteq cut', LoadStep, PatchStep, DisplayStep
      PROVE  MenuInv'
  <2>1. \A k \in Turns : (k =< cur' /\ k \notin cut' /\ ~(busy' /\ k = cur')) => Settled(k)
    BY <1>3 DEF Settled
  <2>2. Ended =< Ended'
    BY <1>1, <1>3 DEF Ended, TabTypeOK, Turns
  <2> QED  BY <1>3, <2>1, <2>2, MenuKeeps
\* One that leaves the plan alone, or asks for it again.
<1>4. ASSUME Same, UNCHANGED <<cur, busy, route, week, ver, status, late>>, cut \subseteq cut', PatchStep,
             load' = load \/ load' = Reload(route)
      PROVE  MenuInv'
  <2>1. load' # NoLoad => load'.plan = route
    BY <1>4 DEF MenuInv, Reload, Ask
  <2>2. load'.st = "answered" => load' = load
    BY <1>4 DEF Reload, Ask, NoLoad
  <2>3. DisplayStep
    BY <1>4 DEF DisplayStep, Reload, Ask, NoLoad
  <2> QED  BY <1>3, <1>4, <2>1, <2>2, <2>3 DEF LoadStep
\* The end of a turn.
<1>5. ASSUME turn' = turn, turn[cur].pc = "over" \/ cur \in cut', busy' = FALSE, cut \subseteq cut',
             load' = Reload(route), UNCHANGED <<cur, route, week, ver, status, patch, late>>
      PROVE  MenuInv'
  <2>1. LoadStep /\ DisplayStep /\ PatchStep
    BY <1>5 DEF LoadStep, DisplayStep, PatchStep, Reload, Ask, NoLoad
  <2>2. load'.st # "answered" /\ (load' = NoLoad => route = None)
    BY <1>5 DEF Reload, Ask, NoLoad
  <2>3. \A k \in Turns : (k =< cur' /\ k \notin cut' /\ ~(busy' /\ k = cur')) =>
           \/ Settled(k)
           \/ turn[k].pc = "over" /\ load'.st # "answered" /\ (load' = NoLoad => route' = None)
    BY <1>5, <2>2 DEF Settled
  <2>4. Ended =< Ended'
    BY <1>1, <1>5 DEF Ended, TabTypeOK, Turns
  <2> QED  BY <1>5, <2>1, <2>3, <2>4, MenuKeeps
<1> HIDE DEF Same
<1>6. CASE Hear
  <2>1. turn' = turn
    BY <1>6 DEF Hear, HearMeta, HearText, HearCall, HearResult, HearError, HearEnd, HearFailure,
         Hears, Reads
  <2>2. CASE HearMeta \/ HearText \/ HearCall \/ HearResult \/ HearError
    <3>1. /\ UNCHANGED <<cur, busy, route, week, ver, status, cut, late>> /\ PatchStep
          /\ load' = load \/ load' = Reload(route)
      BY <2>2 DEF HearMeta, HearText, HearCall, HearResult, HearError, PatchStep
    <3> QED  BY <1>2, <1>4, <2>1, <3>1
  <2>3. CASE HearEnd \/ HearFailure
    <3>1. /\ busy' = FALSE /\ load' = Reload(route)
          /\ UNCHANGED <<cur, route, week, ver, status, patch, late>> /\ cut \subseteq cut'
      BY <2>3 DEF HearEnd, HearFailure, TurnEnds
    <3>2. turn[cur].pc = "over" \/ cur \in cut'
      <4>1. /\ busy /\ wire[cur] # <<>>
            /\ Head(wire[cur]).kind \in {"end", "refused"} \/ cur \in cut'
        BY <2>3 DEF HearEnd, HearFailure, Hears, Heard
      <4>2. cur \in Turns /\ wire[cur] \in Seq(EventType)
        BY <1>1, <4>1 DEF TabTypeOK, CInv, ServerTypeOK
      <4>3. 1 \in 1..Len(wire[cur]) /\ wire[cur][1] = Head(wire[cur])
        BY <4>1, <4>2
      <4> QED  BY <1>1, <4>1, <4>2, <4>3 DEF StreamInv, Stream
    <3> QED  BY <1>5, <2>1, <3>1, <3>2
  <2> QED  BY <1>6, <2>2, <2>3 DEF Hear
<1>7. CASE Cancel
  <2>1. /\ turn' = turn /\ cur \in cut' /\ busy' = FALSE /\ cut \subseteq cut' /\ load' = Reload(route)
        /\ UNCHANGED <<cur, route, week, ver, status, patch, late>>
    BY <1>7 DEF Cancel, HangUp, TurnEnds
  <2> QED  BY <1>5, <2>1
<1>8. CASE Send
  <2>1. cur + 1 \in Turns /\ turn[cur + 1].pc = "none" /\ \A k \in Turns : k # cur + 1 => turn'[k] = turn[k]
    BY <1>1, <1>8 DEF Send, Post, TabTypeOK, Turns
  <2>2. Same
    BY <2>1 DEF Same
  <2>3. \A k \in Turns : (k =< cur' /\ k \notin cut' /\ ~(busy' /\ k = cur')) => Settled(k)
    BY <1>1, <1>8 DEF Send, Settled, TabTypeOK, Turns
  <2>4. UNCHANGED <<load, route, week, ver, status, cut, patch, late>>
    BY <1>8 DEF Send
  <2>5. LoadStep /\ DisplayStep /\ PatchStep
    BY <2>4 DEF LoadStep, DisplayStep, PatchStep, MenuInv
  <2>6. Ended =< Ended'
    BY <1>1, <1>8 DEF Send, Ended, TabTypeOK, Turns
  <2> QED  BY <2>2, <2>3, <2>4, <2>5, <2>6, MenuKeeps DEF Same
<1>9. CASE Refresh \/ ServeFill \/ GotFill \/ Clear \/ ServeClear \/ Cleared
           \/ Patch \/ PatchFails \/ \E p \in Plans : DeleteElsewhere(p)
  <2>1. turn' = turn /\ UNCHANGED <<cur, busy, cut, route, week, ver, status, late>>
        /\ (load' = load \/ load' = Reload(route))
    BY <1>9 DEF Refresh, ServeFill, GotFill, Clear, ServeClear, Cleared, DeleteElsewhere, Unseen,
         DeleteConversations, DeletePlan, Patch, PatchFails, serverVars
  <2>2. patch' = patch \/ (patch'.st # "answered" /\ patch'.ended = 0)
    <3>1. CASE Patch
      BY <3>1 DEF Patch, NoPatch
    <3>2. CASE PatchFails
      BY <3>2 DEF PatchFails, NoPatch
    <3> QED
      BY <1>9, <3>1, <3>2 DEF Refresh, ServeFill, GotFill, Clear, ServeClear, Cleared, DeleteElsewhere
  <2> QED  BY <1>2, <1>4, <2>1, <2>2 DEF PatchStep
<1>10. CASE (\E k \in Turns : ServerRuns(k)) \/ ServerDies
  <2>1. UNCHANGED tabVars /\ (Crash \/ \E k \in Turns : ServerStep(k))
    BY <1>10 DEF ServerRuns, ServerDies
  <2>2. Same
    BY <1>1, <2>1, OverStays DEF Same
  <2> QED  BY <1>4, <2>1, <2>2 DEF tabVars, PatchStep
<1>11. CASE \E r \in {None} \cup Plans : Go(r)
  <2>1. PICK r \in {None} \cup Plans : Go(r)
    BY <1>11
  <2>2. /\ turn' = turn /\ UNCHANGED <<cur, busy, cut, week, ver, patch>> /\ route' = r /\ load' = Reload(r)
    BY <2>1 DEF Go, Unseen
  <2>3. (load' # NoLoad => load'.plan = r) /\ load'.st # "answered" /\ (load' = NoLoad => r = None)
    BY <2>2 DEF Reload, Ask, NoLoad
  <2> QED  BY <1>2, <1>3, <2>2, <2>3 DEF LoadStep, DisplayStep, PatchStep
<1>12. CASE ServeLoad
  <2>1. /\ turn' = turn /\ UNCHANGED <<cur, busy, cut, route, week, ver, status, patch>> /\ load.st = "asked"
        /\ load' = [load EXCEPT !.st = "answered", !.ver = version[load.plan]]
    BY <1>12 DEF ServeLoad, serverVars
  <2>2. load # NoLoad /\ load \in [st : {"asked", "answered"}, plan : Plans, ver : Nat]
    BY <1>1, <2>1 DEF TabTypeOK, NoLoad
  <2>3. load' # NoLoad /\ load'.plan = route /\ load'.ver = version[load'.plan] /\ load'.plan \in Plans
    BY <2>1, <2>2 DEF MenuInv, NoLoad
  <2> QED  BY <1>2, <1>3, <2>1, <2>3 DEF LoadStep, DisplayStep, PatchStep
<1>13. CASE GotLoad
  <2>1. /\ turn' = turn /\ UNCHANGED <<cur, busy, cut, route, patch>> /\ load.st = "answered" /\ load.ver # None
        /\ week' = load.plan /\ ver' = load.ver /\ load' \in {NoLoad, Ask(load.plan)}
    BY <1>13 DEF GotLoad, serverVars
  <2>2. load # NoLoad
    BY <2>1 DEF NoLoad
  <2>3. (load' # NoLoad => load'.plan = route) /\ load'.st # "answered"
    BY <2>1, <2>2 DEF MenuInv, Ask, NoLoad
  <2> QED  BY <1>2, <1>3, <2>1, <2>3 DEF LoadStep, DisplayStep, PatchStep
<1>14. CASE NotLoaded
  <2>1. turn' = turn /\ UNCHANGED <<cur, busy, cut, route, week, ver, patch>> /\ load' = NoLoad
        /\ status' = "error"
    BY <1>14 DEF NotLoaded, serverVars, Unseen
  <2> QED  BY <1>2, <1>3, <2>1 DEF NoLoad, LoadStep, DisplayStep, PatchStep
<1>15. CASE DeleteShown
  <2>1. turn' = turn /\ UNCHANGED <<cur, busy, cut, ver, patch>> /\ load' = NoLoad /\ week' = None
    BY <1>15 DEF DeleteShown, DeletePlan
  <2> QED  BY <1>2, <1>3, <2>1 DEF NoLoad, LoadStep, DisplayStep, PatchStep
<1>16. CASE UNCHANGED vars
  BY <1>2, <1>4, <1>16 DEF vars, tabVars, serverVars, PatchStep
<1>17. CASE ServePatch
  <2>1. /\ turn' = turn /\ UNCHANGED <<cur, busy, cut, route, week, ver, status, load, late>>
        /\ patch.st = "asked" /\ PatchPlan(patch.plan)
        /\ patch' = [patch EXCEPT !.st = "answered", !.ver = version'[patch.plan], !.ended = Ended]
    BY <1>17 DEF ServePatch, PatchPlan
  <2>2. patch \in [st : {"asked", "answered"}, plan : Plans, ver : Nat, ended : Nat]
    BY <1>1, <2>1 DEF TabTypeOK, NoPatch
  <2>3. /\ patch'.plan = patch.plan /\ patch.plan \in Plans /\ patch'.ver = version'[patch.plan]
        /\ patch'.ended = Ended
    BY <2>1, <2>2
  <2>4. version[patch.plan] # None /\ version'[patch.plan] = version[patch.plan] + 1 /\ version[patch.plan] \in Nat
    BY <1>1, <2>1, <2>2 DEF PatchPlan, CInv, ServerTypeOK
  <2>5. Ended' = Ended
    BY <2>1 DEF Ended
  <2>6. PatchStep
    BY <2>3, <2>4, <2>5 DEF PatchStep
  <2> QED  BY <1>2, <1>4, <2>1, <2>6
<1>18. CASE GotPatch
  <2>1. /\ turn' = turn /\ UNCHANGED <<cur, busy, cut, route>> /\ patch.st = "answered" /\ patch' = NoPatch
        /\ week' = patch.plan /\ ver' = patch.ver /\ late' = (patch.ended < Ended)
        /\ load' = load \/ load' = Reload(route)
    BY <1>18 DEF GotPatch, serverVars
  <2>2. patch.ended \in Nat /\ Ended \in Nat
    <3>1. TabTypeOK /\ TabTypeOK'
      BY DEF Inv3, TInv
    <3> QED  BY <3>1, PatchFields
  <2>3. ~late' => Ended =< patch.ended
    <3>1. ~(patch.ended < Ended) => Ended =< patch.ended
      BY <2>2
    <3>2. late' = (patch.ended < Ended)
      BY <2>1
    <3> QED  BY <3>1, <3>2, Zenon
  <2>4. LoadStep
    BY <2>1 DEF LoadStep, MenuInv, Reload, Ask, NoLoad
  <2>5. PatchStep /\ DisplayStep
    BY <2>1, <2>3 DEF PatchStep, DisplayStep, NoPatch
  <2> QED  BY <1>2, <1>3, <2>1, <2>4, <2>5
<1> QED
  BY <1>6, <1>7, <1>8, <1>9, <1>10, <1>11, <1>12, <1>13, <1>14, <1>15, <1>16, <1>17, <1>18 DEF Next

\* Once the tab is idle and has its plan, the plan on display is not older than
\* any turn that ended (App.tsx:264-312), unless it is the answer of a PATCH that
\* was read before one of them ended and came after it (App.tsx:390): for any
\* number of turns, plans and events on their way, and any order of the answers.
THEOREM MenuIsFresh == Spec => []MenuFresh
<1>1. Init => MenuInv
  BY DEF Init, MenuInv, Settled, Turns, NoLoad, NoPatch, Ended
<1>2. Inv3 /\ Inv3' /\ MenuInv /\ [Next]_vars => MenuInv'
  BY MenuNext
<1>3. Inv3 /\ MenuInv => MenuFresh
  <2> SUFFICES ASSUME Inv3, MenuInv, ~busy, load = NoLoad, status = "ready", route = week, ~late,
                      NEW k \in 1..cur, k \notin cut, turn[k].plan = week
               PROVE  ver >= turn[k].ver
    BY DEF MenuFresh, AtRest, CoversTurns
  <2>1. k \in Turns /\ k =< cur /\ ver \in Nat
    BY DEF Inv3, TInv, TabTypeOK, Turns
  <2>2. turn[k].ver \in Nat
    BY <2>1 DEF Inv3, TInv, CInv, ServerTypeOK, TurnType
  <2>3. turn[k].ver =< ver
    BY <2>1 DEF MenuInv, Settled
  <2> QED  BY <2>1, <2>2, <2>3
<1> QED  BY <1>1, <1>2, <1>3, InvInv3, PTL DEF Spec

(***************************************************************************)
(* The cards of the tools.                                                 *)
(***************************************************************************)
\* The next event of a turn is the result of call n, or n is under way.
Waits(t, w, n) == IF w # <<>> THEN Answers(w[1], n) ELSE t.pc = "tool" /\ Calling(t) = n
Broken(w) == w # <<>> /\ w[1].kind = "broken"

Awaits(n) == busy /\ Waits(turn[cur], wire[cur], n)

\* A card has its result or never gets one; or the turn's next event brings it,
\* to its index, or says that the server is gone.
Settles(i) == entries[i].turn =< cur /\ (entries[i].result = entries[i].call
                                           \/ (entries[i].result = None /\ entries[i].turn \in cut))
Open(i) ==
    /\ busy /\ entries[i].turn = cur /\ entries[i].result = None
    /\ Broken(wire[cur]) \/ (Awaits(entries[i].call) /\ entries[i].call \in DOMAIN tools
                               /\ tools[entries[i].call] = i)
CardInv ==
    /\ \A i \in DOMAIN entries : entries[i].kind = "tool" => Settles(i) \/ Open(i)
    /\ \A n \in DOMAIN tools : (Awaits(n) /\ IsA("tool", tools[n])) => entries[tools[n]].call = n
    /\ hungup \subseteq 1..cur /\ (busy => cur \notin hungup)

\* A step of the server answers no call but the one that is under way.
LEMMA MovesWaits ==
    ASSUME NEW t, NEW u, NEW w \in Seq(EventType), NEW x, Moves(t, u, w, x, FALSE)
    PROVE  /\ \A n : Waits(t, w, n) <=> Waits(u, x, n)
           /\ Broken(w) => Broken(x)
<1>1. CASE x = w /\ t.pc # "tool" /\ u.pc # "tool"
  BY <1>1 DEF Waits, Broken
<1>2. ASSUME NEW e \in EventType, x = Append(w, e),
             \/ /\ t.pc # "tool" /\ u.pc # "tool" /\ e.kind \in Other
                /\ e.kind \in {"refused", "end"} => u.pc = "over"
             \/ t.pc # "tool" /\ u.pc = "tool" /\ e.kind = "call" /\ e.n = Calling(u)
             \/ t.pc = "tool" /\ u.pc # "tool" /\ Answers(e, Calling(t))
      PROVE  (\A n : Waits(t, w, n) <=> Waits(u, x, n)) /\ (Broken(w) => Broken(x))
  <2>1. x # <<>> /\ x[1] = IF w = <<>> THEN e ELSE w[1]
    BY <1>2
  <2>2. CASE w # <<>>
    BY <2>1, <2>2 DEF Waits, Broken
  <2>3. CASE w = <<>>
    BY <1>2, <2>1, <2>3 DEF Waits, Broken, Answers, Other
  <2> QED  BY <2>2, <2>3
<1> QED  BY <1>1, <1>2 DEF Moves

\* After an event other than a call no result is next.
LEMMA TailWaits ==
    ASSUME NEW t, NEW w \in Seq(EventType), Stream(t, w), w # <<>>
    PROVE  /\ w[1].kind # "call" => \A n : ~Waits(t, Tail(w), n)
           /\ w[1].kind = "call" => \/ Broken(Tail(w)) /\ \A n : ~Waits(t, Tail(w), n)
                                    \/ \A n : Waits(t, Tail(w), n) <=> n = w[1].n
<1>1. /\ Len(w) \in Nat /\ 1 \in 1..Len(w) /\ Len(Tail(w)) = Len(w) - 1
      /\ Tail(w) = <<>> => Len(w) = 1
      /\ Tail(w) # <<>> => 1 < Len(w) /\ 2 \in 1..Len(w) /\ Tail(w)[1] = w[2]
  <2> DEFINE n == Len(w)
             x == Tail(w)
  <2>1. /\ n \in Nat \ {0} /\ Len(x) = n - 1 /\ \A i \in 1..(n - 1) : x[i] = w[i + 1]
        /\ x # <<>> => n > 1
    BY HeadTailProperties
  <2> HIDE DEF n, x
  <2>2. x = <<>> => Len(x) = 0
    OBVIOUS
  <2>3. x # <<>> => 1 \in 1..(n - 1) /\ x[1] = w[1 + 1]
    BY <2>1
  <2>4. x = <<>> => n = 1
    BY <2>1, <2>2
  <2> QED  BY <2>1, <2>3, <2>4 DEF n, x
<1>2. CASE Tail(w) = <<>>
  BY <1>1, <1>2 DEF Stream, Waits
<1>3. CASE Tail(w) # <<>>
  <2>1. w[2].kind \in {"result", "news"} => w[1].kind = "call"
    <3>1. \A i \in 1..Len(w) : (i > 1 /\ w[i].kind \in {"result", "news"}) => w[i - 1].kind = "call"
      BY DEF Stream
    <3>2. 2 \in 1..Len(w) /\ 2 > 1 /\ 2 - 1 = 1
      BY <1>1, <1>3
    <3>3. w[2].kind \in {"result", "news"} => w[2 - 1].kind = "call"
      BY <3>1, <3>2
    <3> QED  BY <3>2, <3>3
  <2>2. w[1].kind = "call" => w[2].kind = "broken" \/ Answers(w[2], w[1].n)
    <3>1. \A i \in 1..Len(w) : (w[i].kind = "call" /\ i < Len(w))
             => w[i + 1].kind = "broken" \/ Answers(w[i + 1], w[i].n)
      BY DEF Stream
    <3>2. w[1].kind = "call" => w[1 + 1].kind = "broken" \/ Answers(w[1 + 1], w[1].n)
      BY <1>1, <1>3, <3>1
    <3>3. 1 + 1 = 2
      OBVIOUS
    <3> QED  BY <3>2, <3>3
  <2> QED  BY <1>1, <1>3, <2>1, <2>2 DEF Waits, Broken, Answers
<1> QED  BY <1>2, <1>3

\* What is next for a turn decides about the cards.
LEMMA CardsKeep ==
    ASSUME CardInv, UNCHANGED <<entries, cut, busy, cur, tools, hungup>>,
           busy => /\ \A n : Waits(turn[cur], wire[cur], n) <=> Waits(turn'[cur], wire'[cur], n)
                   /\ Broken(wire[cur]) => Broken(wire'[cur])
    PROVE  CardInv'
<1>1. \A n : Awaits(n) <=> Awaits(n)'
  BY DEF Awaits
<1>2. \A i : (Settles(i) => Settles(i)') /\ (Open(i) => Open(i)')
  BY <1>1 DEF Settles, Open
<1>3. \A i : IsA("tool", i)' = IsA("tool", i)
  BY DEF IsA
<1> QED  BY <1>1, <1>2, <1>3 DEF CardInv

\* A turn for which no result is next, or no turn: the cards are settled, and
\* stay so while the cards stay as they are.
LEMMA CardsSettled ==
    ASSUME CardInv, ~busy \/ (~Broken(wire[cur]) /\ \A n : ~Waits(turn[cur], wire[cur], n))
    PROVE  \A i \in DOMAIN entries : entries[i].kind = "tool" => Settles(i)
BY DEF CardInv, Open, Awaits

LEMMA CardsClosed ==
    ASSUME CardInv, cur' >= cur, cur \in Nat, cur' \in Nat, cut \subseteq cut', entries \in Seq(EntryType),
           hungup' \subseteq 1..cur', busy' => cur' \notin hungup',
           \A n : ~Awaits(n)',
           \A i \in DOMAIN entries' : entries'[i].kind = "tool" =>
              i \in DOMAIN entries /\ entries'[i] = entries[i] /\ Settles(i)
    PROVE  CardInv'
<1> SUFFICES ASSUME NEW i \in DOMAIN entries', entries'[i].kind = "tool"
             PROVE  Settles(i)'
  BY DEF CardInv
<1>1. i \in DOMAIN entries /\ entries'[i] = entries[i] /\ Settles(i)
  OBVIOUS
<1>2. entries[i].turn \in Nat
  <2>1. entries[i] \in EntryType
    BY <1>1
  <2>2. entries[i].turn \in Turns
    BY <2>1 DEF EntryType
  <2> QED  BY <2>2 DEF Turns
<1> QED  BY <1>1, <1>2 DEF Settles

LEMMA CardNext ==
    ASSUME Inv3, Inv3', CardInv, [Next]_vars
    PROVE  CardInv'
<1>1. /\ turn \in [Turns -> TurnType] /\ wire \in [Turns -> Seq(EventType)] /\ CInv /\ StreamInv /\ TabTypeOK
      /\ entries \in Seq(EntryType) /\ cur \in {0} \cup Turns /\ cur \in Nat /\ cut \subseteq Turns
      /\ (busy => cur \in Turns /\ cur \in 1..cur) /\ hungup \subseteq Turns /\ busy \in BOOLEAN
  <2>1. CInv /\ TabTypeOK /\ StreamInv
    BY DEF Inv3, TInv
  <2>2. cur \in {0} \cup Turns /\ (busy => cur # 0)
    BY <2>1 DEF TabTypeOK
  <2>3. cur \in Nat /\ (busy => cur \in Turns /\ cur \in 1..cur)
    BY <2>2 DEF Turns
  <2> QED  BY <2>1, <2>2, <2>3 DEF CInv, ServerTypeOK, TabTypeOK
<1>2. hungup \subseteq 1..cur /\ (busy => cur \notin hungup)
  BY DEF CardInv
\* An entry more, which is no card, and no result next.
<1>3. ASSUME NEW e, entries' = Append(entries, e), e.kind # "tool", cur' >= cur, cur' \in Nat,
             cut \subseteq cut', hungup' \subseteq 1..cur', busy' => cur' \notin hungup', \A n : ~Awaits(n)',
             \A i \in DOMAIN entries : entries[i].kind = "tool" => Settles(i)
      PROVE  CardInv'
  <2>1. \A i \in DOMAIN entries' : entries'[i].kind = "tool" =>
           i \in DOMAIN entries /\ entries'[i] = entries[i] /\ Settles(i)
    BY <1>1, <1>3
  <2> QED  BY <1>1, <1>3, <2>1, CardsClosed
<1>4. CASE \E k \in Turns : ServerRuns(k)
  <2>1. PICK k \in Turns : ServerStep(k) /\ UNCHANGED tabVars
    BY <1>4 DEF ServerRuns
  <2>2. /\ Moves(turn[k], turn'[k], wire[k], wire'[k], k \in hungup)
        /\ \A j \in Turns : j # k => turn'[j] = turn[j] /\ wire'[j] = wire[j]
        /\ hungup' = hungup
    BY <1>1, <2>1, StepMoves
  <2>3. ASSUME busy
        PROVE  /\ \A n : Waits(turn[cur], wire[cur], n) <=> Waits(turn'[cur], wire'[cur], n)
               /\ Broken(wire[cur]) => Broken(wire'[cur])
    <3>1. CASE k = cur
      <4>1. Moves(turn[k], turn'[k], wire[k], wire'[k], FALSE) /\ wire[k] \in Seq(EventType)
        BY <1>1, <1>2, <2>2, <2>3, <3>1 DEF Moves
      <4> QED  BY <3>1, <4>1, MovesWaits
    <3>2. CASE k # cur
      BY <1>1, <2>2, <2>3, <3>2
    <3> QED  BY <3>1, <3>2
  <2> QED  BY <2>1, <2>2, <2>3, CardsKeep DEF tabVars
<1>5. CASE ServerDies
  <2>1. UNCHANGED tabVars /\ hungup' = hungup
    BY <1>5 DEF ServerDies, Crash
  <2>2. CASE ~busy
    BY <2>1, <2>2, CardsKeep DEF tabVars
  <2>3. CASE busy /\ ~Active(cur)
    <3>1. turn'[cur] = turn[cur] /\ wire'[cur] = wire[cur]
      BY <1>1, <1>5, <2>3 DEF ServerDies, Crash
    <3> QED  BY <2>1, <3>1, CardsKeep DEF tabVars
  <2>4. CASE busy /\ Active(cur)
    <3> DEFINE e == Event("broken", None)
    <3>1. wire'[cur] = Append(wire[cur], e) /\ e.kind = "broken" /\ turn'[cur] = Over(cur, FALSE)
      BY <1>1, <1>2, <1>5, <2>4 DEF ServerDies, Crash, Event
    <3> HIDE DEF e
    <3>2. CASE wire[cur] # <<>>
      <4>1. wire'[cur] # <<>> /\ wire'[cur][1] = wire[cur][1]
        BY <1>1, <2>4, <3>1, <3>2
      <4> QED  BY <2>1, <3>2, <4>1, CardsKeep DEF tabVars, Waits, Broken
    <3>3. CASE wire[cur] = <<>>
      <4>1. wire'[cur] # <<>> /\ wire'[cur][1] = e
        BY <1>1, <2>4, <3>1, <3>3
      <4>2. Broken(wire'[cur]) /\ \A n : ~Awaits(n)'
        BY <2>1, <3>1, <4>1 DEF tabVars, Broken, Awaits, Waits, Answers
      <4>3. \A i : (Settles(i) => Settles(i)') /\ (Open(i) => Open(i)')
        BY <2>1, <4>2 DEF tabVars, Settles, Open
      <4> QED  BY <2>1, <4>2, <4>3 DEF CardInv, tabVars
    <3> QED  BY <3>2, <3>3
  <2> QED  BY <2>2, <2>3, <2>4
<1>6. CASE Send
  <2>1. /\ ~busy /\ cur' = cur + 1 /\ cut' = cut /\ hungup' = hungup /\ tools' = <<>>
        /\ entries' = Append(entries, Line("user", cur + 1))
    BY <1>6 DEF Send, Post
  <2>2. Line("user", cur + 1).kind = "user"
    BY DEF Line
  <2>3. \A i \in DOMAIN entries : entries[i].kind = "tool" => Settles(i)
    BY <2>1, CardsSettled
  <2>4. wire'[cur'] = <<>> /\ turn'[cur'].pc = "begin"
    <3>1. cur + 1 \in Turns
      BY <1>1, <1>6 DEF Send, Turns
    <3>2. turn[cur + 1].pc = "none" /\ wire' = wire /\ turn' = [turn EXCEPT ![cur + 1] = Request(week, conv)]
      BY <1>6 DEF Send, Post
    <3> QED  BY <1>1, <2>1, <3>1, <3>2 DEF StreamInv, Stream, Request
  <2>5. \A n : ~Awaits(n)'
    BY <2>4 DEF Awaits, Waits
  <2>6. hungup' \subseteq 1..cur' /\ cur' \notin hungup' /\ cur' >= cur /\ cur' \in Nat
    BY <1>1, <1>2, <2>1
  <2> QED  BY <1>3, <2>1, <2>2, <2>3, <2>5, <2>6
<1>7. CASE Cancel
  <2>1. /\ busy' = FALSE /\ cut' = cut \cup {cur} /\ cur' = cur /\ busy /\ hungup' = hungup \cup {cur}
        /\ entries' = Append(entries, Line("cancelled", cur)) /\ tools' = tools
    BY <1>7 DEF Cancel, HangUp, TurnEnds
  <2>2. Line("cancelled", cur).kind = "cancelled"
    BY DEF Line
  <2>3. ASSUME NEW i \in DOMAIN entries', entries'[i].kind = "tool" PROVE Settles(i)'
    <3>1. i \in DOMAIN entries /\ entries'[i] = entries[i]
      BY <1>1, <2>1, <2>2, <2>3
    <3>2. Settles(i) \/ Open(i)
      BY <2>3, <3>1 DEF CardInv
    <3> QED  BY <1>1, <2>1, <3>1, <3>2 DEF Settles, Open
  <2>4. hungup' \subseteq 1..cur'
    BY <1>1, <1>2, <2>1
  <2>5. \A n : ~Awaits(n)'
    BY <2>1 DEF Awaits
  <2>6. busy' => cur' \notin hungup'
    BY <2>1
  <2> QED  BY <2>3, <2>4, <2>5, <2>6 DEF CardInv
<1>8. ASSUME entries' = <<>> \/ (\A i \in DOMAIN entries' : entries'[i].kind # "tool"),
             UNCHANGED <<cut, busy, cur, tools, hungup>>
      PROVE  CardInv'
  <2>1. \A i : ~IsA("tool", i)'
    BY <1>8 DEF IsA
  <2>2. \A i \in DOMAIN entries' : entries'[i].kind # "tool"
    BY <1>8
  <2> QED  BY <1>2, <1>8, <2>1, <2>2 DEF CardInv
<1>9. CASE Cleared \/ DeleteShown
  <2>1. entries' = <<>> /\ UNCHANGED <<cut, busy, cur, tools, hungup>>
    BY <1>9 DEF Cleared, DeleteShown, DeletePlan, serverVars
  <2> QED  BY <1>8, <2>1
<1>10. CASE GotFill
  <2>1. UNCHANGED <<cut, busy, cur, tools, hungup>>
    BY <1>10 DEF GotFill, serverVars
  <2>2. entries' = <<>> \/ entries' = [i \in DOMAIN fill.log |-> Shown(fill.log[i])]
    BY <1>10 DEF GotFill
  <2>3. \A r : Shown(r).kind # "tool"
    BY DEF Shown, Line, Words
  <2> QED  BY <1>8, <2>1, <2>2, <2>3
<1>11. CASE \/ Refresh \/ ServeLoad \/ GotLoad \/ NotLoaded \/ ServeFill \/ Clear \/ ServeClear
            \/ (\E r \in {None} \cup Plans : Go(r)) \/ (\E p \in Plans : DeleteElsewhere(p))
            \/ Patch \/ ServePatch \/ GotPatch \/ PatchFails \/ UNCHANGED vars
  <2>1. UNCHANGED <<entries, cut, busy, cur, tools, hungup, turn, wire>>
    BY <1>11 DEF Refresh, ServeLoad, GotLoad, NotLoaded, ServeFill, Clear, ServeClear, Go,
         Patch, ServePatch, GotPatch, PatchFails, PatchPlan, DeleteElsewhere, Unseen, DeleteConversations, DeletePlan, serverVars, tabVars, vars
  <2> QED  BY <2>1, CardsKeep
<1>12. CASE Hear
  <2> DEFINE w == wire[cur]
             n == w[1].n
  <2>1. /\ busy /\ w # <<>> /\ wire' = [wire EXCEPT ![cur] = Tail(@)] /\ turn' = turn /\ hungup' = hungup
        /\ cur' = cur
    BY <1>12 DEF Hear, HearMeta, HearText, HearCall, HearResult, HearError, HearEnd, HearFailure,
         Hears, Reads
  <2>2. w \in Seq(EventType) /\ Stream(turn[cur], w) /\ Head(w) = w[1] /\ cur \in Turns
    BY <1>1, <2>1 DEF StreamInv
  <2>3. wire'[cur'] = Tail(w) /\ turn'[cur'] = turn[cur]
    BY <1>1, <2>1, <2>2
  <2>4. hungup' \subseteq 1..cur' /\ cur' \notin hungup' /\ cur' >= cur /\ cur' \in Nat
    BY <1>1, <1>2, <2>1
  <2>5. Heard = w[1]
    BY <2>2 DEF Heard
  <2> HIDE DEF w, n
  <2>6. w[1].kind # "call" => \A m : ~Awaits(m)'
    BY <2>1, <2>2, <2>3, TailWaits DEF Awaits
  <2>7. ASSUME w[1].kind \notin {"result", "news", "broken"}
        PROVE  \A i \in DOMAIN entries : entries[i].kind = "tool" => Settles(i)
    <3>1. ~Broken(wire[cur]) /\ \A m : ~Waits(turn[cur], wire[cur], m)
      BY <2>1, <2>7 DEF Broken, Waits, Answers, w
    <3> QED  BY <3>1, CardsSettled
  <2>8. CASE HearMeta
    <3>1. w[1].kind = "meta" /\ entries' = entries /\ cut' = cut
      BY <2>5, <2>8 DEF HearMeta, Hears, Heard
    <3> QED  BY <1>1, <2>4, <2>6, <2>7, <3>1, CardsClosed
  <2>9. CASE HearEnd
    <3>1. w[1].kind = "end" /\ entries' = entries /\ cut' = cut
      BY <2>5, <2>9 DEF HearEnd, Hears, Heard
    <3> QED  BY <1>1, <2>4, <2>6, <2>7, <3>1, CardsClosed
  <2>10. CASE HearError
    <3>1. w[1].kind = "error" /\ entries' = Append(entries, Line("error", cur)) /\ cut' = cut
      BY <2>5, <2>10 DEF HearError, Hears, Heard
    <3>2. Line("error", cur).kind = "error"
      BY DEF Line
    <3> QED  BY <1>3, <2>4, <2>6, <2>7, <3>1, <3>2
  <2>11. CASE HearText
    <3>1. w[1].kind = "text" /\ cut' = cut
      BY <2>5, <2>11 DEF HearText, Hears, Heard
    <3>2. \A k, s : Words(k, s).kind = "assistant"
      BY DEF Words, Line
    <3>3. CASE IsA("assistant", at)
      <4> DEFINE s == Append(entries[at].text, <<cur, Heard.n>>)
      <4>1. entries' = [entries EXCEPT ![at].text = s] /\ at \in DOMAIN entries /\ entries[at].kind = "assistant"
        BY <2>11, <3>3 DEF HearText, IsA
      <4> HIDE DEF s
      <4>2. \A i \in DOMAIN entries : entries[i] \in EntryType
        BY <1>1
      <4>3. DOMAIN entries' = DOMAIN entries /\ entries'[at].kind = "assistant"
            /\ \A i \in DOMAIN entries : i # at => entries'[i] = entries[i]
        BY <1>1, <4>1, <4>2 DEF EntryType
      <4>4. \A i \in DOMAIN entries' : entries'[i].kind = "tool" =>
               i \in DOMAIN entries /\ entries'[i] = entries[i] /\ Settles(i)
        BY <2>7, <3>1, <4>3
      <4> QED  BY <1>1, <2>4, <2>6, <3>1, <4>4, CardsClosed
    <3>4. CASE ~IsA("assistant", at)
      <4>1. entries' = Append(entries, Words(cur, <<<<cur, Heard.n>>>>))
        BY <2>11, <3>4 DEF HearText
      <4> QED  BY <1>3, <2>4, <2>6, <2>7, <3>1, <3>2, <4>1
    <3> QED  BY <3>3, <3>4
  <2>12. CASE HearFailure
    <3>1. /\ w[1].kind \in {"refused", "broken"} /\ entries' = Append(entries, Line("error", cur))
          /\ cut' = IF w[1].kind = "broken" THEN cut \cup {cur} ELSE cut
          /\ busy' = FALSE
      BY <2>5, <2>12 DEF HearFailure, Hears, Heard, TurnEnds
    <3>2. Line("error", cur).kind = "error"
      BY DEF Line
    <3>3. CASE w[1].kind = "refused"
      BY <1>3, <2>4, <2>6, <2>7, <3>1, <3>2, <3>3
    <3>4. CASE w[1].kind = "broken"
      <4>1. ASSUME NEW i \in DOMAIN entries', entries'[i].kind = "tool" PROVE Settles(i)'
        <5>1. i \in DOMAIN entries /\ entries'[i] = entries[i]
          BY <1>1, <3>1, <3>2, <4>1
        <5>2. Settles(i) \/ Open(i)
          BY <4>1, <5>1 DEF CardInv
        <5>3. entries[i].turn =< cur /\ cur' = cur
          BY <1>1, <2>1, <5>2 DEF Settles, Open
        <5>4. \/ entries[i].result = entries[i].call
              \/ entries[i].result = None /\ entries[i].turn \in cut'
          BY <3>1, <3>4, <5>2 DEF Settles, Open
        <5> QED  BY <5>1, <5>3, <5>4 DEF Settles
      <4>2. \A m : ~Awaits(m)'
        BY <3>1 DEF Awaits
      <4> QED  BY <2>4, <4>1, <4>2 DEF CardInv
    <3> QED  BY <3>1, <3>3, <3>4
  <2>13. CASE HearCall
    <3> DEFINE z == Len(entries) + 1
               c == Card(cur, n)
    <3>1. /\ w[1].kind = "call" /\ entries' = Append(entries, c) /\ cut' = cut /\ busy' = busy
          /\ tools' = [m \in DOMAIN tools \cup {n} |-> IF m = n THEN z ELSE tools[m]]
      BY <2>5, <2>13 DEF HearCall, Hears, Heard, Indexed, n
    <3>2. c.turn = cur /\ c.result = None /\ c.call = n /\ c.kind = "tool"
      BY DEF Card, Line
    <3> HIDE DEF c
    <3>3. /\ DOMAIN entries' = 1..z /\ entries'[z] = c /\ z \in 1..z /\ Len(entries) \in Nat
          /\ \A i \in 1..Len(entries) : entries'[i] = entries[i]
          /\ DOMAIN entries = 1..Len(entries)
      BY <1>1, <3>1
    <3>4. n \in DOMAIN tools' /\ tools'[n] = z
      BY <3>1
    <3>5. \/ Broken(wire'[cur']) /\ \A m : ~Waits(turn'[cur'], wire'[cur'], m)
          \/ \A m : Waits(turn'[cur'], wire'[cur'], m) <=> m = n
      BY <2>2, <2>1, <2>3, <3>1, TailWaits DEF n
    <3> HIDE DEF z
    <3>6. ASSUME NEW i \in DOMAIN entries', entries'[i].kind = "tool" PROVE Settles(i)' \/ Open(i)'
      <4>1. CASE i = z
        BY <2>1, <3>1, <3>2, <3>3, <3>4, <3>5, <4>1 DEF Open, Awaits
      <4>2. CASE i # z
        <5>1. i \in DOMAIN entries /\ entries'[i] = entries[i]
          BY <3>3, <3>6, <4>2 DEF z
        <5>2. Settles(i)
          BY <2>7, <3>1, <3>6, <5>1
        <5> QED  BY <2>1, <3>1, <5>1, <5>2 DEF Settles
      <4> QED  BY <4>1, <4>2
    <3>7. \A m \in DOMAIN tools' : Awaits(m)' => entries'[tools'[m]].call = m
      BY <3>2, <3>3, <3>4, <3>5 DEF Awaits
    <3> QED  BY <2>4, <3>6, <3>7 DEF CardInv
  <2>14. CASE HearResult
    <3>1. /\ Answers(w[1], n) /\ cut' = cut /\ busy' = busy /\ tools' = tools /\ w[1].kind # "broken"
          /\ entries' = IF n \in DOMAIN tools /\ IsA("tool", tools[n])
                        THEN [entries EXCEPT ![tools[n]].result = n] ELSE entries
      BY <2>5, <2>14 DEF HearResult, Hears, Heard, Answers, n
    <3>2. \A m : Awaits(m) <=> m = n
      BY <2>1, <3>1 DEF Awaits, Waits, Answers, n, w
    <3>3. ~Broken(wire[cur])
      BY <3>1 DEF Broken, w
    <3>4. ASSUME NEW i \in DOMAIN entries', entries'[i].kind = "tool" PROVE Settles(i)'
      <4>1. \A j \in DOMAIN entries : entries[j] \in EntryType
        BY <1>1
      <4>2. DOMAIN entries' = DOMAIN entries /\ entries'[i].kind = entries[i].kind
            /\ entries'[i].turn = entries[i].turn /\ entries'[i].call = entries[i].call
        BY <1>1, <3>1, <3>4, <4>1 DEF EntryType, IsA
      <4>3. Settles(i) \/ Open(i)
        BY <3>4, <4>2 DEF CardInv
      <4>4. entries[i].turn =< cur
        BY <1>1, <4>3 DEF Settles, Open
      <4>5. CASE n \in DOMAIN tools /\ IsA("tool", tools[n]) /\ i = tools[n]
        <5>1. entries'[i].result = n
          BY <1>1, <3>1, <4>1, <4>5 DEF EntryType, IsA
        <5>2. entries[i].call = n
          BY <3>2, <4>5 DEF CardInv
        <5> QED  BY <2>1, <4>2, <4>4, <5>1, <5>2 DEF Settles
      <4>6. CASE ~(n \in DOMAIN tools /\ IsA("tool", tools[n]) /\ i = tools[n])
        <5>1. entries'[i] = entries[i]
          BY <1>1, <3>1, <3>4, <4>2, <4>6 DEF IsA
        <5>2. ~Open(i)
          <6> SUFFICES ASSUME Open(i) PROVE FALSE
            OBVIOUS
          <6>1. entries[i].call = n /\ n \in DOMAIN tools /\ tools[n] = i
            BY <3>2, <3>3 DEF Open
          <6>2. IsA("tool", i)
            BY <3>4, <4>2 DEF IsA
          <6> QED  BY <4>6, <6>1, <6>2
        <5>3. Settles(i) /\ cur' = cur /\ cut' = cut
          BY <2>1, <3>1, <4>3, <5>2
        <5> QED  BY <5>1, <5>3 DEF Settles
      <4> QED  BY <4>5, <4>6
    <3>5. \A m : ~Awaits(m)'
      BY <2>6, <3>1 DEF Answers
    <3> QED  BY <2>4, <3>4, <3>5 DEF CardInv
  <2> QED
    BY <1>12, <2>8, <2>9, <2>10, <2>11, <2>12, <2>13, <2>14 DEF Hear
<1> QED
  BY <1>4, <1>5, <1>6, <1>7, <1>9, <1>10, <1>11, <1>12 DEF Next

\* A card shows the result of its own call, and waits for one only while its
\* turn runs or when the turn was cut (ChatDrawer.tsx:318-341), for any number
\* of turns, rounds, calls and events on their way.
THEOREM CardsAreSettled == Spec => []CardsSettle
<1>1. Init => CardInv
  BY DEF Init, ServerInit, CardInv, IsA
<1>2. Inv3 /\ Inv3' /\ CardInv /\ [Next]_vars => CardInv'
  BY CardNext
<1>3. CardInv => CardsSettle
  BY DEF CardInv, CardsSettle, Settles, Open
<1> QED  BY <1>1, <1>2, <1>3, InvInv3, PTL DEF Spec

(***************************************************************************)
(* The text that the user has seen.                                        *)
(***************************************************************************)
Fresh == {"none", "begin", "insert"}            \* no conversation yet
Early == Fresh \cup {"load", "save"}            \* nothing said yet

\* What a step of a handler makes of its turn t: what it said and its
\* conversation stay, but for the steps that are about them.
Proceeds(k, t, u) ==
    /\ u.pc \in Fresh => t.pc \in Fresh
    /\ u.pc \in Early => t.pc \in Early /\ u.said = t.said
    /\ u.pc # "over" => u.said >= t.said
    /\ \/ u.conv = t.conv
       \/ u.conv \in Turns /\ u.pc = "load" /\ (u.conv = k \/ convs[u.conv].live)

\* A turn ends with nothing said, or without its text, or with the text stored.
Stored(k) == Row("assistant", k, turn[k].said)
EndsWell(k) ==
    turn'[k].pc = "over" =>
        \/ turn[k].pc \in Early \/ turn[k].said = 0 \/ ~turn'[k].kept
        \/ turn'[k].conv \in Turns /\ rows'[turn'[k].conv] = Append(rows[turn'[k].conv], Stored(k))

\* Messages are appended, the agent's own at the end of its turn.
Appends(k) ==
    \A c \in Turns :
        \/ rows'[c] = rows[c]
        \/ \E r \in RowType :
              /\ rows'[c] = Append(rows[c], r)
              /\ r.role = "assistant" => r.turn = k /\ r.n = turn[k].said /\ turn[k].pc = "finish"

\* Conversations are made by their own turns only.
Makes(k) ==
    \A c \in Turns : convs'[c].live =>
        convs[c].live \/ (c = k /\ turn[k].pc = "insert" /\ turn'[k].pc = "load")

\* Text on its way is what was said last.
Writing(k) ==
    \/ wire'[k] = wire[k]
    \/ \E e \in EventType :
          /\ wire'[k] = Append(wire[k], e)
          /\ e.kind = "text" => /\ e.n = turn[k].said + 1 /\ turn'[k].pc = "model"
                                /\ turn'[k].said = turn[k].said + 1

LEMMA StepMakes ==
    ASSUME CInv, NEW k \in Turns, ServerStep(k)
    PROVE  Makes(k) /\ Appends(k)
<1>1. /\ turn \in [Turns -> TurnType] /\ turn[k] \in TurnType
      /\ convs \in [Turns -> ConvType] /\ rows \in [Turns -> Seq(RowType)]
  BY DEF CInv, ServerTypeOK
<1>2. CASE UseConversation(k)
  <2>1. PICK c \in Found(k) : convs' = [convs EXCEPT ![c].updated = clock + 1]
    BY <1>2 DEF UseConversation
  <2>2. \A d \in Turns : convs'[d].live = convs[d].live
    BY <1>1, <2>1 DEF ConvType
  <2>3. rows' = rows
    BY <1>2 DEF UseConversation
  <2> QED  BY <2>2, <2>3 DEF Makes, Appends
<1>3. CASE InsertConversation(k)
  <2>1. \A d \in Turns : d # k => convs'[d] = convs[d]
    BY <1>1, <1>3 DEF InsertConversation
  <2>2. rows' = rows /\ turn[k].pc = "insert" /\ turn'[k].pc = "load"
    BY <1>1, <1>3 DEF InsertConversation
  <2> QED  BY <2>1, <2>2 DEF Makes, Appends
<1>4. CASE SaveUser(k)
  <2>1. convs' = convs
    BY <1>4 DEF SaveUser
  <2>2. Row("user", k, 1) \in RowType /\ Row("user", k, 1).role = "user"
    BY DEF Row, RowType
  <2>3. rows' = rows \/ rows' = [rows EXCEPT ![turn[k].conv] = Append(@, Row("user", k, 1))]
    BY <1>4 DEF SaveUser, Stores
  <2> QED  BY <1>1, <2>1, <2>2, <2>3 DEF Makes, Appends
<1>5. CASE Finish(k)
  <2>1. convs' = convs /\ turn[k].pc = "finish"
    BY <1>5 DEF Finish
  <2>2. turn[k].said \in Nat
    BY <1>1 DEF TurnType
  <2> DEFINE r == Stored(k)
  <2>3. r \in RowType /\ r.turn = k /\ r.n = turn[k].said
    BY <2>2 DEF Stored, Row, RowType
  <2>4. rows' = rows \/ rows' = [rows EXCEPT ![turn[k].conv] = Append(@, r)]
    BY <1>5 DEF Finish, Stores, Stored
  <2> HIDE DEF r
  <2> QED  BY <1>1, <2>1, <2>3, <2>4 DEF Makes, Appends
<1>6. CASE \/ NoConversation(k) \/ Refuse(k) \/ LoadHistory(k) \/ Say(k) \/ ModelFails(k) \/ CallTool(k)
           \/ (\E c \in 0..MaxCalls, more \in BOOLEAN : ModelStops(k, c, more))
           \/ (\E o \in Outcomes : ToolReturns(k, o)) \/ NextRound(k) \/ Done(k) \/ GiveUp(k)
  <2>1. convs' = convs /\ rows' = rows
    BY <1>6 DEF NoConversation, Refuse, LoadHistory, Say, ModelFails, CallTool, ModelStops,
         ToolReturns, NextRound, Done, GiveUp
  <2> QED  BY <2>1 DEF Makes, Appends
<1> QED  BY <1>2, <1>3, <1>4, <1>5, <1>6 DEF ServerStep

LEMMA StepWriting ==
    ASSUME CInv, NEW k \in Turns, ServerStep(k)
    PROVE  Writing(k)
<1>1. wire \in [Turns -> Seq(EventType)] /\ turn \in [Turns -> TurnType] /\ turn[k] \in TurnType
  BY DEF CInv, ServerTypeOK
<1>2. turn[k].said \in Nat /\ turn[k].said + 1 \in Nat /\ None \in Nat
  BY <1>1 DEF TurnType, None
<1>3. ASSUME NEW e \in EventType, e.kind # "text", Sends(k, e) PROVE Writing(k)
  BY <1>1, <1>3 DEF Sends, Writing
<1>4. CASE Say(k)
  <2> DEFINE e == Event("text", turn[k].said + 1)
  <2>1. e \in EventType /\ e.kind = "text" /\ e.n = turn[k].said + 1
    BY <1>2, EventIs
  <2>2. Sends(k, e) /\ turn[k].pc = "model" /\ turn' = [turn EXCEPT ![k].said = @ + 1]
    BY <1>4 DEF Say
  <2>3. turn'[k].pc = "model" /\ turn'[k].said = turn[k].said + 1
    BY <1>1, <2>2 DEF TurnType
  <2> HIDE DEF e
  <2> QED  BY <1>1, <2>1, <2>2, <2>3 DEF Sends, Writing
<1>5. CASE LoadHistory(k)
  <2>1. turn[k].conv \in Turns
    BY <1>5 DEF LoadHistory, CInv, Placed
  <2>2. Event("meta", turn[k].conv) \in EventType /\ Event("meta", turn[k].conv).kind = "meta"
    BY <2>1 DEF Event, EventType, Turns
  <2> QED  BY <1>3, <1>5, <2>2 DEF LoadHistory
<1>6. CASE Refuse(k) \/ ModelFails(k) \/ GiveUp(k) \/ Finish(k)
  <2>1. \A x \in {"refused", "error", "end"} : Event(x, None) \in EventType /\ Event(x, None).kind = x
    BY <1>2, EventIs
  <2>2. \E x \in {"refused", "error", "end"} : Sends(k, Event(x, None))
    BY <1>6 DEF Refuse, ModelFails, GiveUp, Finish
  <2> QED  BY <1>3, <2>1, <2>2
<1>7. CASE CallTool(k) \/ \E o \in Outcomes : ToolReturns(k, o)
  <2> DEFINE n == LastRound(k).calls[turn[k].done + 1]
  <2>1. n \in Nat
    <3>1. CASE CallTool(k)
      BY <3>1, CallType DEF CallTool
    <3>2. CASE \E o \in Outcomes : ToolReturns(k, o)
      BY <3>2, CallType DEF ToolReturns, CInv, Loop, LastRound
    <3> QED  BY <1>7, <3>1, <3>2
  <2>2. \E x \in {"call", "news", "result"} : Sends(k, Event(x, n))
    BY <1>7 DEF CallTool, ToolReturns
  <2> HIDE DEF n
  <2>3. \A x \in {"call", "news", "result"} : Event(x, n) \in EventType /\ Event(x, n).kind = x
    BY <2>1, EventIs
  <2> QED  BY <1>3, <2>2, <2>3
<1>8. CASE \/ UseConversation(k) \/ NoConversation(k) \/ InsertConversation(k) \/ SaveUser(k)
           \/ (\E c \in 0..MaxCalls, more \in BOOLEAN : ModelStops(k, c, more))
           \/ NextRound(k) \/ Done(k)
  <2>1. wire' = wire
    BY <1>8 DEF UseConversation, NoConversation, InsertConversation, SaveUser, ModelStops, NextRound, Done
  <2> QED  BY <2>1 DEF Writing
<1> QED  BY <1>4, <1>5, <1>6, <1>7, <1>8 DEF ServerStep

LEMMA StepProceeds ==
    ASSUME CInv, NEW k \in Turns, ServerStep(k)
    PROVE  Proceeds(k, turn[k], turn'[k]) /\ EndsWell(k)
<1>1. turn \in [Turns -> TurnType] /\ turn[k] \in TurnType /\ rows \in [Turns -> Seq(RowType)]
  BY DEF CInv, ServerTypeOK
<1>2. turn[k].said \in Nat /\ turn[k].conv \in {None} \cup Turns
  BY <1>1 DEF TurnType
\* A step that only goes on to the next place.
<1>3. ASSUME turn'[k].said = turn[k].said, turn'[k].conv = turn[k].conv, turn'[k].pc # "over",
             turn'[k].pc \in Fresh => turn[k].pc \in Fresh,
             turn'[k].pc \in Early => turn[k].pc \in Early
      PROVE  Proceeds(k, turn[k], turn'[k]) /\ EndsWell(k)
  BY <1>2, <1>3 DEF Proceeds, EndsWell
<1>4. CASE UseConversation(k)
  <2>1. PICK c \in Found(k) : turn' = [turn EXCEPT ![k].pc = "load", ![k].conv = c]
    BY <1>4 DEF UseConversation
  <2>2. c \in Turns /\ convs[c].live
    BY <1>1, <2>1 DEF Found, Latest, TurnType
  <2>3. turn'[k].pc = "load" /\ turn'[k].conv = c /\ turn'[k].said = turn[k].said /\ turn[k].pc = "begin"
    BY <1>1, <1>4, <2>1 DEF TurnType, UseConversation
  <2> QED  BY <1>2, <2>2, <2>3 DEF Proceeds, EndsWell, Fresh, Early
<1>5. CASE NoConversation(k)
  <2>1. turn' = [turn EXCEPT ![k].pc = "insert"] /\ turn[k].pc = "begin"
    BY <1>5 DEF NoConversation
  <2>2. turn'[k].pc = "insert" /\ turn'[k].said = turn[k].said /\ turn'[k].conv = turn[k].conv
    BY <1>1, <2>1 DEF TurnType
  <2> QED  BY <1>3, <2>1, <2>2 DEF Fresh, Early
<1>6. CASE InsertConversation(k)
  <2>1. turn' = [turn EXCEPT ![k].pc = "load", ![k].conv = k] /\ turn[k].pc = "insert"
    BY <1>6 DEF InsertConversation
  <2>2. turn'[k].pc = "load" /\ turn'[k].said = turn[k].said /\ turn'[k].conv = k
    BY <1>1, <2>1 DEF TurnType
  <2> QED  BY <1>2, <2>1, <2>2 DEF Proceeds, EndsWell, Fresh, Early
<1>7. CASE Refuse(k) \/ Finish(k)
  <2>1. PICK b \in BOOLEAN :
           /\ turn' = [turn EXCEPT ![k] = Over(k, b)]
           /\ \/ turn[k].pc \in Early \/ turn[k].said = 0 \/ ~b
              \/ turn[k].pc = "finish" /\ rows' = [rows EXCEPT ![turn[k].conv] = Append(@, Stored(k))]
    BY <1>7 DEF Refuse, Finish, Ends, Stores, Stored, Early, Fresh
  <2>2. turn'[k] = Over(k, b)
    BY <1>1, <2>1
  <2>3. Over(k, b).pc = "over" /\ Over(k, b).conv = turn[k].conv /\ Over(k, b).kept = b
    BY DEF Over, Request
  <2>4. turn[k].pc = "finish" => turn[k].conv \in Turns
    BY DEF CInv, Placed
  <2> QED  BY <1>1, <2>1, <2>2, <2>3, <2>4 DEF Proceeds, EndsWell, Fresh, Early
<1>8. CASE LoadHistory(k)
  <2> DEFINE s == UserTurns(rows[turn[k].conv])
  <2>1. turn' = [turn EXCEPT ![k].pc = "save", ![k].seen = s] /\ turn[k].pc = "load"
    BY <1>8 DEF LoadHistory
  <2> HIDE DEF s
  <2>2. turn'[k].pc = "save" /\ turn'[k].said = turn[k].said /\ turn'[k].conv = turn[k].conv
    BY <1>1, <2>1 DEF TurnType
  <2> QED  BY <1>3, <2>1, <2>2 DEF Fresh, Early
<1>9. CASE Say(k)
  <2>1. turn' = [turn EXCEPT ![k].said = @ + 1] /\ turn[k].pc = "model"
    BY <1>9 DEF Say
  <2>2. turn'[k].pc = "model" /\ turn'[k].said = turn[k].said + 1 /\ turn'[k].conv = turn[k].conv
    BY <1>1, <2>1 DEF TurnType
  <2> QED  BY <1>2, <2>2 DEF Proceeds, EndsWell, Fresh, Early
<1>10. CASE \E c \in 0..MaxCalls, more \in BOOLEAN : ModelStops(k, c, more)
  <2>1. PICK c \in 0..MaxCalls, more \in BOOLEAN : ModelStops(k, c, more)
    BY <1>10
  <2> DEFINE r == Append(turn[k].rounds,
                        Round([i \in 1..c |-> MaxCalls * Len(turn[k].rounds) + i], more))
  <2>2. turn' = [turn EXCEPT ![k].pc = "batch", ![k].done = 0, ![k].rounds = r]
    BY <1>1, <2>1 DEF ModelStops
  <2> HIDE DEF r
  <2>3. turn'[k].pc = "batch" /\ turn'[k].said = turn[k].said /\ turn'[k].conv = turn[k].conv
    BY <1>1, <2>2 DEF TurnType
  <2> QED  BY <1>3, <2>3 DEF Fresh, Early
<1>11. CASE \E o \in Outcomes : ToolReturns(k, o)
  <2> DEFINE n == LastRound(k).calls[turn[k].done + 1]
             rs == [turn[k].rounds EXCEPT ![Len(turn[k].rounds)].results = Append(@, n)]
  <2>1. turn' = [turn EXCEPT ![k].pc = "batch", ![k].done = turn[k].done + 1, ![k].rounds = rs]
    BY <1>1, <1>11 DEF ToolReturns, TurnType
  <2> HIDE DEF rs
  <2>2. turn'[k].pc = "batch" /\ turn'[k].said = turn[k].said /\ turn'[k].conv = turn[k].conv
    BY <1>1, <2>1 DEF TurnType
  <2> QED  BY <1>3, <2>2 DEF Fresh, Early
<1>12. CASE SaveUser(k) \/ ModelFails(k) \/ CallTool(k) \/ NextRound(k) \/ Done(k) \/ GiveUp(k)
  <2>1. \E p \in {"model", "finish", "tool"} : turn' = [turn EXCEPT ![k].pc = p]
    <3>1. CASE SaveUser(k)
      BY <3>1 DEF SaveUser
    <3>2. CASE ModelFails(k)
      BY <3>2 DEF ModelFails
    <3>3. CASE CallTool(k)
      BY <3>3 DEF CallTool
    <3>4. CASE NextRound(k)
      BY <3>4 DEF NextRound
    <3>5. CASE Done(k)
      BY <3>5 DEF Done
    <3>6. CASE GiveUp(k)
      BY <3>6 DEF GiveUp
    <3> QED  BY <1>12, <3>1, <3>2, <3>3, <3>4, <3>5, <3>6
  <2>2. turn'[k].pc \in {"model", "finish", "tool"} /\ turn'[k].said = turn[k].said
        /\ turn'[k].conv = turn[k].conv
    BY <1>1, <2>1 DEF TurnType
  <2> QED  BY <1>3, <2>2 DEF Fresh, Early
<1> QED  BY <1>4, <1>5, <1>6, <1>7, <1>8, <1>9, <1>10, <1>11, <1>12 DEF ServerStep

\* A chunk that was said, and that is stored or was lost for a reason.
Told(k, n) ==
    /\ n \in Nat \ {0} /\ k \in Turns /\ turn[k].pc # "none"
    /\ turn[k].pc # "over" => n =< turn[k].said
    /\ Kept(k, n)

\* Nothing is said before the message is stored, and what has a conversation, or
\* is one, is past ensureConversation.
PlaceInv ==
    /\ \A k \in Turns : turn[k].pc \in Early => turn[k].said = 0
    /\ \A k \in Turns : turn[k].conv # None => turn[turn[k].conv].pc \notin Fresh
    /\ \A c \in Turns : convs[c].live => turn[c].pc \notin Fresh

ToldRow(r) == r.role = "assistant" => \A n \in 1..r.n : Told(r.turn, n)

\* The inductive invariant of the text.
TextInv ==
    /\ PlaceInv
    /\ \A k \in Turns : \A i \in DOMAIN wire[k] : wire[k][i].kind = "text" => Told(k, wire[k][i].n)
    /\ \A c \in Turns : \A i \in DOMAIN rows[c] : ToldRow(rows[c][i])

LEMMA PlaceNext ==
    ASSUME CInv, StreamInv, PlaceInv, [ServerNext]_serverVars
    PROVE  PlaceInv'
<1>1. /\ turn \in [Turns -> TurnType] /\ convs \in [Turns -> ConvType]
      /\ \A k \in Turns : turn[k].conv \in {None} \cup Turns /\ None \notin Turns
  BY DEF CInv, ServerTypeOK, TurnType, None, Turns
\* Turns go on, and conversations are made by their turns.
<1>2. ASSUME \A k \in Turns : turn'[k].pc \in Fresh => turn[k].pc \in Fresh,
             \A k \in Turns : turn'[k].pc \in Early => turn'[k].said = 0,
             \A k \in Turns : \/ turn'[k].conv = turn[k].conv \/ turn'[k].conv = None
                              \/ turn'[k].conv \in Turns /\ turn'[turn'[k].conv].pc \notin Fresh,
             \A c \in Turns : convs'[c].live => convs[c].live \/ turn'[c].pc \notin Fresh
      PROVE  PlaceInv'
  BY <1>1, <1>2 DEF PlaceInv
<1>3. ASSUME turn' = turn, \A c \in Turns : convs'[c].live => convs[c].live PROVE PlaceInv'
  BY <1>3 DEF PlaceInv
<1>4. ASSUME NEW k \in Turns, ServerStep(k) PROVE PlaceInv'
  <2>1. /\ Proceeds(k, turn[k], turn'[k]) /\ Makes(k) /\ \A j \in Turns : j # k => turn'[j] = turn[j]
    BY <1>4, StepProceeds, StepMakes, StepMoves
  <2>2. \A j \in Turns : turn'[j].pc \in Fresh => turn[j].pc \in Fresh
    BY <2>1 DEF Proceeds
  <2>3. \A j \in Turns : turn'[j].pc \in Early => turn'[j].said = 0
    BY <2>1 DEF Proceeds, PlaceInv
  <2>4. turn'[k].conv = turn[k].conv
        \/ (turn'[k].conv \in Turns /\ turn'[turn'[k].conv].pc \notin Fresh)
    <3>1. CASE turn'[k].conv \in Turns /\ turn'[k].pc = "load" /\ turn'[k].conv = k
      BY <3>1 DEF Fresh
    <3>2. CASE turn'[k].conv \in Turns /\ convs[turn'[k].conv].live
      BY <2>2, <3>2 DEF PlaceInv
    <3> QED  BY <2>1, <3>1, <3>2 DEF Proceeds
  <2>5. \A c \in Turns : convs'[c].live => convs[c].live \/ turn'[c].pc \notin Fresh
    BY <2>1 DEF Makes, Fresh
  <2>6. \A j \in Turns : \/ turn'[j].conv = turn[j].conv \/ turn'[j].conv = None
                         \/ turn'[j].conv \in Turns /\ turn'[turn'[j].conv].pc \notin Fresh
    BY <2>1, <2>4
  <2> QED  BY <1>2, <2>2, <2>3, <2>5, <2>6
<1>5. ASSUME NEW k \in Turns, NEW p \in {None} \cup Plans, NEW c \in {None} \cup Turns, Post(k, p, c)
      PROVE  PlaceInv'
  <2>1. /\ turn[k].pc = "none" /\ turn'[k] = Request(p, c) /\ convs' = convs
        /\ \A j \in Turns : j # k => turn'[j] = turn[j]
    BY <1>1, <1>5 DEF Post
  <2>2. Request(p, c).said = 0 /\ Request(p, c).conv = None /\ Request(p, c).pc = "begin"
    BY DEF Request
  <2>3. \A j \in Turns : turn'[j].pc \in Fresh => turn[j].pc \in Fresh
    BY <2>1 DEF Fresh
  <2>4. \A j \in Turns : turn'[j].pc \in Early => turn'[j].said = 0
    BY <2>1, <2>2 DEF PlaceInv
  <2>5. \A j \in Turns : turn'[j].conv = turn[j].conv \/ turn'[j].conv = None
    BY <2>1, <2>2
  <2> QED  BY <1>2, <2>1, <2>3, <2>4, <2>5
<1>6. CASE Crash
  <2>1. convs' = convs /\ \A k \in Turns : turn'[k] = turn[k] \/ turn'[k] = Over(k, FALSE)
    BY <1>6 DEF Crash
  <2>2. \A k \in Turns : Over(k, FALSE).pc = "over" /\ Over(k, FALSE).conv = turn[k].conv
    BY DEF Over, Request
  <2>3. \A k \in Turns : turn'[k].pc \in Fresh => turn[k].pc \in Fresh
    BY <2>1, <2>2 DEF Fresh
  <2>4. \A k \in Turns : turn'[k].pc \in Early => turn'[k].said = 0
    BY <2>1, <2>2 DEF PlaceInv, Early, Fresh
  <2>5. \A k \in Turns : turn'[k].conv = turn[k].conv
    BY <2>1, <2>2
  <2> QED  BY <1>2, <2>1, <2>3, <2>4, <2>5
<1>7. CASE \/ (\E k \in Turns : Reads(k) \/ HangUp(k)) \/ (\E p \in Plans : PatchPlan(p))
           \/ Unseen \/ UNCHANGED serverVars
  BY <1>3, <1>7 DEF Reads, HangUp, PatchPlan, Unseen, serverVars
<1>8. ASSUME NEW p \in Plans, DeleteConversations(p) \/ DeletePlan(p) PROVE PlaceInv'
  <2>1. turn' = turn
    BY <1>8 DEF DeleteConversations, DeletePlan
  <2>2. \A c \in Turns : convs'[c].live => convs[c].live
    <3>1. CASE DeleteConversations(p)
      BY <1>1, <3>1 DEF DeleteConversations, NoConv
    <3>2. CASE DeletePlan(p)
      <4>1. \A c \in Turns : convs[c] \in ConvType
        BY <1>1
      <4> QED  BY <3>2, <4>1 DEF DeletePlan, ConvType
    <3> QED  BY <1>8, <3>1, <3>2
  <2> QED  BY <1>3, <2>1, <2>2
<1> QED  BY <1>4, <1>5, <1>6, <1>7, <1>8 DEF ServerNext

\* What was said stays stored, or is lost for a reason.
LEMMA ToldStays ==
    ASSUME CInv, StreamInv, PlaceInv, [ServerNext]_serverVars, NEW j, NEW n, Told(j, n)
    PROVE  Told(j, n)'
<1>1. /\ turn \in [Turns -> TurnType] /\ convs \in [Turns -> ConvType] /\ rows \in [Turns -> Seq(RowType)]
      /\ n \in Nat \ {0} /\ j \in Turns /\ turn[j].pc # "none" /\ turn[j].said \in Nat
      /\ turn[j].conv \in {None} \cup Turns
  BY DEF CInv, ServerTypeOK, Told, TurnType
<1>2. turn[j].pc # "over" => n =< turn[j].said /\ turn[j].pc \notin Early
  <2>1. turn[j].pc \in Early => turn[j].said = 0
    BY <1>1 DEF PlaceInv
  <2> QED  BY <1>1, <2>1 DEF Told
\* The turn stays as it is, and so does what is stored of its conversation.
<1>3. ASSUME turn'[j] = turn[j],
             \A c \in Turns : (convs'[c].live /\ turn[c].pc \notin Fresh) =>
                convs[c].live /\ \A i \in DOMAIN rows[c] : i \in DOMAIN rows'[c] /\ rows'[c][i] = rows[c][i]
      PROVE  Told(j, n)'
  <2>1. turn[j].pc # "over" => n =< turn[j].said
    BY <1>2
  <2>2. Kept(j, n)'
    <3> SUFFICES ASSUME turn[j].pc = "over", turn[j].kept, turn[j].conv # None, convs'[turn[j].conv].live
                 PROVE  \E i \in DOMAIN rows'[turn[j].conv] :
                           LET r == rows'[turn[j].conv][i]
                           IN  r.role = "assistant" /\ r.turn = j /\ n =< r.n
      BY <1>3 DEF Kept
    <3> DEFINE c == turn[j].conv
    <3>1. c \in Turns /\ turn[c].pc \notin Fresh
      BY <1>1 DEF PlaceInv
    <3>2. convs[c].live /\ \A i \in DOMAIN rows[c] : i \in DOMAIN rows'[c] /\ rows'[c][i] = rows[c][i]
      BY <1>3, <3>1
    <3>3. \E i \in DOMAIN rows[c] : rows[c][i].role = "assistant" /\ rows[c][i].turn = j /\ n =< rows[c][i].n
      BY <3>2 DEF Told, Kept
    <3> HIDE DEF c
    <3>4. \E i \in DOMAIN rows'[c] : rows'[c][i].role = "assistant" /\ rows'[c][i].turn = j /\ n =< rows'[c][i].n
      BY <3>2, <3>3
    <3> QED  BY <3>4 DEF c
  <2> QED  BY <1>1, <1>3, <2>1, <2>2 DEF Told
\* The turn goes on.
<1>4. ASSUME turn'[j].pc \notin {"none", "over"}, n =< turn'[j].said
      PROVE  Told(j, n)'
  BY <1>1, <1>4 DEF Told, Kept
<1>5. ASSUME NEW k \in Turns, ServerStep(k) PROVE Told(j, n)'
  <2>1. /\ Proceeds(k, turn[k], turn'[k]) /\ Makes(k) /\ Appends(k) /\ EndsWell(k)
        /\ \A i \in Turns : i # k => turn'[i] = turn[i]
        /\ turn[k].pc \notin {"none", "over"} /\ turn'[k].pc # "none"
    BY <1>5, StepProceeds, StepMakes, StepMoves DEF Moves
  <2>2. CASE k # j
    <3>1. \A c \in Turns : (convs'[c].live /\ turn[c].pc \notin Fresh) => convs[c].live
      BY <2>1 DEF Makes, Fresh
    <3>2. \A c \in Turns : \A i \in DOMAIN rows[c] : i \in DOMAIN rows'[c] /\ rows'[c][i] = rows[c][i]
      <4> SUFFICES ASSUME NEW c \in Turns
                   PROVE  \A i \in DOMAIN rows[c] : i \in DOMAIN rows'[c] /\ rows'[c][i] = rows[c][i]
        OBVIOUS
      <4>1. CASE rows'[c] = rows[c]
        BY <4>1
      <4>2. ASSUME NEW r \in RowType, rows'[c] = Append(rows[c], r)
            PROVE  \A i \in DOMAIN rows[c] : i \in DOMAIN rows'[c] /\ rows'[c][i] = rows[c][i]
        BY <1>1, <4>2
      <4> QED  BY <2>1, <4>1, <4>2 DEF Appends
    <3> QED  BY <1>1, <1>3, <2>1, <2>2, <3>1, <3>2
  <2>3. CASE k = j /\ turn'[j].pc # "over"
    <3>1. turn'[j].said >= turn[j].said /\ turn'[j].said \in Nat
      <4>1. CInv'
        BY NextCInv
      <4> QED  BY <1>1, <2>1, <2>3, <4>1 DEF Proceeds, CInv, ServerTypeOK, TurnType
    <3> QED  BY <1>1, <1>2, <1>4, <2>1, <2>3, <3>1
  <2>4. CASE k = j /\ turn'[j].pc = "over"
    <3>1. n =< turn[j].said /\ turn[j].pc \notin Early
      BY <1>2, <2>1, <2>4
    <3>2. \/ ~turn'[j].kept
          \/ turn'[j].conv \in Turns /\ rows'[turn'[j].conv] = Append(rows[turn'[j].conv], Stored(j))
      BY <1>1, <2>1, <2>4, <3>1 DEF EndsWell
    <3>3. Kept(j, n)'
      <4>1. CASE ~turn'[j].kept
        BY <4>1 DEF Kept
      <4>2. CASE turn'[j].conv \in Turns /\ rows'[turn'[j].conv] = Append(rows[turn'[j].conv], Stored(j))
        <5> DEFINE c == turn'[j].conv
                   r == Stored(j)
                   i == Len(rows[c]) + 1
        <5>1. r.role = "assistant" /\ r.turn = j /\ n =< r.n
          BY <3>1 DEF Stored, Row
        <5> HIDE DEF r
        <5>2. i \in DOMAIN rows'[c] /\ rows'[c][i] = r
          BY <1>1, <4>2 DEF r
        <5> HIDE DEF c, i
        <5>3. \E x \in DOMAIN rows'[c] : rows'[c][x].role = "assistant" /\ rows'[c][x].turn = j /\ n =< rows'[c][x].n
          BY <5>1, <5>2
        <5> QED  BY <5>3 DEF Kept, c
      <4> QED  BY <3>2, <4>1, <4>2
    <3> QED  BY <1>1, <2>4, <3>3 DEF Told
  <2> QED  BY <2>2, <2>3, <2>4
<1>6. CASE Crash
  <2>1. CASE Active(j)
    <3>1. turn'[j] = Over(j, FALSE)
      BY <1>1, <1>6, <2>1 DEF Crash
    <3>2. Over(j, FALSE).pc = "over" /\ Over(j, FALSE).kept = FALSE
      BY DEF Over, Request
    <3> QED  BY <1>1, <3>1, <3>2 DEF Told, Kept
  <2>2. CASE ~Active(j)
    BY <1>1, <1>3, <1>6, <2>2 DEF Crash
  <2> QED  BY <2>1, <2>2
<1>7. ASSUME NEW k \in Turns, NEW p \in {None} \cup Plans, NEW c \in {None} \cup Turns, Post(k, p, c)
      PROVE  Told(j, n)'
  BY <1>1, <1>3, <1>7 DEF Post
<1>8. CASE \/ (\E k \in Turns : Reads(k) \/ HangUp(k)) \/ (\E p \in Plans : PatchPlan(p))
           \/ Unseen \/ UNCHANGED serverVars
  BY <1>1, <1>3, <1>8 DEF Reads, HangUp, PatchPlan, Unseen, serverVars
<1>9. ASSUME NEW p \in Plans, DeleteConversations(p) \/ DeletePlan(p) PROVE Told(j, n)'
  <2>1. turn' = turn
    BY <1>9 DEF DeleteConversations, DeletePlan
  <2>2. \A c \in Turns : convs'[c].live => convs[c].live /\ rows'[c] = rows[c]
    <3>1. CASE DeleteConversations(p)
      BY <1>1, <3>1 DEF DeleteConversations, NoConv
    <3>2. CASE DeletePlan(p)
      <4>1. \A c \in Turns : convs[c] \in ConvType
        BY <1>1
      <4> QED  BY <3>2, <4>1 DEF DeletePlan, ConvType
    <3> QED  BY <1>9, <3>1, <3>2
  <2> QED  BY <1>3, <2>1, <2>2
<1> QED  BY <1>5, <1>6, <1>7, <1>8, <1>9 DEF ServerNext

LEMMA TextNext ==
    ASSUME CInv, CInv', StreamInv, TextInv, [ServerNext]_serverVars
    PROVE  TextInv'
<1>1. /\ turn \in [Turns -> TurnType] /\ wire \in [Turns -> Seq(EventType)] /\ rows \in [Turns -> Seq(RowType)]
      /\ PlaceInv /\ PlaceInv'
  BY PlaceNext DEF CInv, ServerTypeOK, TextInv
<1>2. ASSUME NEW j, NEW n, Told(j, n) PROVE Told(j, n)'
  BY <1>1, <1>2, ToldStays
\* Events that were on their way, and messages that were stored.
<1>3. ASSUME \A k \in Turns : \A i \in DOMAIN wire'[k] : wire'[k][i].kind = "text" =>
                \E n : /\ n = wire'[k][i].n
                       /\ Told(k, n)' \/ \E m \in DOMAIN wire[k] : wire'[k][i] = wire[k][m],
             \A c \in Turns : \A i \in DOMAIN rows'[c] :
                \E r : /\ r = rows'[c][i]
                       /\ ToldRow(r) \/ \E m \in DOMAIN rows[c] : r = rows[c][m]
      PROVE  TextInv'
  <2>1. ASSUME NEW k \in Turns, NEW i \in DOMAIN wire'[k], wire'[k][i].kind = "text"
        PROVE  Told(k, wire[k][i].n)'
    <3>1. PICK n : /\ n = wire'[k][i].n
                   /\ Told(k, n)' \/ \E m \in DOMAIN wire[k] : wire'[k][i] = wire[k][m]
      BY <1>3, <2>1
    <3>2. CASE \E m \in DOMAIN wire[k] : wire'[k][i] = wire[k][m]
      <4>1. Told(k, n)
        BY <2>1, <3>1, <3>2 DEF TextInv
      <4> QED  BY <1>2, <3>1, <4>1
    <3> QED  BY <3>1, <3>2
  <2>2. ASSUME NEW c \in Turns, NEW i \in DOMAIN rows'[c] PROVE ToldRow(rows[c][i])'
    <3>1. PICK r : /\ r = rows'[c][i]
                   /\ ToldRow(r) \/ \E m \in DOMAIN rows[c] : r = rows[c][m]
      BY <1>3, <2>2
    <3>2. ToldRow(r)
      BY <3>1 DEF TextInv
    <3>3. r.role = "assistant" => \A n \in 1..r.n : Told(r.turn, n)'
      BY <1>2, <3>2 DEF ToldRow
    <3> QED  BY <3>1, <3>3 DEF ToldRow
  <2> QED  BY <1>1, <2>1, <2>2 DEF TextInv
<1>4. ASSUME wire' = wire PROVE \A k \in Turns : \A i \in DOMAIN wire'[k] : wire'[k][i].kind = "text" =>
                \E n : /\ n = wire'[k][i].n
                       /\ Told(k, n)' \/ \E m \in DOMAIN wire[k] : wire'[k][i] = wire[k][m]
  BY <1>4
<1>5. ASSUME \A c \in Turns : rows'[c] = rows[c] \/ rows'[c] = <<>>
      PROVE \A c \in Turns : \A i \in DOMAIN rows'[c] :
                \E r : /\ r = rows'[c][i]
                       /\ ToldRow(r) \/ \E m \in DOMAIN rows[c] : r = rows[c][m]
  BY <1>5
<1>6. ASSUME NEW k \in Turns, ServerStep(k) PROVE TextInv'
  <2>1. /\ Appends(k) /\ Writing(k) /\ \A j \in Turns : j # k => turn'[j] = turn[j] /\ wire'[j] = wire[j]
        /\ turn[k] \in TurnType
    BY <1>1, <1>6, StepMakes, StepWriting, StepMoves
  <2>2. ASSUME NEW j \in Turns, NEW i \in DOMAIN wire'[j], wire'[j][i].kind = "text"
        PROVE  \E n : /\ n = wire'[j][i].n
                      /\ Told(j, n)' \/ \E m \in DOMAIN wire[j] : wire'[j][i] = wire[j][m]
    <3>1. CASE wire'[j] = wire[j]
      BY <2>2, <3>1
    <3>2. ASSUME j = k, NEW e \in EventType, wire'[k] = Append(wire[k], e),
                 e.kind = "text" => /\ e.n = turn[k].said + 1 /\ turn'[k].pc = "model"
                                    /\ turn'[k].said = turn[k].said + 1
          PROVE  \E n : /\ n = wire'[j][i].n
                        /\ Told(j, n)' \/ \E m \in DOMAIN wire[j] : wire'[j][i] = wire[j][m]
      <4>1. (i \in DOMAIN wire[k] /\ wire'[k][i] = wire[k][i]) \/ wire'[k][i] = e
        BY <1>1, <2>2, <3>2
      <4>2. CASE wire'[k][i] = e
        <5>1. e.n = turn[k].said + 1 /\ turn'[k].pc = "model" /\ turn'[k].said = e.n
          BY <2>2, <3>2, <4>2
        <5>2. e.n \in Nat \ {0} /\ e.n =< e.n
          BY <2>1, <5>1 DEF TurnType
        <5>3. Told(k, e.n)'
          BY <5>1, <5>2 DEF Told, Kept
        <5> QED  BY <3>2, <4>2, <5>3
      <4> QED  BY <3>2, <4>1, <4>2
    <3> QED  BY <2>1, <3>1, <3>2 DEF Writing
  <2>3. ASSUME NEW c \in Turns, NEW i \in DOMAIN rows'[c]
        PROVE  \E r : /\ r = rows'[c][i]
                      /\ ToldRow(r) \/ \E m \in DOMAIN rows[c] : r = rows[c][m]
    <3>1. CASE rows'[c] = rows[c]
      BY <2>3, <3>1
    <3>2. ASSUME NEW s \in RowType, rows'[c] = Append(rows[c], s),
                 s.role = "assistant" => s.turn = k /\ s.n = turn[k].said /\ turn[k].pc = "finish"
          PROVE  \E r : /\ r = rows'[c][i]
                        /\ ToldRow(r) \/ \E m \in DOMAIN rows[c] : r = rows[c][m]
      <4>1. (i \in DOMAIN rows[c] /\ rows'[c][i] = rows[c][i]) \/ rows'[c][i] = s
        BY <1>1, <2>3, <3>2
      <4>2. ToldRow(s)
        <5> SUFFICES ASSUME s.role = "assistant", NEW n \in 1..s.n PROVE Told(k, n)
          BY <3>2 DEF ToldRow
        <5>1. s.n = turn[k].said /\ turn[k].pc = "finish" /\ s.n \in Nat
          BY <3>2 DEF RowType
        <5> QED  BY <5>1 DEF Told, Kept
      <4> QED  BY <4>1, <4>2
    <3> QED  BY <2>1, <3>1, <3>2 DEF Appends
  <2> QED  BY <1>3, <2>2, <2>3
<1>7. ASSUME NEW k \in Turns, Reads(k) PROVE TextInv'
  <2>1. /\ rows' = rows /\ wire[k] # <<>> /\ wire'[k] = Tail(wire[k])
        /\ \A j \in Turns : j # k => wire'[j] = wire[j]
    BY <1>1, <1>7 DEF Reads
  <2>2. \A i \in DOMAIN wire'[k] : \E m \in DOMAIN wire[k] : wire'[k][i] = wire[k][m]
    <3> DEFINE w == wire[k]
               x == Tail(w)
    <3>1. w \in Seq(EventType) /\ w # <<>>
      BY <1>1, <2>1
    <3> HIDE DEF w
    <3>2. /\ Len(w) \in Nat \ {0} /\ DOMAIN x = 1..(Len(w) - 1) /\ DOMAIN w = 1..Len(w)
          /\ \A i \in 1..(Len(w) - 1) : x[i] = w[i + 1]
      BY <3>1, HeadTailProperties
    <3> HIDE DEF x
    <3>3. \A i \in DOMAIN x : i + 1 \in DOMAIN w /\ x[i] = w[i + 1]
      BY <3>2
    <3>4. wire'[k] = x
      BY <2>1 DEF x, w
    <3> QED  BY <3>3, <3>4 DEF w
  <2>3. \A j \in Turns : \A i \in DOMAIN wire'[j] : \E m \in DOMAIN wire[j] : wire'[j][i] = wire[j][m]
    BY <2>1, <2>2
  <2> QED  BY <1>3, <1>5, <2>1, <2>3
<1>8. ASSUME NEW k \in Turns, HangUp(k) PROVE TextInv'
  <2>1. rows' = rows /\ \A j \in Turns : wire'[j] = wire[j] \/ wire'[j] = <<>>
    BY <1>1, <1>8 DEF HangUp
  <2> QED  BY <1>3, <1>5, <2>1
<1>9. CASE Crash
  <2>1. rows' = rows /\ \A j \in Turns : \/ wire'[j] = wire[j]
                                         \/ wire'[j] = Append(wire[j], Event("broken", None))
    BY <1>9 DEF Crash
  <2>2. Event("broken", None).kind = "broken"
    BY DEF Event
  <2>3. ASSUME NEW j \in Turns, NEW i \in DOMAIN wire'[j], wire'[j][i].kind = "text"
        PROVE  \E m \in DOMAIN wire[j] : wire'[j][i] = wire[j][m]
    <3> DEFINE w == wire[j]
               e == Event("broken", None)
    <3>1. w \in Seq(EventType) /\ (wire'[j] = w \/ wire'[j] = Append(w, e)) /\ e.kind = "broken"
      BY <1>1, <2>1, <2>2
    <3> HIDE DEF w, e
    <3>2. CASE wire'[j] = w
      BY <2>3, <3>2 DEF w
    <3>3. CASE wire'[j] = Append(w, e)
      <4>1. (i \in DOMAIN w /\ wire'[j][i] = w[i]) \/ wire'[j][i] = e
        BY <2>3, <3>1, <3>3
      <4> QED  BY <2>3, <3>1, <4>1 DEF w
    <3> QED  BY <3>1, <3>2, <3>3
  <2> QED  BY <1>3, <1>5, <2>1, <2>3
<1>10. CASE \/ (\E k \in Turns, p \in {None} \cup Plans, c \in {None} \cup Turns : Post(k, p, c))
            \/ (\E p \in Plans : DeleteConversations(p) \/ DeletePlan(p) \/ PatchPlan(p))
            \/ Unseen \/ UNCHANGED serverVars
  <2>1. wire' = wire /\ \A c \in Turns : rows'[c] = rows[c] \/ rows'[c] = <<>>
    BY <1>10 DEF Post, DeleteConversations, DeletePlan, PatchPlan, Unseen, serverVars
  <2> QED  BY <1>3, <1>4, <1>5, <2>1
<1> QED  BY <1>6, <1>7, <1>8, <1>9, <1>10 DEF ServerNext

\* What the tab shows, and what it has been sent of the chat, was said.
ShownInv ==
    /\ \A i \in DOMAIN fill.log : ToldRow(fill.log[i])
    /\ \A i \in DOMAIN entries : \A j \in DOMAIN entries[i].text :
          Told(entries[i].text[j][1], entries[i].text[j][2])

LEMMA ShownNext ==
    ASSUME Inv3, Inv3', TextInv, ShownInv, [Next]_vars
    PROVE  ShownInv'
<1>1. /\ wire \in [Turns -> Seq(EventType)] /\ rows \in [Turns -> Seq(RowType)] /\ CInv /\ StreamInv /\ TabTypeOK
      /\ entries \in Seq(EntryType) /\ (\A i \in DOMAIN entries : entries[i] \in EntryType) /\ PlaceInv
      /\ [ServerNext]_serverVars
  <2>1. CInv /\ StreamInv /\ TabTypeOK /\ [ServerNext]_serverVars
    BY NextIsServer DEF Inv3, TInv
  <2>2. wire \in [Turns -> Seq(EventType)] /\ rows \in [Turns -> Seq(RowType)]
    BY <2>1 DEF CInv, ServerTypeOK
  <2>3. entries \in Seq(EntryType)
    BY <2>1 DEF TabTypeOK
  <2>4. \A i \in DOMAIN entries : entries[i] \in EntryType
    BY <2>3
  <2> QED  BY <2>1, <2>2, <2>3, <2>4 DEF TextInv
<1>2. ASSUME NEW j, NEW n, Told(j, n) PROVE Told(j, n)'
  BY <1>1, <1>2, ToldStays
\* What is shown was shown before, or was said, and what is sent is what was
\* sent before or is stored.
<1> DEFINE Shows == \A i \in DOMAIN entries' : \A j \in DOMAIN entries'[i].text :
                       \E ch : /\ ch = entries'[i].text[j]
                               /\ \/ Told(ch[1], ch[2])
                                  \/ \E m \in DOMAIN entries : \E l \in DOMAIN entries[m].text :
                                        ch = entries[m].text[l]
           Fills == fill' = fill \/ fill'.log = <<>> \/ \E c \in Turns : fill'.log = rows[c]
<1>3. ASSUME Shows, Fills PROVE ShownInv'
  <2>1. ASSUME NEW i \in DOMAIN entries', NEW j \in DOMAIN entries'[i].text
        PROVE  Told(entries[i].text[j][1], entries[i].text[j][2])'
    <3>1. PICK ch : /\ ch = entries'[i].text[j]
                    /\ \/ Told(ch[1], ch[2])
                       \/ \E m \in DOMAIN entries : \E l \in DOMAIN entries[m].text : ch = entries[m].text[l]
      BY <1>3, <2>1
    <3>2. Told(ch[1], ch[2])
      BY <3>1 DEF ShownInv
    <3>3. Told(ch[1], ch[2])'
      BY <1>2, <3>2
    <3> QED  BY <3>1, <3>3
  <2>2. ASSUME NEW i \in DOMAIN fill'.log PROVE ToldRow(fill.log[i])'
    <3>1. PICK r : r = fill'.log[i]
      OBVIOUS
    <3>2. ToldRow(r)
      BY <1>3, <2>2, <3>1 DEF ShownInv, TextInv
    <3>3. r.role = "assistant" => \A n \in 1..r.n : Told(r.turn, n)'
      BY <1>2, <3>2 DEF ToldRow
    <3> QED  BY <3>1, <3>3 DEF ToldRow
  <2> QED  BY <2>1, <2>2 DEF ShownInv
<1>4. ASSUME entries' = entries \/ entries' = <<>> PROVE Shows
  BY <1>4
<1>5. ASSUME NEW e, entries' = Append(entries, e), e.text = <<>> PROVE Shows
  <2>1. \A i \in DOMAIN entries' : (i \in DOMAIN entries /\ entries'[i] = entries[i]) \/ entries'[i] = e
    BY <1>1, <1>5
  <2> QED  BY <1>5, <2>1
<1>6. \A x, k : Line(x, k).text = <<>> /\ Card(k, x).text = <<>>
  BY DEF Line, Card
<1> HIDE DEF Shows
<1>7. CASE Send
  <2>1. entries' = Append(entries, Line("user", cur + 1)) /\ fill' = fill
    BY <1>7 DEF Send
  <2> QED  BY <1>3, <1>5, <1>6, <2>1
<1>8. CASE Cancel
  <2>1. entries' = Append(entries, Line("cancelled", cur)) /\ fill' = fill
    BY <1>8 DEF Cancel
  <2> QED  BY <1>3, <1>5, <1>6, <2>1
<1>9. CASE HearError \/ HearFailure
  <2>1. entries' = Append(entries, Line("error", cur)) /\ fill' = fill
    BY <1>9 DEF HearError, HearFailure
  <2> QED  BY <1>3, <1>5, <1>6, <2>1
<1>10. CASE HearCall
  <2>1. entries' = Append(entries, Card(cur, Heard.n)) /\ fill' = fill
    BY <1>10 DEF HearCall
  <2> QED  BY <1>3, <1>5, <1>6, <2>1
<1>11. CASE HearMeta \/ HearEnd \/ Refresh \/ ServeLoad \/ NotLoaded \/ Clear \/ ServeClear \/ ServerDies
            \/ (\E r \in {None} \cup Plans : Go(r)) \/ (\E p \in Plans : DeleteElsewhere(p))
            \/ Patch \/ ServePatch \/ PatchFails \/ (\E k \in Turns : ServerRuns(k)) \/ UNCHANGED vars
  <2>1. entries' = entries /\ fill' = fill
    BY <1>11 DEF HearMeta, HearEnd, Refresh, ServeLoad, NotLoaded, Clear, ServeClear, ServerDies, Go,
         Patch, ServePatch, PatchFails, DeleteElsewhere, ServerRuns, tabVars, vars
  <2> QED  BY <1>3, <1>4, <2>1
<1>12. CASE GotLoad \/ GotPatch
  <2>1. entries' = entries /\ (fill' = fill \/ \E p : fill' = AskChat(p))
    BY <1>12 DEF GotLoad, GotPatch
  <2> QED  BY <1>3, <1>4, <2>1 DEF AskChat
<1>13. CASE Cleared \/ DeleteShown
  <2>1. entries' = <<>> /\ (fill' = fill \/ fill' = NoFill)
    BY <1>13 DEF Cleared, DeleteShown
  <2> QED  BY <1>3, <1>4, <2>1 DEF NoFill
<1>14. CASE ServeFill
  <2>1. entries' = entries /\ fill.st = "asked"
        /\ (fill' = [fill EXCEPT !.st = "answered"]
              \/ \E c \in Latest(fill.plan) : fill' = [fill EXCEPT !.st = "answered", !.conv = c, !.log = rows[c]])
    BY <1>14 DEF ServeFill
  <2>2. fill \in [st : {"asked", "answered"}, plan : Plans, conv : {None} \cup Turns, log : Seq(RowType)]
    <3>1. fill \in FillType
      BY <1>1 DEF TabTypeOK, FillType
    <3>2. fill # NoFill
      <4>1. fill.st = "asked" /\ NoFill.st = "none"
        BY <2>1 DEF NoFill
      <4> QED  BY <4>1
    <3> QED  BY <3>1, <3>2 DEF FillType
  <2>3. CASE fill' = [fill EXCEPT !.st = "answered"]
    <3>1. fill'.log = fill.log
      BY <2>2, <2>3
    <3>2. ASSUME NEW i \in DOMAIN fill'.log PROVE ToldRow(fill.log[i])'
      <4>1. PICK r : r = fill'.log[i]
        OBVIOUS
      <4>2. ToldRow(r)
        BY <3>1, <3>2, <4>1 DEF ShownInv
      <4>3. r.role = "assistant" => \A n \in 1..r.n : Told(r.turn, n)'
        BY <1>2, <4>2 DEF ToldRow
      <4> QED  BY <4>1, <4>3 DEF ToldRow
    <3>3. ASSUME NEW i \in DOMAIN entries', NEW j \in DOMAIN entries'[i].text
          PROVE  Told(entries[i].text[j][1], entries[i].text[j][2])'
      <4>1. PICK ch : ch = entries[i].text[j]
        OBVIOUS
      <4>2. Told(ch[1], ch[2])'
        BY <1>2, <2>1, <3>3, <4>1 DEF ShownInv
      <4> QED  BY <2>1, <4>1, <4>2
    <3> QED  BY <3>2, <3>3 DEF ShownInv
  <2>4. CASE \E c \in Latest(fill.plan) : fill' = [fill EXCEPT !.st = "answered", !.conv = c, !.log = rows[c]]
    <3>1. \E c \in Turns : fill'.log = rows[c]
      BY <2>2, <2>4 DEF Latest
    <3> QED  BY <1>3, <1>4, <2>1, <3>1
  <2> QED  BY <2>1, <2>3, <2>4
<1>15. CASE GotFill
  <2>1. fill' = NoFill /\ (entries' = <<>> \/ entries' = [i \in DOMAIN fill.log |-> Shown(fill.log[i])])
    BY <1>15 DEF GotFill
  <2>2. CASE entries' = [i \in DOMAIN fill.log |-> Shown(fill.log[i])]
    <3>1. ASSUME NEW i \in DOMAIN entries', NEW j \in DOMAIN entries'[i].text
          PROVE  \E ch : ch = entries'[i].text[j] /\ Told(ch[1], ch[2])
      <4>1. PICK r : r = fill.log[i]
        OBVIOUS
      <4>2. i \in DOMAIN fill.log /\ entries'[i] = Shown(r) /\ ToldRow(r)
        BY <2>2, <3>1, <4>1 DEF ShownInv
      <4>3. CASE r.role = "user"
        BY <1>6, <3>1, <4>2, <4>3 DEF Shown
      <4>4. CASE r.role # "user"
        <5>1. entries'[i].text = [x \in 1..r.n |-> <<r.turn, x>>]
          BY <4>2, <4>4 DEF Shown, Words, Line
        <5>2. j \in 1..r.n /\ entries'[i].text[j] = <<r.turn, j>>
          BY <3>1, <5>1
        <5>3. r.role = "assistant"
          <6>1. i \in DOMAIN fill.log /\ fill.log \in Seq(RowType)
            <7>1. fill \in FillType
              BY <1>1 DEF TabTypeOK, FillType
            <7>2. NoFill.log = <<>>
              BY DEF NoFill
            <7>3. CASE fill = NoFill
              BY <4>2, <7>2, <7>3
            <7>4. CASE fill # NoFill
              BY <4>2, <7>1, <7>4 DEF FillType
            <7> QED  BY <7>3, <7>4
          <6>2. r \in RowType
            BY <4>1, <6>1
          <6> QED  BY <4>4, <6>2 DEF RowType
        <5> QED  BY <4>2, <5>2, <5>3 DEF ToldRow
      <4> QED  BY <4>3, <4>4
    <3> QED  BY <1>3, <2>1, <3>1 DEF Shows, NoFill
  <2>3. CASE entries' = <<>>
    BY <1>3, <1>4, <2>1, <2>3 DEF NoFill
  <2> QED  BY <2>1, <2>2, <2>3
<1>16. CASE HearText
  <2> DEFINE ch == <<cur, Heard.n>>
  <2>1. Told(ch[1], ch[2]) /\ fill' = fill
    <3>1. busy /\ wire[cur] # <<>> /\ Heard.kind = "text" /\ fill' = fill
      BY <1>16 DEF HearText, Hears, Heard
    <3>2. cur \in Turns /\ wire[cur] \in Seq(EventType)
      BY <1>1, <3>1 DEF TabTypeOK
    <3>3. 1 \in DOMAIN wire[cur] /\ wire[cur][1] = Heard
      BY <3>1, <3>2 DEF Heard
    <3>4. Told(cur, Heard.n)
      BY <3>1, <3>2, <3>3 DEF TextInv
    <3> QED  BY <3>1, <3>4
  <2> HIDE DEF ch
  <2>2. CASE IsA("assistant", at)
    <3> DEFINE s == Append(entries[at].text, ch)
    <3>1. entries' = [entries EXCEPT ![at].text = s] /\ at \in DOMAIN entries
      BY <1>16, <2>2 DEF HearText, IsA, ch
    <3>2. entries[at].text \in Seq(Turns \X Nat)
      BY <1>1, <3>1 DEF EntryType
    <3>3. \A j \in DOMAIN s : (j \in DOMAIN entries[at].text /\ s[j] = entries[at].text[j]) \/ s[j] = ch
      BY <3>2
    <3> HIDE DEF s
    <3>4. /\ DOMAIN entries' = DOMAIN entries /\ entries'[at].text = s
          /\ \A i \in DOMAIN entries : i # at => entries'[i] = entries[i]
      BY <1>1, <3>1 DEF EntryType
    <3>5. Shows
      <4> SUFFICES ASSUME NEW i \in DOMAIN entries', NEW j \in DOMAIN entries'[i].text
                   PROVE  \E x : /\ x = entries'[i].text[j]
                                 /\ \/ Told(x[1], x[2])
                                    \/ \E m \in DOMAIN entries : \E l \in DOMAIN entries[m].text :
                                          x = entries[m].text[l]
        BY DEF Shows
      <4>1. CASE i = at
        BY <2>1, <3>1, <3>3, <3>4, <4>1
      <4>2. CASE i # at
        BY <3>4, <4>2
      <4> QED  BY <4>1, <4>2
    <3> QED  BY <1>3, <2>1, <3>5
  <2>3. CASE ~IsA("assistant", at)
    <3> DEFINE e == Words(cur, <<ch>>)
    <3>1. entries' = Append(entries, e)
      BY <1>16, <2>3 DEF HearText, ch
    <3>2. e.text = <<ch>>
      BY DEF Words, Line
    <3> HIDE DEF e
    <3>3. \A i \in DOMAIN entries' : (i \in DOMAIN entries /\ entries'[i] = entries[i]) \/ entries'[i] = e
      BY <1>1, <3>1
    <3>4. \A j \in DOMAIN e.text : e.text[j] = ch
      BY <3>2
    <3>5. Shows
      BY <2>1, <3>3, <3>4 DEF Shows
    <3> QED  BY <1>3, <2>1, <3>5
  <2> QED  BY <2>2, <2>3
<1>17. CASE HearResult
  <2>1. /\ fill' = fill
        /\ entries' = entries \/ \E i, n : i \in DOMAIN entries /\ entries' = [entries EXCEPT ![i].result = n]
    BY <1>17 DEF HearResult, IsA
  <2>2. CASE \E i, n : i \in DOMAIN entries /\ entries' = [entries EXCEPT ![i].result = n]
    <3>1. DOMAIN entries' = DOMAIN entries /\ \A i \in DOMAIN entries : entries'[i].text = entries[i].text
      BY <1>1, <2>2 DEF EntryType
    <3> QED  BY <1>3, <2>1, <3>1 DEF Shows
  <2>3. CASE entries' = entries
    BY <1>3, <1>4, <2>1, <2>3
  <2> QED  BY <2>1, <2>2, <2>3
<1> QED
  BY <1>7, <1>8, <1>9, <1>10, <1>11, <1>12, <1>13, <1>14, <1>15, <1>16, <1>17 DEF Next, Hear

\* No text that the user has seen is lost when its turn is over, however it
\* ended, unless the statement failed or the chat is cleared (chat.go:88-96):
\* for any number of tabs' turns, chunks and events on their way.
THEOREM TextIsStored == Spec => []ShownIsStored
<1>1. Init => TextInv /\ ShownInv
  BY DEF Init, ServerInit, TextInv, PlaceInv, ShownInv, ToldRow, Unused, Request, NoConv, NoFill
<1>2. Inv3 /\ Inv3' /\ TextInv /\ ShownInv /\ [Next]_vars => TextInv' /\ ShownInv'
  <2> SUFFICES ASSUME Inv3, Inv3', TextInv, ShownInv, [Next]_vars PROVE TextInv' /\ ShownInv'
    OBVIOUS
  <2>1. CInv /\ CInv' /\ StreamInv /\ [ServerNext]_serverVars
    BY NextIsServer DEF Inv3, TInv
  <2> QED  BY <2>1, TextNext, ShownNext
<1>3. ShownInv => ShownIsStored
  BY DEF ShownInv, ShownIsStored, Told
<1> QED  BY <1>1, <1>2, <1>3, InvInv3, PTL DEF Spec
=============================================================================
