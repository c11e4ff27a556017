----------------------------- MODULE ChatServer -----------------------------
(***************************************************************************)
(* The server's side of the chat: which conversation a message goes to,    *)
(* the turn of the agent loop, its events on their way to the browser, and *)
(* what is stored of it.                                                   *)
(*                                                                         *)
(* A turn is one POST of a message.  A conversation has the number of the  *)
(* turn that created it.  Of a plan only a version is kept, which counts   *)
(* the writes to it; a text is a number of chunks, a tool call is a number *)
(* within its turn.                                                        *)
(***************************************************************************)
EXTENDS Integers, Sequences

CONSTANTS Plans,
          MaxTurns,     \* bound on the messages sent
          MaxIters,     \* Config.MaxIters
          MaxCalls,     \* bound on the tool calls of one answer of the model
          MaxWire,      \* how many events the connection holds
          MaxWork,      \* bound on the chunks of text and the calls, all turns together
          MaxUpsets     \* bound on the failures, the crashes and what the user does amid it

ASSUME ChatAssumption ==
    /\ Plans \subseteq Nat \ {0}
    /\ MaxTurns \in Nat /\ MaxIters \in Nat \ {0}
    /\ MaxCalls \in Nat /\ MaxWork \in Nat /\ MaxWire \in Nat \ {0} /\ MaxUpsets \in Nat

None == 0               \* a null id; the version of a plan that is deleted
Turns == 1..MaxTurns

VARIABLES
    version,    \* plan -> its version
    convs,      \* conversation -> whether it exists, its plan, and its update time
    clock,      \* the database's clock, in updates of conversations
    rows,       \* conversation -> its messages
    turn,       \* the turns
    wire,       \* turn -> the events that the browser has not read
    hungup,     \* the turns whose connection the browser has closed
    work,       \* the chunks and the calls so far
    upsets      \* the failures so far, the crashes, and the user's moves

serverVars == <<version, convs, clock, rows, turn, wire, hungup, work, upsets>>

Event(e, n) == [kind |-> e, n |-> n]
NoConv == [live |-> FALSE, plan |-> None, updated |-> 0]
Row(r, k, n) == [role |-> r, turn |-> k, n |-> n]

\* One round of the loop: the calls that the model asks for, and the results
\* that go back to it.
Round(c, m) == [calls |-> c, results |-> <<>>, more |-> m]

\* A turn: its place in the code, the plan it is bound to, the conversation it
\* names and the one it gets, the messages that its history has, its rounds,
\* how many calls of the last one have returned, and the chunks said.  Two
\* fields only serve the properties: "kept" turns false when a statement that
\* stores the text fails, "ver" is the plan's version at the end.
Request(p, c) ==
    [pc |-> "begin", plan |-> p, ask |-> c, conv |-> None, seen |-> {}, rounds |-> <<>>,
     done |-> 0, said |-> 0, kept |-> TRUE, ver |-> None]

Unused == [Request(None, None) EXCEPT !.pc = "none"]

Places == {"none", "begin", "insert", "load", "save", "model", "batch", "tool", "finish", "over"}
EventType ==
    [kind : {"meta"}, n : Turns]
        \cup [kind : {"text", "call", "result", "news", "error", "refused", "broken", "end"}, n : Nat]
ConvType == [live : BOOLEAN, plan : {None} \cup Plans, updated : Nat]
RowType == [role : {"user", "assistant"}, turn : Turns, n : Nat]
RoundType == [calls : Seq(Nat), results : Seq(Nat), more : BOOLEAN]
TurnType ==
    [pc : Places, plan : {None} \cup Plans, ask : {None} \cup Turns, conv : {None} \cup Turns,
     seen : SUBSET Turns, rounds : Seq(RoundType), done : Nat, said : Nat, kept : BOOLEAN, ver : Nat]

ServerInit ==
    /\ version = [p \in Plans |-> 1]
    /\ convs = [c \in Turns |-> NoConv] /\ clock = 0
    /\ rows = [c \in Turns |-> <<>>]
    /\ turn = [k \in Turns |-> Unused]
    /\ wire = [k \in Turns |-> <<>>]
    /\ hungup = {} /\ work = 0 /\ upsets = 0

Upset == upsets < MaxUpsets /\ upsets' = upsets + 1

Active(k) == turn[k].pc \notin {"none", "over"}

(***************************************************************************)
(* The connection.  What is written to a closed one is lost.               *)
(***************************************************************************)
Sends(k, e) ==
    /\ k \in hungup \/ Len(wire[k]) < MaxWire
    /\ wire' = IF k \in hungup THEN wire ELSE [wire EXCEPT ![k] = Append(@, e)]

\* The browser posts a message.
Post(k, p, c) ==
    /\ turn[k].pc = "none" /\ \A j \in 1..(k - 1) : turn[j].pc # "none"
    /\ turn' = [turn EXCEPT ![k] = Request(p, c)]
    /\ UNCHANGED <<version, convs, clock, rows, wire, hungup, work, upsets>>

\* The browser reads an event.
Reads(k) ==
    /\ wire[k] # <<>>
    /\ wire' = [wire EXCEPT ![k] = Tail(@)]
    /\ UNCHANGED <<version, convs, clock, rows, turn, hungup, work, upsets>>

\* The browser aborts the request.
HangUp(k) ==
    /\ Upset
    /\ hungup' = hungup \cup {k}
    /\ wire' = [wire EXCEPT ![k] = <<>>]
    /\ UNCHANGED <<version, convs, clock, rows, turn, work>>

(***************************************************************************)
(* ensureConversation, loadHistory, saveMessage.                           *)
(***************************************************************************)
Latest(p) ==
    LET of == {c \in Turns : convs[c].live /\ convs[c].plan = p}
    IN  {c \in of : \A d \in of : convs[d].updated =< convs[c].updated}

\* The conversation that the request names, if it exists; else the latest of
\* its plan.
Found(k) ==
    IF turn[k].ask # None THEN {c \in {turn[k].ask} : convs[c].live}
    ELSE {c \in Latest(turn[k].plan) : turn[k].plan # None}

UseConversation(k) ==
    /\ turn[k].pc = "begin"
    /\ \E c \in Found(k) :
         /\ turn' = [turn EXCEPT ![k].pc = "load", ![k].conv = c]
         /\ convs' = [convs EXCEPT ![c].updated = clock + 1] /\ clock' = clock + 1
    /\ UNCHANGED <<version, rows, wire, hungup, work, upsets>>

\* A SELECT that fails is taken for one that finds none.
NoConversation(k) ==
    /\ turn[k].pc = "begin" /\ turn[k].ask = None
    /\ (Found(k) = {} /\ upsets' = upsets) \/ (turn[k].plan # None /\ Upset)
    /\ turn' = [turn EXCEPT ![k].pc = "insert"]
    /\ UNCHANGED <<version, convs, clock, rows, wire, hungup, work>>

\* The row cannot refer to a plan that is deleted.
PlanGone(k) == turn[k].plan # None /\ version[turn[k].plan] = None

InsertConversation(k) ==
    /\ turn[k].pc = "insert" /\ ~PlanGone(k)
    /\ convs' = [convs EXCEPT ![k] = [live |-> TRUE, plan |-> turn[k].plan, updated |-> clock + 1]]
    /\ clock' = clock + 1
    /\ turn' = [turn EXCEPT ![k].pc = "load", ![k].conv = k]
    /\ UNCHANGED <<version, rows, wire, hungup, work, upsets>>

\* What is left of a turn when its handler returns.
Over(k, kept) ==
    [Request(turn[k].plan, None) EXCEPT !.pc = "over", !.conv = turn[k].conv, !.kept = kept,
       !.ver = IF turn[k].plan = None THEN None ELSE version[turn[k].plan]]

Ends(k, kept) == turn' = [turn EXCEPT ![k] = Over(k, kept)]

\* The conversation is not found, the new one refers to no plan, or a statement
\* fails: 500.
Rejected(k) ==
    \/ turn[k].pc = "begin" /\ turn[k].ask # None /\ Found(k) = {}
    \/ turn[k].pc = "insert" /\ PlanGone(k)

Refuse(k) ==
    /\ turn[k].pc \in {"begin", "insert", "load"}
    /\ (Rejected(k) /\ upsets' = upsets) \/ Upset
    /\ Sends(k, Event("refused", None))
    /\ Ends(k, TRUE)
    /\ UNCHANGED <<version, convs, clock, rows, hungup, work>>

UserTurns(log) == {log[i].turn : i \in {j \in DOMAIN log : log[j].role = "user"}}

LoadHistory(k) ==
    /\ turn[k].pc = "load"
    /\ Sends(k, Event("meta", turn[k].conv))
    /\ turn' = [turn EXCEPT ![k].pc = "save", ![k].seen = UserTurns(rows[turn[k].conv])]
    /\ UNCHANGED <<version, convs, clock, rows, hungup, work, upsets>>

\* An INSERT refers to a conversation that exists.
Stores(c, r) == convs[c].live /\ rows' = [rows EXCEPT ![c] = Append(@, r)]

Fails(c) == (~convs[c].live /\ upsets' = upsets) \/ Upset

\* A failure is logged and the turn goes on.
SaveUser(k) ==
    /\ turn[k].pc = "save"
    /\ \/ Stores(turn[k].conv, Row("user", k, 1)) /\ upsets' = upsets
       \/ Fails(turn[k].conv) /\ UNCHANGED rows
    /\ turn' = [turn EXCEPT ![k].pc = "model"]
    /\ UNCHANGED <<version, convs, clock, wire, hungup, work>>

(***************************************************************************)
(* Agent.Run.                                                              *)
(***************************************************************************)
LastRound(k) == turn[k].rounds[Len(turn[k].rounds)]

\* A chunk of the model's text; its event has its number.
Say(k) ==
    /\ turn[k].pc = "model" /\ work < MaxWork /\ work' = work + 1
    /\ Sends(k, Event("text", turn[k].said + 1))
    /\ turn' = [turn EXCEPT ![k].said = @ + 1]
    /\ UNCHANGED <<version, convs, clock, rows, hungup, upsets>>

\* The stream ends with c calls, "more" when it stopped for their results.
ModelStops(k, c, more) ==
    LET n == MaxCalls * Len(turn[k].rounds)
    IN  /\ turn[k].pc = "model"
        /\ work + c =< MaxWork /\ work' = work + c
        /\ turn' = [turn EXCEPT ![k].pc = "batch", ![k].done = 0,
                      ![k].rounds = Append(@, Round([i \in 1..c |-> n + i], more))]
        /\ UNCHANGED <<version, convs, clock, rows, wire, hungup, upsets>>

\* No provider is configured, the stream fails, or the request is cancelled.
ModelFails(k) ==
    /\ turn[k].pc = "model"
    /\ Sends(k, Event("error", None))
    /\ turn' = [turn EXCEPT ![k].pc = "finish"]
    /\ UNCHANGED <<version, convs, clock, rows, hungup, work, upsets>>

CallTool(k) ==
    /\ turn[k].pc = "batch" /\ turn[k].done < Len(LastRound(k).calls)
    /\ Sends(k, Event("call", LastRound(k).calls[turn[k].done + 1]))
    /\ turn' = [turn EXCEPT ![k].pc = "tool"]
    /\ UNCHANGED <<version, convs, clock, rows, hungup, work, upsets>>

\* What a call may do: read, fail, write with a tool of MUTATING_TOOLS ("news"),
\* or write with one that the set leaves out, as update_exception.
Outcomes == {"read", "failed", "news", "silent"}

\* A turn without a plan may write to any.
Writes(k) ==
    \E p \in {q \in Plans : turn[k].plan \in {None, q} /\ version[q] # None} :
        version' = [version EXCEPT ![p] = @ + 1]

\* Faulty variant: a call that fails has no result for the model.
ToolReturnsIfFine(k, o) ==
    LET n == LastRound(k).calls[turn[k].done + 1]
    IN  /\ turn[k].pc = "tool"
        /\ IF o \in {"news", "silent"} THEN Writes(k) ELSE UNCHANGED version
        /\ Sends(k, Event(IF o = "news" THEN "news" ELSE "result", n))
        /\ turn' = [turn EXCEPT ![k].pc = "batch", ![k].done = @ + 1,
                      ![k].rounds[Len(turn[k].rounds)].results = IF o = "failed" THEN @ ELSE Append(@, n)]
        /\ UNCHANGED <<convs, clock, rows, hungup, work, upsets>>

ToolReturns(k, o) ==
    LET n == LastRound(k).calls[turn[k].done + 1]
    IN  /\ turn[k].pc = "tool"
        /\ IF o \in {"news", "silent"} THEN Writes(k) ELSE UNCHANGED version
        /\ Sends(k, Event(IF o = "news" THEN "news" ELSE "result", n))
        /\ turn' = [turn EXCEPT ![k].pc = "batch", ![k].done = @ + 1,
                      ![k].rounds[Len(turn[k].rounds)].results = Append(@, n)]
        /\ UNCHANGED <<convs, clock, rows, hungup, work, upsets>>

RoundOver(k) == turn[k].pc = "batch" /\ turn[k].done = Len(LastRound(k).calls)

\* The results go back to the model.
NextRound(k) ==
    /\ RoundOver(k) /\ LastRound(k).more /\ LastRound(k).calls # <<>>
    /\ Len(turn[k].rounds) < MaxIters
    /\ turn' = [turn EXCEPT ![k].pc = "model"]
    /\ UNCHANGED <<version, convs, clock, rows, wire, hungup, work, upsets>>

Done(k) ==
    /\ RoundOver(k) /\ ~LastRound(k).more
    /\ turn' = [turn EXCEPT ![k].pc = "finish"]
    /\ UNCHANGED <<version, convs, clock, rows, wire, hungup, work, upsets>>

\* The model stopped for tools and called none, or the rounds are used up.
GiveUp(k) ==
    /\ RoundOver(k) /\ LastRound(k).more
    /\ LastRound(k).calls = <<>> \/ Len(turn[k].rounds) = MaxIters
    /\ Sends(k, Event("error", None))
    /\ turn' = [turn EXCEPT ![k].pc = "finish"]
    /\ UNCHANGED <<version, convs, clock, rows, hungup, work, upsets>>

(***************************************************************************)
(* The end of handleChat.  The text is stored under a context of its own,  *)
(* so it is even if the browser is gone; the statement may fail all the    *)
(* same.  The event "cancelled" is left out: it is written when the        *)
(* connection is closed, and the browser never reads it.                   *)
(***************************************************************************)
\* Faulty variant: the text is stored under the request's own context.
FinishUnlessCancelled(k) ==
    /\ turn[k].pc = "finish"
    /\ IF turn[k].said > 0 /\ k \notin hungup
       THEN Stores(turn[k].conv, Row("assistant", k, turn[k].said)) ELSE UNCHANGED rows
    /\ Ends(k, TRUE)
    /\ Sends(k, Event("end", None))
    /\ UNCHANGED <<version, convs, clock, hungup, work, upsets>>

Finish(k) ==
    /\ turn[k].pc = "finish"
    /\ \/ turn[k].said > 0 /\ Stores(turn[k].conv, Row("assistant", k, turn[k].said)) /\ upsets' = upsets
          /\ Ends(k, TRUE)
       \/ turn[k].said > 0 /\ Fails(turn[k].conv) /\ UNCHANGED rows /\ Ends(k, FALSE)
       \/ turn[k].said = 0 /\ UNCHANGED <<rows, upsets>> /\ Ends(k, TRUE)
    /\ Sends(k, Event("end", None))
    /\ UNCHANGED <<version, convs, clock, hungup, work>>

(***************************************************************************)
(* What other requests and the machine do.                                 *)
(***************************************************************************)
\* handleDeleteWeekConversations
DeleteConversations(p) ==
    LET gone == {c \in Turns : convs[c].plan = p}
    IN  /\ convs' = [c \in Turns |-> IF c \in gone THEN NoConv ELSE convs[c]]
        /\ rows' = [c \in Turns |-> IF c \in gone THEN <<>> ELSE rows[c]]
        /\ UNCHANGED <<version, clock, turn, wire, hungup, work, upsets>>

\* handleDeleteWeek: ON DELETE SET NULL
DeletePlan(p) ==
    /\ Upset
    /\ version[p] # None
    /\ version' = [version EXCEPT ![p] = None]
    /\ convs' = [c \in Turns |-> IF convs[c].plan = p THEN [convs[c] EXCEPT !.plan = None] ELSE convs[c]]
    /\ UNCHANGED <<clock, rows, turn, wire, hungup, work>>

\* handlePatchWeek: the plan is written, and then read for the answer.
PatchPlan(p) ==
    /\ version[p] # None
    /\ version' = [version EXCEPT ![p] = @ + 1]
    /\ UNCHANGED <<convs, clock, rows, turn, wire, hungup, work, upsets>>

\* An upset that leaves the server as it is: a request for a plan fails, or the
\* user does something that sends no message.
Unseen == Upset /\ UNCHANGED <<version, convs, clock, rows, turn, wire, hungup, work>>

\* The server dies and is started again.
Crash ==
    LET lost == {k \in Turns : Active(k)}
    IN  /\ lost # {} /\ Upset
        /\ turn' = [k \in Turns |-> IF k \in lost THEN Over(k, FALSE) ELSE turn[k]]
        /\ wire' = [k \in Turns |-> IF k \in lost \ hungup THEN Append(wire[k], Event("broken", None))
                                                           ELSE wire[k]]
        /\ UNCHANGED <<version, convs, clock, rows, hungup, work>>

ServerStep(k) ==
    \/ UseConversation(k) \/ NoConversation(k) \/ InsertConversation(k) \/ Refuse(k)
    \/ LoadHistory(k) \/ SaveUser(k) \/ Say(k) \/ ModelFails(k) \/ CallTool(k)
    \/ \E c \in 0..MaxCalls, more \in BOOLEAN : ModelStops(k, c, more)
    \/ \E o \in Outcomes : ToolReturns(k, o)
    \/ NextRound(k) \/ Done(k) \/ GiveUp(k) \/ Finish(k)

ServerNext ==
    \/ \E k \in Turns : ServerStep(k) \/ Reads(k) \/ HangUp(k)
    \/ \E k \in Turns, p \in {None} \cup Plans, c \in {None} \cup Turns : Post(k, p, c)
    \/ \E p \in Plans : DeleteConversations(p) \/ DeletePlan(p) \/ PatchPlan(p)
    \/ Unseen \/ Crash

ServerTypeOK ==
    /\ version \in [Plans -> Nat]
    /\ convs \in [Turns -> ConvType] /\ clock \in Nat
    /\ rows \in [Turns -> Seq(RowType)]
    /\ turn \in [Turns -> TurnType]
    /\ wire \in [Turns -> Seq(EventType)]
    /\ hungup \subseteq Turns /\ work \in Nat /\ upsets \in Nat

ServerSpec == ServerInit /\ [][ServerNext]_serverVars
=============================================================================
