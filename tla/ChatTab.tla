------------------------------ MODULE ChatTab ------------------------------
(***************************************************************************)
(* A tab of the browser and the chat it shows: the plan that is loaded,    *)
(* the chat that is fetched for it, and the turn whose events it hears,    *)
(* each under way on its own.  The tab is composed with the server that    *)
(* ChatServer describes.                                                   *)
(***************************************************************************)
EXTENDS ChatServer

CONSTANT First          \* the plan that is open at first

ASSUME FirstAssumption == First \in Plans

VARIABLES
    route,      \* the plan of the URL, None at home
    week,       \* the plan that is loaded
    ver,        \* its version when it was read
    status,     \* what the main area shows: "ready", "error"
    load,       \* the request for the plan of the URL
    conv,       \* conversationID
    fill,       \* the request for the chat of the plan that is loaded
    entries,    \* chatEntries
    busy,       \* whether a turn runs, for the tab
    cur,        \* the last turn that was sent
    fresh,      \* whether it was sent without a conversation
    at,         \* assistantIndex, 0 when there is none
    tools,      \* toolsByID: a call -> the index of its card
    cut,        \* the turns that the user cancelled or whose server died
    clearing,   \* the request that clears the chat of a plan
    patch,      \* the PATCH of the plan
    late        \* whether the plan is one that a PATCH read before a turn ended

tabVars == <<route, week, ver, status, load, conv, fill, entries, busy, cur, fresh, at,
             tools, cut, clearing, patch, late>>
vars == <<serverVars, tabVars>>

\* Requests: a load, a fill, a clearing.
Ask(p) == [st |-> "asked", plan |-> p, ver |-> None]
NoLoad == [st |-> "none", plan |-> None, ver |-> None]
AskChat(p) == [st |-> "asked", plan |-> p, conv |-> None, log |-> <<>>]
NoFill == [st |-> "none", plan |-> None, conv |-> None, log |-> <<>>]
NoClear == [st |-> "none", plan |-> None]

\* A PATCH, with the turns that had ended when its plan was read: "ended" and
\* "late" only serve the properties.
NoPatch == [st |-> "none", plan |-> None, ver |-> None, ended |-> 0]
Ended == IF busy THEN cur - 1 ELSE cur

\* Faulty variant: the home page asks for its plan too.
ReloadAlways(r) == Ask(r)

\* The loader runs again, and its last request is ignored.
Reload(r) == IF r = None THEN NoLoad ELSE Ask(r)

\* Entries: a text is a sequence of chunks, each of a turn and with its number
\* there; a card of a tool has a call, and the call whose result it shows.
Line(e, k) == [kind |-> e, turn |-> k, text |-> <<>>, call |-> None, result |-> None]
Words(k, s) == [Line("assistant", k) EXCEPT !.text = s]
Card(k, n) == [Line("tool", k) EXCEPT !.call = n]

EntryType == [kind : {"user", "assistant", "tool", "error", "cancelled"}, turn : Turns,
              text : Seq(Turns \X Nat), call : Nat, result : Nat]

Init ==
    /\ ServerInit
    /\ route = First /\ week = First /\ ver = 1 /\ status = "ready"
    /\ load = NoLoad /\ conv = None /\ fill = NoFill /\ entries = <<>>
    /\ busy = FALSE /\ cur = 0 /\ fresh = FALSE /\ at = 0 /\ tools = <<>>
    /\ cut = {} /\ clearing = NoClear /\ patch = NoPatch /\ late = FALSE

(***************************************************************************)
(* The plan.  The loader runs again, and its last request is ignored, when *)
(* the route changes, when loadKey is bumped and when another plan is      *)
(* loaded; at home it loads nothing.                                       *)
(***************************************************************************)
Go(r) ==
    /\ Unseen
    /\ r # route
    /\ route' = r /\ load' = Reload(r)
    /\ status' = IF r = None THEN "ready" ELSE status
    /\ UNCHANGED <<week, ver, conv, fill, entries, busy, cur, fresh, at, tools, cut,
                   clearing, patch, late>>

Refresh ==
    /\ Unseen
    /\ load' = Reload(route)
    /\ UNCHANGED <<route, week, ver, status, conv, fill, entries, busy, cur, fresh, at,
                   tools, cut, clearing, patch, late>>

ServeLoad ==
    /\ load.st = "asked"
    /\ load' = [load EXCEPT !.st = "answered", !.ver = version[load.plan]]
    /\ UNCHANGED <<serverVars, route, week, ver, status, conv, fill, entries, busy, cur,
                   fresh, at,
                   tools, cut, clearing, patch, late>>

\* Another plan than the one loaded: its chat is asked for, and the chat of the
\* one before stays on display until it comes.
GotLoad ==
    /\ load.st = "answered" /\ load.ver # None
    /\ week' = load.plan /\ ver' = load.ver /\ status' = "ready" /\ late' = FALSE
    /\ IF load.plan = week THEN load' = NoLoad /\ fill' = fill
                           ELSE load' = Ask(load.plan) /\ fill' = AskChat(load.plan)
    /\ UNCHANGED <<serverVars, route, conv, entries, busy, cur, fresh, at, tools, cut,
                   clearing, patch>>

\* The plan does not exist, or the request fails.
NotLoaded ==
    /\ \/ load.st = "answered" /\ load.ver = None /\ UNCHANGED serverVars
       \/ load.st = "asked" /\ Unseen
    /\ status' = "error" /\ load' = NoLoad
    /\ UNCHANGED <<route, week, ver, conv, fill, entries, busy, cur, fresh, at, tools,
                   cut, clearing, patch, late>>

(***************************************************************************)
(* The chat of the plan that is loaded.                                    *)
(***************************************************************************)
ServeFill ==
    /\ fill.st = "asked"
    /\ \/ Latest(fill.plan) = {} /\ fill' = [fill EXCEPT !.st = "answered"]
       \/ \E c \in Latest(fill.plan) :
            fill' = [fill EXCEPT !.st = "answered", !.conv = c, !.log = rows[c]]
    /\ UNCHANGED <<serverVars, route, week, ver, status, load, conv, entries, busy, cur,
                   fresh, at,
                   tools, cut, clearing, patch, late>>

Shown(r) == IF r.role = "user" THEN Line("user", r.turn)
            ELSE Words(r.turn, [i \in 1..r.n |-> <<r.turn, i>>])

\* A request that fails leaves an empty chat.
GotFill ==
    /\ \/ /\ fill.st = "answered" /\ conv' = fill.conv
          /\ entries' = [i \in DOMAIN fill.log |-> Shown(fill.log[i])]
       \/ fill.st = "asked" /\ conv' = None /\ entries' = <<>>
    /\ fill' = NoFill
    /\ UNCHANGED <<serverVars, route, week, ver, status, load, busy, cur, fresh, at, tools,
                   cut, clearing, patch, late>>

(***************************************************************************)
(* A turn.                                                                 *)
(***************************************************************************)
Send ==
    /\ ~busy /\ cur < MaxTurns
    /\ Post(cur + 1, week, conv)
    /\ busy' = TRUE /\ cur' = cur + 1 /\ fresh' = (conv = None)
    /\ at' = 0 /\ tools' = <<>>
    /\ entries' = Append(entries, Line("user", cur + 1))
    /\ UNCHANGED <<route, week, ver, status, load, conv, fill, cut, clearing, patch, late>>

Hears(e) == busy /\ wire[cur] # <<>> /\ Head(wire[cur]).kind = e /\ Reads(cur)
Heard == Head(wire[cur])

HearMeta ==
    /\ Hears("meta")
    /\ conv' = IF fresh THEN Heard.n ELSE conv
    /\ UNCHANGED <<route, week, ver, status, load, fill, entries, busy, cur, fresh, at,
                   tools, cut, clearing, patch, late>>

IsA(e, i) == i \in DOMAIN entries /\ entries[i].kind = e

HearText ==
    /\ Hears("text")
    /\ IF IsA("assistant", at)
       THEN entries' = [entries EXCEPT ![at].text = Append(@, <<cur, Heard.n>>)] /\ at' = at
       ELSE entries' = Append(entries, Words(cur, <<<<cur, Heard.n>>>>)) /\ at' = Len(entries) + 1
    /\ UNCHANGED <<route, week, ver, status, load, conv, fill, busy, cur, fresh, tools, cut,
                   clearing, patch, late>>

\* Faulty variant: the index is taken before the card is in.
IndexedBefore(n) == [m \in DOMAIN tools \cup {n} |-> IF m = n THEN Len(entries) ELSE tools[m]]

\* toolsByID, with the cards that entries has after the call.
Indexed(n) == [m \in DOMAIN tools \cup {n} |-> IF m = n THEN Len(entries) + 1 ELSE tools[m]]

HearCall ==
    /\ Hears("call")
    /\ at' = 0 /\ tools' = Indexed(Heard.n)
    /\ entries' = Append(entries, Card(cur, Heard.n))
    /\ UNCHANGED <<route, week, ver, status, load, conv, fill, busy, cur, fresh, cut,
                   clearing, patch, late>>

HearResult ==
    /\ Hears("result") \/ Hears("news")
    /\ entries' = IF Heard.n \in DOMAIN tools /\ IsA("tool", tools[Heard.n])
                  THEN [entries EXCEPT ![tools[Heard.n]].result = Heard.n] ELSE entries
    /\ load' = IF Heard.kind = "news" THEN Reload(route) ELSE load
    /\ UNCHANGED <<route, week, ver, status, conv, fill, busy, cur, fresh, at, tools, cut,
                   clearing, patch, late>>

HearError ==
    /\ Hears("error")
    /\ entries' = Append(entries, Line("error", cur))
    /\ UNCHANGED <<route, week, ver, status, load, conv, fill, busy, cur, fresh, at, tools,
                   cut, clearing, patch, late>>

\* Faulty variant: the plan is not loaded again.
TurnEndsOnly == busy' = FALSE /\ load' = load

\* The "finally" of send: with the end of the stream, an error or an abort.
TurnEnds == busy' = FALSE /\ load' = Reload(route)

HearEnd ==
    /\ Hears("end") /\ TurnEnds
    /\ UNCHANGED <<route, week, ver, status, conv, fill, entries, cur, fresh, at, tools, cut,
                   clearing, patch, late>>

\* Faulty variant: an error skips what ends the turn.
HearFailureBusy ==
    /\ Hears("refused") \/ Hears("broken")
    /\ entries' = Append(entries, Line("error", cur))
    /\ cut' = IF Heard.kind = "broken" THEN cut \cup {cur} ELSE cut
    /\ UNCHANGED <<route, week, ver, status, load, conv, fill, busy, cur, fresh, at, tools,
                   clearing, patch, late>>

HearFailure ==
    /\ Hears("refused") \/ Hears("broken")
    /\ entries' = Append(entries, Line("error", cur))
    /\ cut' = IF Heard.kind = "broken" THEN cut \cup {cur} ELSE cut
    /\ TurnEnds
    /\ UNCHANGED <<route, week, ver, status, conv, fill, cur, fresh, at, tools, clearing,
                   patch, late>>

Cancel ==
    /\ busy /\ HangUp(cur)
    /\ entries' = Append(entries, Line("cancelled", cur))
    /\ cut' = cut \cup {cur}
    /\ TurnEnds
    /\ UNCHANGED <<route, week, ver, status, conv, fill, cur, fresh, at, tools, clearing,
                   patch, late>>

(***************************************************************************)
(* patchCurrentWeek: the answer is on display whatever the tab shows by    *)
(* now, and whatever was written since it was read.  One at a time.        *)
(***************************************************************************)
Patch ==
    /\ Unseen
    /\ route # None /\ week # None /\ status = "ready" /\ patch = NoPatch
    /\ patch' = [NoPatch EXCEPT !.st = "asked", !.plan = week]
    /\ UNCHANGED <<route, week, ver, status, load, conv, fill, entries, busy, cur, fresh, at,
                   tools, cut, clearing, late>>

ServePatch ==
    /\ patch.st = "asked"
    /\ PatchPlan(patch.plan)
    /\ patch' = [patch EXCEPT !.st = "answered", !.ver = version'[patch.plan], !.ended = Ended]
    /\ UNCHANGED <<route, week, ver, status, load, conv, fill, entries, busy, cur, fresh, at,
                   tools, cut, clearing, late>>

GotPatch ==
    /\ patch.st = "answered"
    /\ week' = patch.plan /\ ver' = patch.ver /\ late' = (patch.ended < Ended)
    /\ IF patch.plan = week
       THEN UNCHANGED <<status, load, fill>>
       ELSE /\ load' = Reload(route) /\ fill' = AskChat(patch.plan)
            /\ status' = IF route = None THEN "ready" ELSE status
    /\ patch' = NoPatch
    /\ UNCHANGED <<serverVars, route, conv, entries, busy, cur, fresh, at, tools, cut,
                   clearing>>

\* The plan is gone, or the request fails: a notice.
PatchFails ==
    /\ patch # NoPatch /\ patch' = NoPatch
    /\ UNCHANGED <<serverVars, route, week, ver, status, load, conv, fill, entries, busy,
                   cur, fresh,
                   at, tools, cut, clearing, late>>

(***************************************************************************)
(* Clearing the chat, and deleting a plan.                                 *)
(***************************************************************************)
\* The button needs an idle tab; the abort of clearChat finds no turn.
Clear ==
    /\ Unseen
    /\ week # None /\ ~busy /\ entries # <<>> /\ clearing = NoClear
    /\ clearing' = [st |-> "asked", plan |-> week]
    /\ UNCHANGED <<route, week, ver, status, load, conv, fill, entries, busy, cur, fresh,
                   at, tools, cut, patch, late>>

ServeClear ==
    /\ clearing.st = "asked"
    /\ clearing' = [clearing EXCEPT !.st = "answered"]
    /\ DeleteConversations(clearing.plan)
    /\ UNCHANGED <<route, week, ver, status, load, conv, fill, entries, busy, cur, fresh, at,
                   tools, cut, patch, late>>

\* Also when the request failed.
Cleared ==
    /\ clearing # NoClear
    /\ clearing' = NoClear /\ entries' = <<>> /\ conv' = None
    /\ UNCHANGED <<serverVars, route, week, ver, status, load, fill, busy, cur, fresh, at,
                   tools, cut, patch, late>>

\* deletePlan: the plan that is loaded gives way to the home page.
DeleteShown ==
    /\ week # None /\ DeletePlan(week)
    /\ route' = None /\ week' = None /\ status' = "ready" /\ load' = NoLoad
    /\ fill' = NoFill /\ entries' = <<>> /\ conv' = None
    /\ UNCHANGED <<ver, busy, cur, fresh, at, tools, cut, clearing, patch, late>>

\* Another tab deletes a plan.
DeleteElsewhere(p) ==
    /\ DeletePlan(p)
    /\ UNCHANGED <<route, week, ver, status, load, conv, fill, entries, busy, cur, fresh, at,
                   tools,
                   cut, clearing, patch, late>>

ServerRuns(k) == ServerStep(k) /\ UNCHANGED tabVars
ServerDies == Crash /\ UNCHANGED tabVars

Hear ==
    \/ HearMeta \/ HearText \/ HearCall \/ HearResult \/ HearError \/ HearEnd \/ HearFailure

Next ==
    \/ \E r \in {None} \cup Plans : Go(r)
    \/ Refresh \/ ServeLoad \/ GotLoad \/ NotLoaded \/ ServeFill \/ GotFill
    \/ Send \/ Hear \/ Cancel
    \/ Patch \/ ServePatch \/ GotPatch \/ PatchFails
    \/ Clear \/ ServeClear \/ Cleared \/ DeleteShown
    \/ \E p \in Plans : DeleteElsewhere(p)
    \/ \E k \in Turns : ServerRuns(k)
    \/ ServerDies

\* The provider ends its streams, the tools return, and the tab reads what the
\* connection brings.
Fairness == WF_vars(Hear) /\ \A k \in Turns : WF_vars(ServerRuns(k))

Spec == Init /\ [][Next]_vars /\ Fairness
-----------------------------------------------------------------------------
TabTypeOK ==
    /\ route \in {None} \cup Plans /\ week \in {None} \cup Plans
    /\ ver \in Nat /\ status \in {"ready", "error"}
    /\ load \in {NoLoad} \cup [st : {"asked", "answered"}, plan : Plans, ver : Nat]
    /\ conv \in {None} \cup Turns
    /\ fill \in {NoFill} \cup [st : {"asked", "answered"}, plan : Plans, conv : {None} \cup Turns,
                               log : Seq(RowType)]
    /\ entries \in Seq(EntryType)
    /\ busy \in BOOLEAN /\ cur \in {0} \cup Turns /\ (busy => cur # 0) /\ fresh \in BOOLEAN
    /\ at \in Nat /\ DOMAIN tools \subseteq Nat /\ \A n \in DOMAIN tools : tools[n] \in Nat
    /\ cut \subseteq Turns
    /\ clearing \in {NoClear} \cup [st : {"asked", "answered"}, plan : Plans]
    /\ patch \in {NoPatch} \cup [st : {"asked", "answered"}, plan : Plans, ver : Nat, ended : Nat]
    /\ late \in BOOLEAN

\* Types.  In particular the home page asks for no plan (App.tsx:150-156).
TypeOK == ServerTypeOK /\ TabTypeOK

\* What goes to the model is whole: every call of an earlier round has its
\* result, in order, and the message of the turn is not also in its history
\* (agent.go:136, 172-208; chat.go:47, 66).
RequestWhole ==
    \A k \in Turns : turn[k].pc = "model" =>
        /\ \A i \in DOMAIN turn[k].rounds : turn[k].rounds[i].results = turn[k].rounds[i].calls
        /\ k \notin turn[k].seen

\* The nth chunk of turn k is stored, or the turn is not over, or something took
\* away what it stored.
Kept(k, n) ==
    (turn[k].pc = "over" /\ turn[k].kept /\ turn[k].conv # None /\ convs[turn[k].conv].live)
    => \E i \in DOMAIN rows[turn[k].conv] :
          LET r == rows[turn[k].conv][i]
          IN  r.role = "assistant" /\ r.turn = k /\ n =< r.n

\* No text that the user has seen is lost when its turn is over, however it
\* ended, unless the statement failed or the chat is cleared (chat.go:88-96).
ShownIsStored ==
    \A i \in DOMAIN entries : \A j \in DOMAIN entries[i].text :
        LET chunk == entries[i].text[j] IN Kept(chunk[1], chunk[2])

\* A card shows the result of its own call, and waits for one only while its
\* turn runs or when the turn was cut (ChatDrawer.tsx:318-341).
CardsSettle ==
    \A i \in DOMAIN entries : entries[i].kind = "tool" =>
        \/ entries[i].result = entries[i].call
        \/ entries[i].result = None
           /\ (entries[i].turn \in cut \/ (busy /\ entries[i].turn = cur))

\* The plan is at rest: the tab is idle on its page and loads nothing.
AtRest == ~busy /\ load = NoLoad /\ status = "ready" /\ route = week
CoversTurns == \A k \in 1..cur : (k \notin cut /\ turn[k].plan = week) => ver >= turn[k].ver

\* The plan on display is not older than the turns that ended (App.tsx:264-312),
\* unless it is the answer of a PATCH that was read before one of them ended and
\* came after it.
MenuFresh == (AtRest /\ ~late) => CoversTurns

\* The plan on display is not older than the turns that ended, whatever else the
\* tab was sent: "Refetch to pick up the new rows; this is what makes the menu
\* feel live" (App.tsx:265).  The answer of a PATCH breaks it (App.tsx:390).
MenuLive == AtRest => CoversTurns

\* A chat holds the messages about one plan.
OnePlanPerChat ==
    \A c \in Turns : (convs[c].live /\ convs[c].plan # None) =>
        \A k \in UserTurns(rows[c]) : turn[k].plan = convs[c].plan

\* The tab does not stay busy.
BusyEnds == busy ~> ~busy
============================================================================
