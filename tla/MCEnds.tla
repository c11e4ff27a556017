------------------------------- MODULE MCEnds -------------------------------
(***************************************************************************)
(* One instance for TLC of what has to end: the turns of the chat, and the *)
(* calls to the shop that their tools make.  The two share no state: the   *)
(* chat takes it that a tool returns.  A behaviour follows one of them;    *)
(* the other stays as it is.                                               *)
(***************************************************************************)
EXTENDS ChatTab

CONSTANTS Chats, Accounts, Kinds

VARIABLES creds, known, mu, acct, cookie, csrf, authenticated, saved, pc, job, reply, seen, calm,
          focus

sessionVars == <<creds, known, mu, acct, cookie, csrf, authenticated, saved, pc, job, reply,
                 seen, calm>>

Session == INSTANCE WillysSession

EndsInit ==
    /\ Init /\ Session!Init /\ ~calm
    /\ focus \in {"chat", "calls"}

\* Settings are saved while no call is past its check: what is saved later is
\* read by the next check all the same.
Settled == creds' # creds => \A c \in Chats : pc[c] \in {"idle", "lock"}

EndsNext ==
    \/ focus = "chat" /\ Next /\ UNCHANGED <<focus, sessionVars>>
    \/ focus = "calls" /\ Session!Next /\ Settled /\ UNCHANGED <<focus, vars>>

EndsFairness ==
    /\ Fairness
    /\ \A c \in Chats : WF_sessionVars(Session!Work(c)) /\ SF_sessionVars(Session!Acquire(c))

EndsSpec == EndsInit /\ [][EndsNext]_<<focus, vars, sessionVars>> /\ EndsFairness

\* Every shop call of a chat returns, whatever expires, fails or changes amid it
\* (willys.go ensureLoggedIn and the retry; WillysSession has the property).
CallsEnd == Session!CallsEnd
=============================================================================
