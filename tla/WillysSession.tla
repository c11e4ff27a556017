--------------------------- MODULE WillysSession ---------------------------
(***************************************************************************)
(* The shop session that every chat shares: one willys.Client (cookie,     *)
(* CSRF token, authenticated flag behind an RWMutex) under one             *)
(* WillysProvider, whose mutex serialises logins only.  Each chat makes    *)
(* one shop call after another; the calls of several chats overlap.        *)
(*                                                                         *)
(* A request is two actions: do takes a snapshot of the cookie and the     *)
(* shop answers it (Send), and later the answer's Set-Cookie is stored and *)
(* the caller goes on (the others).  No lock is held in between.           *)
(*                                                                         *)
(* The shop is external: Answers is what the client's comments and tests   *)
(* say of it.                                                              *)
(***************************************************************************)
EXTENDS Integers

CONSTANTS Chats,        \* the chats that can make a shop call
          Accounts,     \* the accounts (username and password) in Settings
          Kinds         \* the kinds of call that the chats make

ASSUME SessionAssumption ==
    /\ Accounts \subseteq Nat \ {0}
    /\ 0 \notin Chats
    /\ Kinds \subseteq {"search", "get", "add", "clear"}

\* Whose session a cookie is, other than an account's.
Guest == 0              \* an anonymous session of the shop
NoCookie == -1          \* no JSESSIONID
Expired == -2           \* a session the shop has ended

NoCreds == 0            \* the provider is not configured
Nobody == 0             \* nobody holds the login mutex

VARIABLES
    creds,          \* the account configured in Settings
    known,          \* WillysProvider.creds: the account of the last login
    mu,             \* WillysProvider.mu: the chat that is logging in
    acct,           \* the account it logs in
    cookie,         \* Client.cookies: whose session it is
    csrf,           \* Client.csrfToken is set
    authenticated,  \* Client.authenticated
    saved,          \* the cookie in willys_session
    pc,             \* chat -> the request or check its call is at
    job,            \* chat -> the kind of call, and how often fn was begun
    reply,          \* chat -> the answer on its way to it
    seen,           \* history: the accounts configured since its last check
    calm            \* no two calls overlap and every request is answered

client == <<cookie, csrf, authenticated, saved>>
vars == <<creds, known, mu, acct, client, pc, job, reply, seen, calm>>

LoginPcs == {"config", "csrf1", "login", "redirect", "csrf2", "customer"}
CallPcs == {"search", "authWrite", "token", "write", "authRead", "read"}
CartRequests == {"write", "read"}

Ok(c, w) == [status |-> "ok", cookie |-> c, who |-> w]
Bare(s) == [status |-> s, cookie |-> NoCookie, who |-> Guest]
NoReply == Bare("none")
Denied == Bare("denied")        \* 401, 403
Failed == Bare("failed")        \* any other status
Lost == Bare("lost")            \* no answer
NoJob == [kind |-> "none", tries |-> 0]

\* Every variable has its type, and the login mutex is held by the chat that
\* is logging in and by no other (willys.go ensureLoggedIn).
TypeOK ==
    /\ creds \in Accounts \cup {NoCreds}
    /\ known \in Accounts \cup {NoCreds}
    /\ acct \in Accounts \cup {NoCreds}
    /\ mu \in Chats \cup {Nobody}
    /\ cookie \in Accounts \cup {Guest, NoCookie, Expired}
    /\ saved \in Accounts \cup {Guest, NoCookie, Expired}
    /\ csrf \in BOOLEAN /\ authenticated \in BOOLEAN /\ calm \in BOOLEAN
    /\ pc \in [Chats -> {"idle", "lock"} \cup LoginPcs \cup CallPcs]
    /\ job \in [Chats -> [kind : Kinds \cup {"none"}, tries : 0..2]]
    /\ reply \in [Chats -> [status : {"none", "ok", "denied", "failed", "lost"},
                            cookie : Accounts \cup {Guest, NoCookie},
                            who : Accounts \cup {Guest}]]
    /\ seen \in [Chats -> SUBSET (Accounts \cup {NoCreds})]
    /\ \A c \in Chats : mu = c <=> pc[c] \in LoginPcs

Init ==
    /\ creds = NoCreds /\ known = NoCreds /\ acct = NoCreds /\ mu = Nobody
    /\ cookie = NoCookie /\ csrf = FALSE /\ authenticated = FALSE
    /\ saved = NoCookie
    /\ pc = [c \in Chats |-> "idle"]
    /\ job = [c \in Chats |-> NoJob]
    /\ reply = [c \in Chats |-> NoReply]
    /\ seen = [c \in Chats |-> {}]
    /\ calm \in BOOLEAN

Goto(c, l) == pc' = [pc EXCEPT ![c] = l]

\* The call returns to its tool, with a result or an error.
EndCall(c) ==
    /\ Goto(c, "idle")
    /\ job' = [job EXCEPT ![c] = NoJob]
    /\ seen' = [seen EXCEPT ![c] = {}]

\* Client.ClearState.
ClearState ==
    /\ cookie' = NoCookie /\ csrf' = FALSE /\ authenticated' = FALSE
    /\ saved' = NoCookie

\* Client.parseCookies.
StoreCookie(c) == cookie' = IF reply[c].cookie = NoCookie THEN cookie
                            ELSE reply[c].cookie

Consume(c) == reply' = [reply EXCEPT ![c] = NoReply]

(***************************************************************************)
(* withAuth and ensureLoggedIn.                                            *)
(***************************************************************************)
\* Where fn begins for each kind of call.
FirstRequest(k) ==
    CASE k = "search" -> "search"
      [] k = "get"    -> "authRead"
      [] OTHER        -> "authWrite"

\* A tool calls the provider.
Start(c, k) ==
    /\ pc[c] = "idle"
    /\ calm => \A d \in Chats : pc[d] = "idle"
    /\ Goto(c, "lock")
    /\ job' = [job EXCEPT ![c] = [kind |-> k, tries |-> 1]]
    /\ UNCHANGED <<creds, known, mu, acct, client, reply, seen, calm>>

NotConfigured(c) ==
    /\ pc[c] = "lock" /\ mu = Nobody
    /\ creds = NoCreds
    /\ EndCall(c)
    /\ UNCHANGED <<creds, known, mu, acct, client, reply, calm>>

\* Faulty variant: a session is good whatever the credentials are now.
StillLoggedInAsAnyone(c) ==
    /\ pc[c] = "lock" /\ mu = Nobody
    /\ creds # NoCreds
    /\ job[c].tries = 1 /\ authenticated
    /\ Goto(c, FirstRequest(job[c].kind))
    /\ seen' = [seen EXCEPT ![c] = {creds}]
    /\ UNCHANGED <<creds, known, mu, acct, client, job, reply, calm>>

\* The first try needs no login when the flag is up and the credentials are
\* those of the last login.
StillLoggedIn(c) ==
    /\ pc[c] = "lock" /\ mu = Nobody
    /\ creds # NoCreds /\ creds = known
    /\ job[c].tries = 1 /\ authenticated
    /\ Goto(c, FirstRequest(job[c].kind))
    /\ seen' = [seen EXCEPT ![c] = {creds}]
    /\ UNCHANGED <<creds, known, mu, acct, client, job, reply, calm>>

\* Otherwise it logs in, and keeps the mutex for all of Login.  Changed
\* credentials clear the session first; a forced login does not.
BeginLogin(c) ==
    /\ pc[c] = "lock" /\ mu = Nobody
    /\ creds # NoCreds
    /\ job[c].tries = 2 \/ creds # known \/ ~authenticated
    /\ mu' = c /\ acct' = creds
    /\ IF creds # known THEN ClearState ELSE UNCHANGED client
    /\ Goto(c, "config")
    /\ seen' = [seen EXCEPT ![c] = {creds}]
    /\ UNCHANGED <<creds, known, job, reply, calm>>

Acquire(c) == NotConfigured(c) \/ StillLoggedIn(c) \/ BeginLogin(c)

(***************************************************************************)
(* The shop.  It hands out an anonymous session with its config, or with a *)
(* CSRF token asked for without a live session; it answers a wrong         *)
(* password with 401 or with an anonymous session; it serves a cart to     *)
(* anyone but an ended session, which gets 401; and it may refuse a write  *)
(* for its token.                                                          *)
(***************************************************************************)
Whose == IF cookie \in Accounts THEN cookie ELSE Guest
Fresh == IF cookie \in {NoCookie, Expired} THEN Guest ELSE NoCookie

Answers(l) ==
    (CASE l \in {"config", "csrf1", "csrf2", "token"} -> {Ok(Fresh, Whose)}
       [] l = "login" -> {Ok(acct, acct), Ok(Guest, Guest), Denied}
       [] l \in {"redirect", "customer"} -> {Ok(NoCookie, Whose)}
       [] l = "write" /\ cookie # Expired -> {Ok(NoCookie, Whose), Denied}
       [] l \in {"read", "search"} /\ cookie # Expired -> {Ok(NoCookie, Whose)}
       [] OTHER -> {Denied})
    \cup IF calm THEN {} ELSE {Denied, Failed, Lost}

\* ensureSession and needsCSRF: the request is made only when it is needed.
Needed(l) == (l = "config" => cookie = NoCookie) /\ (l = "token" => ~csrf)

\* Client.do: the snapshot of the session goes out.
Send(c) ==
    /\ pc[c] \in LoginPcs \cup (CallPcs \ {"authWrite", "authRead"})
    /\ reply[c] = NoReply
    /\ Needed(pc[c])
    /\ \E r \in Answers(pc[c]) : reply' = [reply EXCEPT ![c] = r]
    /\ UNCHANGED <<creds, known, mu, acct, client, pc, job, seen, calm>>

NotNeeded(c) ==
    /\ reply[c] = NoReply
    /\ pc[c] \in {"config", "token"} /\ ~Needed(pc[c])
    /\ Goto(c, IF pc[c] = "config" THEN "csrf1" ELSE "write")
    /\ UNCHANGED <<creds, known, mu, acct, client, job, reply, seen, calm>>

(***************************************************************************)
(* Login, answer by answer.                                                *)
(***************************************************************************)
AfterLogin(l) ==
    CASE l = "config"   -> {"csrf1"}
      [] l = "csrf1"    -> {"login"}
      [] l = "login"    -> {"redirect", "csrf2"}    \* with a Location or not
      [] l = "redirect" -> {"csrf2"}
      [] OTHER          -> {"customer"}

\* The config's and the redirect's status is not looked at.
Accepted(c) ==
    \/ reply[c].status = "ok"
    \/ pc[c] \in {"config", "redirect"} /\ reply[c].status \in {"denied", "failed"}

LoginStep(c) ==
    /\ pc[c] \in LoginPcs \ {"customer"}
    /\ Accepted(c)
    /\ \E l \in AfterLogin(pc[c]) : Goto(c, l)
    /\ StoreCookie(c)
    /\ csrf' = (csrf \/ pc[c] \in {"csrf1", "csrf2"})
    /\ Consume(c)
    /\ UNCHANGED <<creds, known, mu, acct, authenticated, saved, job, seen, calm>>

\* Faulty variant: the customer's name is not looked at.
ConfirmAnyone(c) ==
    /\ pc[c] = "customer" /\ reply[c].status = "ok"
    /\ authenticated' = TRUE /\ saved' = cookie
    /\ known' = acct /\ mu' = Nobody /\ acct' = NoCreds
    /\ Goto(c, FirstRequest(job[c].kind))
    /\ Consume(c)
    /\ UNCHANGED <<creds, cookie, csrf, job, seen, calm>>

\* A real customer: the flag goes up, the session is saved, and fn begins.
Confirm(c) ==
    /\ pc[c] = "customer" /\ reply[c].status = "ok"
    /\ reply[c].who # Guest
    /\ authenticated' = TRUE /\ saved' = cookie
    /\ known' = acct /\ mu' = Nobody /\ acct' = NoCreds
    /\ Goto(c, FirstRequest(job[c].kind))
    /\ Consume(c)
    /\ UNCHANGED <<creds, cookie, csrf, job, seen, calm>>

\* An anonymous one, or a refused password: the session is cleared.
Reject(c) ==
    /\ \/ pc[c] = "customer" /\ reply[c].status = "ok" /\ reply[c].who = Guest
       \/ pc[c] = "login" /\ reply[c].status \in {"denied", "failed"}
    /\ ClearState
    /\ mu' = Nobody /\ acct' = NoCreds
    /\ EndCall(c)
    /\ Consume(c)
    /\ UNCHANGED <<creds, known, calm>>

\* Faulty variant: the early return leaves the mutex locked.
LoginErrorLocked(c) ==
    /\ pc[c] \in LoginPcs
    /\ reply[c].status \in {"denied", "failed", "lost"} /\ ~Accepted(c)
    /\ pc[c] = "login" => reply[c].status = "lost"
    /\ EndCall(c)
    /\ Consume(c)
    /\ UNCHANGED <<creds, known, mu, acct, client, calm>>

\* Any other error of a login step is returned as it is: the client keeps
\* what it has, the flag included.
LoginError(c) ==
    /\ pc[c] \in LoginPcs
    /\ reply[c].status \in {"denied", "failed", "lost"} /\ ~Accepted(c)
    /\ pc[c] = "login" => reply[c].status = "lost"
    /\ mu' = Nobody /\ acct' = NoCreds
    /\ EndCall(c)
    /\ Consume(c)
    /\ UNCHANGED <<creds, known, client, calm>>

(***************************************************************************)
(* fn: the request of the tool.                                            *)
(***************************************************************************)
\* Faulty variant: every failure that looks like one of authentication is
\* tried again.
RetryForever(c) ==
    /\ Goto(c, "lock")
    /\ UNCHANGED <<job, seen>>

\* An authentication error of the first try forces a login and a second.
RetryOnce(c) ==
    IF job[c].tries = 1
    THEN /\ Goto(c, "lock")
         /\ job' = [job EXCEPT ![c] = [kind |-> job[c].kind, tries |-> 2]]
         /\ UNCHANGED seen
    ELSE EndCall(c)

\* requireAuth.
CheckAuth(c) ==
    /\ pc[c] \in {"authWrite", "authRead"}
    /\ IF authenticated
       THEN /\ Goto(c, IF pc[c] = "authWrite" THEN "token" ELSE "read")
            /\ UNCHANGED <<job, seen>>
       ELSE RetryOnce(c)
    /\ UNCHANGED <<creds, known, mu, acct, client, reply, calm>>

GetToken(c) ==
    /\ pc[c] = "token" /\ reply[c].status = "ok"
    /\ Goto(c, "write")
    /\ StoreCookie(c) /\ csrf' = TRUE
    /\ Consume(c)
    /\ UNCHANGED <<creds, known, mu, acct, authenticated, saved, job, seen, calm>>

\* AddToCart goes on to read the cart; everything else is done.
Answered(c) ==
    /\ pc[c] \in {"search", "write", "read"} /\ reply[c].status = "ok"
    /\ IF pc[c] = "write" /\ job[c].kind = "add"
       THEN Goto(c, "authRead") /\ UNCHANGED <<job, seen>>
       ELSE EndCall(c)
    /\ Consume(c)
    /\ UNCHANGED <<creds, known, mu, acct, client, calm>>

Refused(c) ==
    /\ pc[c] \in CallPcs /\ reply[c].status = "denied"
    /\ RetryOnce(c)
    /\ Consume(c)
    /\ UNCHANGED <<creds, known, mu, acct, client, calm>>

CallError(c) ==
    /\ pc[c] \in CallPcs /\ reply[c].status \in {"failed", "lost"}
    /\ EndCall(c)
    /\ Consume(c)
    /\ UNCHANGED <<creds, known, mu, acct, client, calm>>

(***************************************************************************)
(* What happens around the calls.                                          *)
(***************************************************************************)
\* Settings are saved: another account, or none.
SetCreds(a) ==
    /\ creds' = a
    /\ seen' = [c \in Chats |-> IF pc[c] \in {"idle", "lock"} THEN seen[c]
                            ELSE seen[c] \cup {a}]
    /\ UNCHANGED <<known, mu, acct, client, pc, job, reply, calm>>

\* The shop ends the session.
Expire ==
    /\ cookie \in Accounts
    /\ cookie' = Expired
    /\ UNCHANGED <<creds, known, mu, acct, csrf, authenticated, saved,
                   pc, job, reply, seen, calm>>

\* The server restarts: NewClientWithStore loads the saved session.
Restart ==
    /\ cookie' = saved /\ csrf' = (saved # NoCookie) /\ authenticated' = FALSE
    /\ known' = NoCreds /\ mu' = Nobody /\ acct' = NoCreds
    /\ pc' = [c \in Chats |-> "idle"]
    /\ job' = [c \in Chats |-> NoJob]
    /\ reply' = [c \in Chats |-> NoReply]
    /\ seen' = [c \in Chats |-> {}]
    /\ UNCHANGED <<creds, saved, calm>>

Work(c) ==
    \/ Send(c) \/ NotNeeded(c)
    \/ LoginStep(c) \/ Confirm(c) \/ Reject(c) \/ LoginError(c)
    \/ CheckAuth(c) \/ GetToken(c) \/ Answered(c) \/ Refused(c) \/ CallError(c)

Next ==
    \/ \E c \in Chats, k \in Kinds : Start(c, k)
    \/ \E c \in Chats : Acquire(c) \/ Work(c)
    \/ \E a \in Accounts \cup {NoCreds} : SetCreds(a)
    \/ Expire
    \/ Restart

Spec == Init /\ [][Next]_vars

\* Every request is answered or fails, and a goroutine that waits for the
\* mutex gets it (sync.Mutex hands it over after a millisecond of waiting).
FairSpec ==
    /\ Spec
    /\ \A c \in Chats : WF_vars(Work(c)) /\ SF_vars(Acquire(c))

(***************************************************************************)
(* Properties.                                                             *)
(***************************************************************************)
\* The shop has served chat c's cart request to account w.
ServedTo(c, w) ==
    pc[c] \in CartRequests /\ reply[c].status = "ok" /\ reply[c].who = w

\* A cart request never runs in the session of an account that was replaced
\* before its call was checked, however logins, saved settings, failures and
\* late answers interleave (willys.go ensureLoggedIn, "the credentials
\* configured in Settings have changed since last login").
NoStaleAccount ==
    \A c \in Chats, a \in Accounts : ServedTo(c, a) => a \in seen[c]

\* "cart/order operations can't run on a guest account" (client.go Login).
\* (Not so: see the run session_guest.)
NoGuestCart == \A c \in Chats : ~ServedTo(c, Guest)

\* It is so while calls do not overlap and the network does not fail,
\* whatever expires, is refused, restarts or changes in Settings.
CalmNoGuestCart == calm => NoGuestCart

\* Every shop call returns: logins and retries end, and the mutex is always
\* given back.
CallsEnd == \A c \in Chats : pc[c] # "idle" ~> pc[c] = "idle"
=============================================================================
