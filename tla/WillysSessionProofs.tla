------------------------ MODULE WillysSessionProofs ------------------------
(***************************************************************************)
(* Proofs about WillysSession: its types and the login mutex, and that no  *)
(* cart request runs in the session of an account that was replaced before *)
(* its call was checked, for any chats and accounts.                       *)
(***************************************************************************)
EXTENDS WillysSession, TLAPS

\* A chat that is not in a request has no answer under way, and only the
\* login's answer carries an account's cookie, the one being logged in, unless
\* it is an anonymous one.
ReplyPlaces ==
    \A c \in Chats :
      /\ pc[c] \in {"idle", "lock", "authWrite", "authRead"} => reply[c] = NoReply
      /\ reply[c].cookie \in Accounts => pc[c] = "login" /\ reply[c].cookie = acct
      /\ pc[c] = "login" /\ reply[c].status = "ok" => reply[c].cookie \in {acct, Guest}

\* A session the client trusts is the last login's, and a login in progress
\* replaces an account's session by its own.
CookieKnown ==
    /\ authenticated /\ cookie \in Accounts => cookie = known
    /\ mu # Nobody /\ authenticated => acct = known
    /\ \A c \in Chats : pc[c] \in {"redirect", "csrf2", "customer"} /\ cookie \in Accounts
                          => cookie = acct

\* A call in progress has seen the account configured now, the one being
\* logged in, the one of the session and the one that served it.
AllSeen ==
    \A c \in Chats :
      /\ pc[c] \in LoginPcs \cup CallPcs =>
           creds \in seen[c] /\ (mu # Nobody => acct \in seen[c])
      /\ pc[c] \in CallPcs /\ cookie \in Accounts => cookie \in seen[c]
      /\ pc[c] \in CartRequests /\ reply[c].status = "ok" /\ reply[c].who \in Accounts =>
           reply[c].who \in seen[c]

\* The inductive invariant.
SInv == TypeOK /\ ReplyPlaces /\ CookieKnown /\ AllSeen

USE SessionAssumption
USE DEF Guest, NoCookie, Expired, NoCreds, Nobody, NoReply, Bare, LoginPcs, CallPcs,
        CartRequests

\* The invariant holds of a server that has just been installed.
LEMMA InitSInv == Init => SInv
<1> SUFFICES ASSUME Init PROVE SInv
  OBVIOUS
<1>1. TypeOK
  <2>1. /\ pc \in [Chats -> {"idle", "lock"} \cup LoginPcs \cup CallPcs]
        /\ job \in [Chats -> [kind : Kinds \cup {"none"}, tries : 0..2]]
    BY DEF Init, NoJob
  <2>2. reply \in [Chats -> [status : {"none", "ok", "denied", "failed", "lost"},
                            cookie : Accounts \cup {Guest, NoCookie},
                            who : Accounts \cup {Guest}]]
    BY DEF Init
  <2>3. seen \in [Chats -> SUBSET (Accounts \cup {NoCreds})]
    BY DEF Init
  <2>4. \A c \in Chats : mu = c <=> pc[c] \in LoginPcs
    BY DEF Init
  <2> QED  BY <2>1, <2>2, <2>3, <2>4 DEF Init, TypeOK
<1>2. ReplyPlaces /\ CookieKnown /\ AllSeen
  BY DEF Init, ReplyPlaces, CookieKnown, AllSeen
<1> QED  BY <1>1, <1>2 DEF SInv

\* What EndCall leaves has its type.
LEMMA EndCallTypes ==
    ASSUME TypeOK, NEW c \in Chats, EndCall(c)
    PROVE  /\ pc' \in [Chats -> {"idle", "lock"} \cup LoginPcs \cup CallPcs]
           /\ job' \in [Chats -> [kind : Kinds \cup {"none"}, tries : 0..2]]
           /\ seen' \in [Chats -> SUBSET (Accounts \cup {NoCreds})]
<1>1. NoJob \in [kind : Kinds \cup {"none"}, tries : 0..2]
  BY DEF NoJob
<1> QED  BY <1>1 DEF EndCall, TypeOK, Goto

\* So does RetryOnce, whose call is out of its login.
LEMMA RetryOnceTypes ==
    ASSUME TypeOK, NEW c \in Chats, RetryOnce(c)
    PROVE  /\ pc' \in [Chats -> {"idle", "lock"} \cup LoginPcs \cup CallPcs]
           /\ job' \in [Chats -> [kind : Kinds \cup {"none"}, tries : 0..2]]
           /\ seen' \in [Chats -> SUBSET (Accounts \cup {NoCreds})]
           /\ pc'[c] \in {"idle", "lock"}
           /\ \A d \in Chats \ {c} : pc'[d] = pc[d]
<1>1. CASE job[c].tries = 1
  <2>1. [kind |-> job[c].kind, tries |-> 2] \in [kind : Kinds \cup {"none"}, tries : 0..2]
    BY DEF TypeOK
  <2>2. /\ pc' = [pc EXCEPT ![c] = "lock"] /\ seen' = seen
        /\ job' = [job EXCEPT ![c] = [kind |-> job[c].kind, tries |-> 2]]
    BY <1>1 DEF RetryOnce, Goto
  <2>3. pc' \in [Chats -> {"idle", "lock"} \cup LoginPcs \cup CallPcs]
    BY <2>2 DEF TypeOK
  <2> QED  BY <2>1, <2>2, <2>3 DEF TypeOK
<1>2. CASE job[c].tries # 1
  <2>1. EndCall(c)
    BY <1>2 DEF RetryOnce
  <2> QED  BY <2>1, EndCallTypes DEF EndCall, Goto, TypeOK
<1> QED  BY <1>1, <1>2

\* A call waits for the mutex before it does anything.
LEMMA StartSInv ==
    ASSUME SInv, NEW c \in Chats, NEW k \in Kinds, Start(c, k)
    PROVE  SInv'
<1>1. TypeOK'
  BY DEF Start, SInv, TypeOK, Goto, client
<1>2. ReplyPlaces'
  BY DEF Start, SInv, TypeOK, ReplyPlaces, Goto, client
<1>3. CookieKnown'
  BY DEF Start, SInv, TypeOK, ReplyPlaces, CookieKnown, Goto, client
<1>4. AllSeen'
  BY DEF Start, SInv, TypeOK, ReplyPlaces, CookieKnown, AllSeen, Goto, client
<1> QED  BY <1>1, <1>2, <1>3, <1>4 DEF SInv

\* A provider that is not configured ends the call.
LEMMA NotConfiguredSInv ==
    ASSUME SInv, NEW c \in Chats, NotConfigured(c)
    PROVE  SInv'
<1>1. TypeOK'
  BY DEF NotConfigured, SInv, TypeOK, Goto, client, EndCall, NoJob
<1>2. ReplyPlaces'
  BY DEF NotConfigured, SInv, TypeOK, ReplyPlaces, Goto, client, EndCall,
         NoJob
<1>3. CookieKnown'
  BY DEF NotConfigured, SInv, TypeOK, ReplyPlaces, CookieKnown, Goto, client,
         EndCall, NoJob
<1>4. AllSeen'
  BY DEF NotConfigured, SInv, TypeOK, ReplyPlaces, CookieKnown, AllSeen,
         Goto, client, EndCall, NoJob
<1> QED  BY <1>1, <1>2, <1>3, <1>4 DEF SInv

\* A call that needs no login has seen the session's account.
LEMMA StillLoggedInSInv ==
    ASSUME SInv, NEW c \in Chats, StillLoggedIn(c)
    PROVE  SInv'
<1>1. TypeOK'
  BY DEF StillLoggedIn, SInv, TypeOK, Goto, client, FirstRequest
<1>2. ReplyPlaces'
  BY DEF StillLoggedIn, SInv, TypeOK, ReplyPlaces, Goto, client, FirstRequest
<1>3. CookieKnown'
  BY DEF StillLoggedIn, SInv, TypeOK, ReplyPlaces, CookieKnown, Goto, client,
         FirstRequest
<1>4. AllSeen'
  BY DEF StillLoggedIn, SInv, TypeOK, ReplyPlaces, CookieKnown, AllSeen,
         Goto, client, FirstRequest
<1> QED  BY <1>1, <1>2, <1>3, <1>4 DEF SInv

\* A login for changed credentials begins without a trusted session.
LEMMA BeginLoginSInv ==
    ASSUME SInv, NEW c \in Chats, BeginLogin(c)
    PROVE  SInv'
<1>1. TypeOK'
  <2>1. /\ pc' = [pc EXCEPT ![c] = "config"] /\ mu' = c /\ mu = Nobody
        /\ acct' = creds /\ seen' = [seen EXCEPT ![c] = {creds}]
    BY DEF BeginLogin, Goto
  <2>2. /\ pc' \in [Chats -> {"idle", "lock"} \cup LoginPcs \cup CallPcs]
        /\ \A d \in Chats : mu' = d <=> pc'[d] \in LoginPcs
    BY <2>1 DEF SInv, TypeOK
  <2>3. /\ cookie' \in Accounts \cup {Guest, NoCookie, Expired}
        /\ saved' \in Accounts \cup {Guest, NoCookie, Expired}
        /\ csrf' \in BOOLEAN /\ authenticated' \in BOOLEAN
    BY DEF BeginLogin, ClearState, client, SInv, TypeOK
  <2>4. UNCHANGED <<creds, known, job, reply, calm>>
    BY DEF BeginLogin
  <2> QED  BY <2>1, <2>2, <2>3, <2>4 DEF SInv, TypeOK
<1>2. ReplyPlaces'
  BY DEF BeginLogin, SInv, TypeOK, ReplyPlaces, Goto, client, ClearState
<1>3. CookieKnown'
  BY DEF BeginLogin, SInv, TypeOK, ReplyPlaces, CookieKnown, Goto, client,
         ClearState
<1>4. AllSeen'
  BY DEF BeginLogin, SInv, TypeOK, ReplyPlaces, CookieKnown, AllSeen, Goto,
         client, ClearState
<1> QED  BY <1>1, <1>2, <1>3, <1>4 DEF SInv

\* A request is served to the session it carries.
LEMMA SendSInv ==
    ASSUME SInv, NEW c \in Chats, Send(c)
    PROVE  SInv'
<1>1. TypeOK'
  BY DEF Send, SInv, TypeOK, client, Answers, Ok, Denied, Failed, Lost,
         Whose, Fresh
<1>2. ReplyPlaces'
  BY DEF Send, SInv, TypeOK, ReplyPlaces, client, Answers, Ok, Denied,
         Failed, Lost, Whose, Fresh
<1>3. CookieKnown'
  BY DEF Send, SInv, TypeOK, ReplyPlaces, CookieKnown, client, Answers, Ok,
         Denied, Failed, Lost, Whose, Fresh
<1>4. AllSeen'
  BY DEF Send, SInv, TypeOK, ReplyPlaces, CookieKnown, AllSeen, client,
         Answers, Ok, Denied, Failed, Lost, Whose, Fresh
<1> QED  BY <1>1, <1>2, <1>3, <1>4 DEF SInv

\* A step that is not needed changes nothing else.
LEMMA NotNeededSInv ==
    ASSUME SInv, NEW c \in Chats, NotNeeded(c)
    PROVE  SInv'
<1>1. TypeOK'
  BY DEF NotNeeded, SInv, TypeOK, Goto, client, Needed
<1>2. ReplyPlaces'
  BY DEF NotNeeded, SInv, TypeOK, ReplyPlaces, Goto, client, Needed
<1>3. CookieKnown'
  BY DEF NotNeeded, SInv, TypeOK, ReplyPlaces, CookieKnown, Goto, client,
         Needed
<1>4. AllSeen'
  BY DEF NotNeeded, SInv, TypeOK, ReplyPlaces, CookieKnown, AllSeen, Goto,
         client, Needed
<1> QED  BY <1>1, <1>2, <1>3, <1>4 DEF SInv

\* The login's answer is the only one that brings an account's session.
LEMMA LoginStepSInv ==
    ASSUME SInv, NEW c \in Chats, LoginStep(c)
    PROVE  SInv'
<1>1. TypeOK'
  BY DEF LoginStep, SInv, TypeOK, Goto, StoreCookie, Consume, AfterLogin,
         Accepted
<1>2. ReplyPlaces'
  BY DEF LoginStep, SInv, TypeOK, ReplyPlaces, Goto, StoreCookie, Consume,
         AfterLogin, Accepted
<1>3. CookieKnown'
  BY DEF LoginStep, SInv, TypeOK, ReplyPlaces, CookieKnown, Goto,
         StoreCookie, Consume, AfterLogin, Accepted
<1>4. AllSeen'
  BY DEF LoginStep, SInv, TypeOK, ReplyPlaces, CookieKnown, AllSeen, Goto,
         StoreCookie, Consume, AfterLogin, Accepted
<1> QED  BY <1>1, <1>2, <1>3, <1>4 DEF SInv

\* What a confirmed login trusts is its own account's session.
LEMMA ConfirmSInv ==
    ASSUME SInv, NEW c \in Chats, Confirm(c)
    PROVE  SInv'
<1>1. TypeOK'
  BY DEF Confirm, SInv, TypeOK, Goto, Consume, FirstRequest
<1>2. ReplyPlaces'
  BY DEF Confirm, SInv, TypeOK, ReplyPlaces, Goto, Consume, FirstRequest
<1>3. CookieKnown'
  BY DEF Confirm, SInv, TypeOK, ReplyPlaces, CookieKnown, Goto, Consume,
         FirstRequest
<1>4. AllSeen'
  BY DEF Confirm, SInv, TypeOK, ReplyPlaces, CookieKnown, AllSeen, Goto,
         Consume, FirstRequest
<1> QED  BY <1>1, <1>2, <1>3, <1>4 DEF SInv

\* A rejected login leaves nothing to trust.
LEMMA RejectSInv ==
    ASSUME SInv, NEW c \in Chats, Reject(c)
    PROVE  SInv'
<1>1. TypeOK'
  <2>1. EndCall(c) /\ mu' = Nobody /\ acct' = NoCreds /\ mu = c
    BY DEF Reject, SInv, TypeOK
  <2>2. \A d \in Chats : pc'[d] \notin LoginPcs
    BY <2>1 DEF SInv, TypeOK, EndCall, Goto
  <2>3. cookie' = NoCookie /\ csrf' = FALSE /\ authenticated' = FALSE /\ saved' = NoCookie
    BY DEF Reject, ClearState
  <2>4. reply' = [reply EXCEPT ![c] = NoReply] /\ UNCHANGED <<creds, known, calm>>
    BY DEF Reject, Consume
  <2> QED  BY <2>1, <2>2, <2>3, <2>4, EndCallTypes DEF SInv, TypeOK
<1>2. ReplyPlaces'
  BY DEF Reject, SInv, TypeOK, ReplyPlaces, Goto, Consume, ClearState,
         EndCall, NoJob
<1>3. CookieKnown'
  BY DEF Reject, SInv, TypeOK, ReplyPlaces, CookieKnown, Goto, Consume,
         ClearState, EndCall, NoJob
<1>4. AllSeen'
  BY DEF Reject, SInv, TypeOK, ReplyPlaces, CookieKnown, AllSeen, Goto,
         Consume, ClearState, EndCall, NoJob
<1> QED  BY <1>1, <1>2, <1>3, <1>4 DEF SInv

\* A login that breaks off gives the mutex back.
LEMMA LoginErrorSInv ==
    ASSUME SInv, NEW c \in Chats, LoginError(c)
    PROVE  SInv'
<1>1. TypeOK'
  BY DEF LoginError, SInv, TypeOK, Goto, Consume, client, EndCall, NoJob,
         Accepted
<1>2. ReplyPlaces'
  BY DEF LoginError, SInv, TypeOK, ReplyPlaces, Goto, Consume, client,
         EndCall, NoJob, Accepted
<1>3. CookieKnown'
  BY DEF LoginError, SInv, TypeOK, ReplyPlaces, CookieKnown, Goto, Consume,
         client, EndCall, NoJob, Accepted
<1>4. AllSeen'
  BY DEF LoginError, SInv, TypeOK, ReplyPlaces, CookieKnown, AllSeen, Goto,
         Consume, client, EndCall, NoJob, Accepted
<1> QED  BY <1>1, <1>2, <1>3, <1>4 DEF SInv

\* requireAuth only moves its own call.
LEMMA CheckAuthSInv ==
    ASSUME SInv, NEW c \in Chats, CheckAuth(c)
    PROVE  SInv'
<1>1. TypeOK'
  <2>1. CASE authenticated
    BY <2>1 DEF CheckAuth, SInv, TypeOK, Goto, client
  <2>2. CASE ~authenticated
    <3>1. RetryOnce(c) /\ pc[c] \notin LoginPcs
      BY <2>2 DEF CheckAuth
    <3>2. \A d \in Chats : mu = d <=> pc'[d] \in LoginPcs
      BY <3>1, RetryOnceTypes DEF SInv, TypeOK
    <3> QED  BY <3>1, <3>2, RetryOnceTypes DEF CheckAuth, SInv, TypeOK, client
  <2> QED  BY <2>1, <2>2
<1>2. ReplyPlaces'
  BY DEF CheckAuth, SInv, TypeOK, ReplyPlaces, Goto, client, RetryOnce,
         EndCall, NoJob
<1>3. CookieKnown'
  BY DEF CheckAuth, SInv, TypeOK, ReplyPlaces, CookieKnown, Goto, client,
         RetryOnce, EndCall, NoJob
<1>4. AllSeen'
  BY DEF CheckAuth, SInv, TypeOK, ReplyPlaces, CookieKnown, AllSeen, Goto,
         client, RetryOnce, EndCall, NoJob
<1> QED  BY <1>1, <1>2, <1>3, <1>4 DEF SInv

\* A token's answer brings an anonymous session at most.
LEMMA GetTokenSInv ==
    ASSUME SInv, NEW c \in Chats, GetToken(c)
    PROVE  SInv'
<1>1. TypeOK'
  BY DEF GetToken, SInv, TypeOK, Goto, StoreCookie, Consume
<1>2. ReplyPlaces'
  BY DEF GetToken, SInv, TypeOK, ReplyPlaces, Goto, StoreCookie, Consume
<1>3. CookieKnown'
  BY DEF GetToken, SInv, TypeOK, ReplyPlaces, CookieKnown, Goto, StoreCookie,
         Consume
<1>4. AllSeen'
  BY DEF GetToken, SInv, TypeOK, ReplyPlaces, CookieKnown, AllSeen, Goto,
         StoreCookie, Consume
<1> QED  BY <1>1, <1>2, <1>3, <1>4 DEF SInv

\* A result moves only its own call.
LEMMA AnsweredSInv ==
    ASSUME SInv, NEW c \in Chats, Answered(c)
    PROVE  SInv'
<1>1. TypeOK'
  <2>1. CASE pc[c] = "write" /\ job[c].kind = "add"
    <3>1. pc' = [pc EXCEPT ![c] = "authRead"] /\ UNCHANGED <<job, seen>>
      BY <2>1 DEF Answered, Goto
    <3>2. /\ pc' \in [Chats -> {"idle", "lock"} \cup LoginPcs \cup CallPcs]
          /\ \A d \in Chats : mu = d <=> pc'[d] \in LoginPcs
      BY <2>1, <3>1 DEF SInv, TypeOK, CallPcs
    <3>3. reply' = [reply EXCEPT ![c] = NoReply]
      BY DEF Answered, Consume
    <3>4. UNCHANGED <<creds, known, mu, acct, cookie, csrf, authenticated, saved, calm>>
      BY DEF Answered, client
    <3> QED  BY <3>1, <3>2, <3>3, <3>4 DEF SInv, TypeOK
  <2>2. CASE ~(pc[c] = "write" /\ job[c].kind = "add")
    <3>1. EndCall(c) /\ pc[c] \notin LoginPcs
      BY <2>2 DEF Answered
    <3>2. \A d \in Chats : mu = d <=> pc'[d] \in LoginPcs
      BY <3>1 DEF EndCall, Goto, SInv, TypeOK
    <3> QED  BY <3>1, <3>2, EndCallTypes DEF Answered, SInv, TypeOK, Consume, client
  <2> QED  BY <2>1, <2>2
<1>2. ReplyPlaces'
  BY DEF Answered, SInv, TypeOK, ReplyPlaces, Goto, Consume, client, EndCall,
         NoJob
<1>3. CookieKnown'
  BY DEF Answered, SInv, TypeOK, ReplyPlaces, CookieKnown, Goto, Consume,
         client, EndCall, NoJob
<1>4. AllSeen'
  BY DEF Answered, SInv, TypeOK, ReplyPlaces, CookieKnown, AllSeen, Goto,
         Consume, client, EndCall, NoJob
<1> QED  BY <1>1, <1>2, <1>3, <1>4 DEF SInv

\* A refused request is tried again from the mutex or ends.
LEMMA RefusedSInv ==
    ASSUME SInv, NEW c \in Chats, Refused(c)
    PROVE  SInv'
<1>1. TypeOK'
  <2>1. RetryOnce(c) /\ pc[c] \notin LoginPcs
    BY DEF Refused
  <2>2. \A d \in Chats : mu = d <=> pc'[d] \in LoginPcs
    BY <2>1, RetryOnceTypes DEF SInv, TypeOK
  <2> QED  BY <2>1, <2>2, RetryOnceTypes DEF Refused, SInv, TypeOK, Consume, client
<1>2. ReplyPlaces'
  BY DEF Refused, SInv, TypeOK, ReplyPlaces, Goto, Consume, client,
         RetryOnce, EndCall, NoJob
<1>3. CookieKnown'
  BY DEF Refused, SInv, TypeOK, ReplyPlaces, CookieKnown, Goto, Consume,
         client, RetryOnce, EndCall, NoJob
<1>4. AllSeen'
  BY DEF Refused, SInv, TypeOK, ReplyPlaces, CookieKnown, AllSeen, Goto,
         Consume, client, RetryOnce, EndCall, NoJob
<1> QED  BY <1>1, <1>2, <1>3, <1>4 DEF SInv

\* An error moves only its own call.
LEMMA CallErrorSInv ==
    ASSUME SInv, NEW c \in Chats, CallError(c)
    PROVE  SInv'
<1>1. TypeOK'
  BY DEF CallError, SInv, TypeOK, Goto, Consume, client, EndCall, NoJob
<1>2. ReplyPlaces'
  BY DEF CallError, SInv, TypeOK, ReplyPlaces, Goto, Consume, client,
         EndCall, NoJob
<1>3. CookieKnown'
  BY DEF CallError, SInv, TypeOK, ReplyPlaces, CookieKnown, Goto, Consume,
         client, EndCall, NoJob
<1>4. AllSeen'
  BY DEF CallError, SInv, TypeOK, ReplyPlaces, CookieKnown, AllSeen, Goto,
         Consume, client, EndCall, NoJob
<1> QED  BY <1>1, <1>2, <1>3, <1>4 DEF SInv

\* Every call in progress has seen the new account.
LEMMA SetCredsSInv ==
    ASSUME SInv, NEW a \in Accounts \cup {NoCreds}, SetCreds(a)
    PROVE  SInv'
<1>1. TypeOK'
  BY DEF SetCreds, SInv, TypeOK, ReplyPlaces, CookieKnown, AllSeen, client
<1>2. ReplyPlaces'
  BY DEF SetCreds, SInv, TypeOK, ReplyPlaces, CookieKnown, AllSeen, client
<1>3. CookieKnown'
  BY DEF SetCreds, SInv, TypeOK, ReplyPlaces, CookieKnown, AllSeen, client
<1>4. AllSeen'
  BY DEF SetCreds, SInv, TypeOK, ReplyPlaces, CookieKnown, AllSeen, client
<1> QED  BY <1>1, <1>2, <1>3, <1>4 DEF SInv

\* An ended session is nobody's.
LEMMA ExpireSInv ==
    ASSUME SInv, Expire
    PROVE  SInv'
<1>1. TypeOK'
  BY DEF Expire, SInv, TypeOK, ReplyPlaces, CookieKnown, AllSeen
<1>2. ReplyPlaces'
  BY DEF Expire, SInv, TypeOK, ReplyPlaces, CookieKnown, AllSeen
<1>3. CookieKnown'
  BY DEF Expire, SInv, TypeOK, ReplyPlaces, CookieKnown, AllSeen
<1>4. AllSeen'
  BY DEF Expire, SInv, TypeOK, ReplyPlaces, CookieKnown, AllSeen
<1> QED  BY <1>1, <1>2, <1>3, <1>4 DEF SInv

\* After a restart the saved session is not trusted, and no call is in progress.
LEMMA RestartSInv ==
    ASSUME SInv, Restart
    PROVE  SInv'
<1>1. TypeOK'
  <2>1. job' \in [Chats -> [kind : Kinds \cup {"none"}, tries : 0..2]]
    BY DEF Restart, NoJob
  <2>2. /\ pc' = [c \in Chats |-> "idle"]
        /\ reply' = [c \in Chats |-> NoReply]
        /\ seen' = [c \in Chats |-> {}]
    BY DEF Restart
  <2>3. \A c \in Chats : mu' = c <=> pc'[c] \in LoginPcs
    BY <2>2 DEF Restart
  <2>4. /\ cookie' = saved /\ csrf' \in BOOLEAN /\ authenticated' = FALSE
        /\ known' = NoCreds /\ mu' = Nobody /\ acct' = NoCreds
        /\ UNCHANGED <<creds, saved, calm>>
    BY DEF Restart
  <2> QED  BY <2>1, <2>2, <2>3, <2>4 DEF SInv, TypeOK
<1>2. ReplyPlaces'
  BY DEF Restart, SInv, TypeOK, ReplyPlaces, CookieKnown, AllSeen, NoJob
<1>3. CookieKnown'
  BY DEF Restart, SInv, TypeOK, ReplyPlaces, CookieKnown, AllSeen, NoJob
<1>4. AllSeen'
  BY DEF Restart, SInv, TypeOK, ReplyPlaces, CookieKnown, AllSeen, NoJob
<1> QED  BY <1>1, <1>2, <1>3, <1>4 DEF SInv

\* A step that changes nothing keeps the invariant.
LEMMA StutterSInv == SInv /\ UNCHANGED vars => SInv'
BY DEF SInv, TypeOK, ReplyPlaces, CookieKnown, AllSeen, vars, client

\* Every step keeps the invariant.
LEMMA StepSInv == SInv /\ [Next]_vars => SInv'
<1> SUFFICES ASSUME SInv, [Next]_vars PROVE SInv'
  OBVIOUS
<1>1. ASSUME NEW c \in Chats, NEW k \in Kinds, Start(c, k) PROVE SInv'
  BY <1>1, StartSInv
<1>2. ASSUME NEW c \in Chats, Acquire(c) PROVE SInv'
  BY <1>2, NotConfiguredSInv, StillLoggedInSInv, BeginLoginSInv DEF Acquire
<1>3. ASSUME NEW c \in Chats, Work(c) PROVE SInv'
  BY <1>3, SendSInv, NotNeededSInv, LoginStepSInv, ConfirmSInv, RejectSInv, LoginErrorSInv,
     CheckAuthSInv, GetTokenSInv, AnsweredSInv, RefusedSInv, CallErrorSInv DEF Work
<1>4. ASSUME NEW a \in Accounts \cup {NoCreds}, SetCreds(a) PROVE SInv'
  BY <1>4, SetCredsSInv
<1>5. CASE Expire
  BY <1>5, ExpireSInv
<1>6. CASE Restart
  BY <1>6, RestartSInv
<1>7. CASE UNCHANGED vars
  BY <1>7, StutterSInv
<1> QED  BY <1>1, <1>2, <1>3, <1>4, <1>5, <1>6, <1>7 DEF Next

\* The invariant holds in every state.
THEOREM SessionInductive == Spec => []SInv
<1>1. Init => SInv
  BY InitSInv
<1>2. SInv /\ [Next]_vars => SInv'
  BY StepSInv
<1> QED  BY <1>1, <1>2, PTL DEF Spec

\* The types, and the login mutex (willys.go ensureLoggedIn), for any chats.
THEOREM SessionTypes == Spec => []TypeOK
<1>1. SInv => TypeOK
  BY DEF SInv
<1> QED  BY <1>1, SessionInductive, PTL

\* No cart request runs in the session of an account that was replaced before
\* its call was checked (willys.go ensureLoggedIn), for any chats and accounts.
THEOREM StaleAccountNeverServed == Spec => []NoStaleAccount
<1>1. SInv => NoStaleAccount
  BY DEF SInv, AllSeen, NoStaleAccount, ServedTo
<1> QED  BY <1>1, SessionInductive, PTL

(***************************************************************************)
(* While it is calm, a trusted session is an account's, live or ended.     *)
(***************************************************************************)
\* One call at a time, no answer that is a failure, and a refusal only where
\* the shop refuses: the password, a write, an ended session.
CalmCalls ==
    /\ \A c, d \in Chats : pc[c] # "idle" /\ pc[d] # "idle" => c = d
    /\ \A c \in Chats :
         /\ reply[c].status \in {"none", "ok", "denied"}
         /\ reply[c].status = "denied" => pc[c] \in {"login", "write", "read", "search"}
         /\ pc[c] = "token" => reply[c].status # "ok"

\* The flag is up with an account's session and its token, but for a login.
CalmSession ==
    /\ authenticated => csrf
    /\ authenticated /\ mu = Nobody => cookie \in Accounts \cup {Expired}
    /\ \A c \in Chats :
         /\ pc[c] \in {"token", "write", "read"} => authenticated
         /\ pc[c] = "customer" => csrf
         /\ pc[c] = "customer" /\ reply[c].status = "ok" /\ reply[c].who # Guest =>
              cookie \in Accounts \cup {Expired}
         /\ pc[c] \in CartRequests /\ reply[c].status = "ok" => reply[c].who # Guest

CalmInv == calm => CalmCalls /\ CalmSession

\* A call starts when no other is under way.
LEMMA StartCalm ==
    ASSUME SInv, CalmInv, calm, NEW c \in Chats, NEW k \in Kinds, Start(c, k)
    PROVE  CalmCalls' /\ CalmSession'
<1>1. CalmCalls'
  BY DEF Start, SInv, TypeOK, ReplyPlaces, CalmInv, CalmCalls, CalmSession,
         Goto, client
<1>2. CalmSession'
  BY DEF Start, SInv, TypeOK, ReplyPlaces, CalmInv, CalmCalls, CalmSession,
         Goto, client
<1> QED  BY <1>1, <1>2

\* A call that ends leaves the session alone.
LEMMA NotConfiguredCalm ==
    ASSUME SInv, CalmInv, calm, NEW c \in Chats, NotConfigured(c)
    PROVE  CalmCalls' /\ CalmSession'
<1>1. CalmCalls'
  BY DEF NotConfigured, SInv, TypeOK, ReplyPlaces, CalmInv, CalmCalls,
         CalmSession, Goto, client, EndCall, NoJob
<1>2. CalmSession'
  BY DEF NotConfigured, SInv, TypeOK, ReplyPlaces, CalmInv, CalmCalls,
         CalmSession, Goto, client, EndCall, NoJob
<1> QED  BY <1>1, <1>2

\* A call goes on with a trusted session.
LEMMA StillLoggedInCalm ==
    ASSUME SInv, CalmInv, calm, NEW c \in Chats, StillLoggedIn(c)
    PROVE  CalmCalls' /\ CalmSession'
<1>1. CalmCalls'
  BY DEF StillLoggedIn, SInv, TypeOK, ReplyPlaces, CalmInv, CalmCalls,
         CalmSession, Goto, client, FirstRequest
<1>2. CalmSession'
  BY DEF StillLoggedIn, SInv, TypeOK, ReplyPlaces, CalmInv, CalmCalls,
         CalmSession, Goto, client, FirstRequest
<1> QED  BY <1>1, <1>2

\* A login takes the session out of trust.
LEMMA BeginLoginCalm ==
    ASSUME SInv, CalmInv, calm, NEW c \in Chats, BeginLogin(c)
    PROVE  CalmCalls' /\ CalmSession'
<1>1. CalmCalls'
  BY DEF BeginLogin, SInv, TypeOK, ReplyPlaces, CalmInv, CalmCalls,
         CalmSession, Goto, client, ClearState
<1>2. CalmSession'
  BY DEF BeginLogin, SInv, TypeOK, ReplyPlaces, CalmInv, CalmCalls,
         CalmSession, Goto, client, ClearState
<1> QED  BY <1>1, <1>2

\* Only a trusted session's cart is asked for.
LEMMA SendCalm ==
    ASSUME SInv, CalmInv, calm, NEW c \in Chats, Send(c)
    PROVE  CalmCalls' /\ CalmSession'
<1>1. CalmCalls'
  BY DEF Send, SInv, TypeOK, ReplyPlaces, CalmInv, CalmCalls, CalmSession,
         client, Answers, Ok, Denied, Whose, Fresh, Needed
<1>2. CalmSession'
  BY DEF Send, SInv, TypeOK, ReplyPlaces, CalmInv, CalmCalls, CalmSession,
         client, Answers, Ok, Denied, Whose, Fresh, Needed
<1> QED  BY <1>1, <1>2

\* The token is there when the flag is up.
LEMMA NotNeededCalm ==
    ASSUME SInv, CalmInv, calm, NEW c \in Chats, NotNeeded(c)
    PROVE  CalmCalls' /\ CalmSession'
<1>1. CalmCalls'
  BY DEF NotNeeded, SInv, TypeOK, ReplyPlaces, CalmInv, CalmCalls,
         CalmSession, Goto, client, Needed
<1>2. CalmSession'
  BY DEF NotNeeded, SInv, TypeOK, ReplyPlaces, CalmInv, CalmCalls,
         CalmSession, Goto, client, Needed
<1> QED  BY <1>1, <1>2

\* A login in progress may hold any session.
LEMMA LoginStepCalm ==
    ASSUME SInv, CalmInv, calm, NEW c \in Chats, LoginStep(c)
    PROVE  CalmCalls' /\ CalmSession'
<1>1. CalmCalls'
  BY DEF LoginStep, SInv, TypeOK, ReplyPlaces, CalmInv, CalmCalls,
         CalmSession, Goto, StoreCookie, Consume, AfterLogin, Accepted
<1>2. CalmSession'
  <2>1. pc[c] # "idle" /\ mu = c /\ mu # Nobody /\ UNCHANGED <<mu, authenticated>>
    BY DEF LoginStep, SInv, TypeOK
  <2>2. \A d \in Chats \ {c} : pc'[d] = pc[d] /\ pc[d] = "idle"
    BY <2>1 DEF LoginStep, Goto, SInv, TypeOK, CalmInv, CalmCalls
  <2>3. pc'[c] \in LoginPcs /\ reply'[c] = NoReply
    BY DEF LoginStep, Goto, Consume, AfterLogin, SInv, TypeOK
  <2>4. pc'[c] = "customer" => csrf'
    BY DEF LoginStep, Goto, AfterLogin, SInv, TypeOK
  <2>5. authenticated' => csrf'
    BY DEF LoginStep, CalmInv, CalmSession
  <2> QED  BY <2>1, <2>2, <2>3, <2>4, <2>5 DEF CalmSession
<1> QED  BY <1>1, <1>2

\* A confirmed session is the customer's.
LEMMA ConfirmCalm ==
    ASSUME SInv, CalmInv, calm, NEW c \in Chats, Confirm(c)
    PROVE  CalmCalls' /\ CalmSession'
<1>1. CalmCalls'
  BY DEF Confirm, SInv, TypeOK, ReplyPlaces, CalmInv, CalmCalls, CalmSession,
         Goto, Consume, FirstRequest
<1>2. CalmSession'
  BY DEF Confirm, SInv, TypeOK, ReplyPlaces, CalmInv, CalmCalls, CalmSession,
         Goto, Consume, FirstRequest
<1> QED  BY <1>1, <1>2

\* A rejected login takes the flag down.
LEMMA RejectCalm ==
    ASSUME SInv, CalmInv, calm, NEW c \in Chats, Reject(c)
    PROVE  CalmCalls' /\ CalmSession'
<1>1. CalmCalls'
  BY DEF Reject, SInv, TypeOK, ReplyPlaces, CalmInv, CalmCalls, CalmSession,
         Goto, Consume, ClearState, EndCall
<1>2. CalmSession'
  BY DEF Reject, SInv, TypeOK, ReplyPlaces, CalmInv, CalmCalls, CalmSession,
         Goto, Consume, ClearState, EndCall
<1> QED  BY <1>1, <1>2

\* A login does not break off while it is calm.
LEMMA LoginErrorCalm ==
    ASSUME SInv, CalmInv, calm, NEW c \in Chats, LoginError(c)
    PROVE  CalmCalls' /\ CalmSession'
BY DEF LoginError, SInv, TypeOK, ReplyPlaces, CalmInv, CalmCalls,
       CalmSession, Accepted

\* requireAuth lets a trusted session through.
LEMMA CheckAuthCalm ==
    ASSUME SInv, CalmInv, calm, NEW c \in Chats, CheckAuth(c)
    PROVE  CalmCalls' /\ CalmSession'
<1>1. CalmCalls'
  BY DEF CheckAuth, SInv, TypeOK, ReplyPlaces, CalmInv, CalmCalls,
         CalmSession, Goto, client, RetryOnce, EndCall
<1>2. CalmSession'
  BY DEF CheckAuth, SInv, TypeOK, ReplyPlaces, CalmInv, CalmCalls,
         CalmSession, Goto, client, RetryOnce, EndCall
<1> QED  BY <1>1, <1>2

\* No token is asked for while it is calm.
LEMMA GetTokenCalm ==
    ASSUME SInv, CalmInv, calm, NEW c \in Chats, GetToken(c)
    PROVE  CalmCalls' /\ CalmSession'
BY DEF GetToken, SInv, TypeOK, ReplyPlaces, CalmInv, CalmCalls, CalmSession

\* A result leaves the session alone.
LEMMA AnsweredCalm ==
    ASSUME SInv, CalmInv, calm, NEW c \in Chats, Answered(c)
    PROVE  CalmCalls' /\ CalmSession'
<1>1. CalmCalls'
  BY DEF Answered, SInv, TypeOK, ReplyPlaces, CalmInv, CalmCalls,
         CalmSession, Goto, Consume, client, EndCall
<1>2. CalmSession'
  BY DEF Answered, SInv, TypeOK, ReplyPlaces, CalmInv, CalmCalls,
         CalmSession, Goto, Consume, client, EndCall
<1> QED  BY <1>1, <1>2

\* A refusal leaves the session alone.
LEMMA RefusedCalm ==
    ASSUME SInv, CalmInv, calm, NEW c \in Chats, Refused(c)
    PROVE  CalmCalls' /\ CalmSession'
<1>1. CalmCalls'
  <2>1. RetryOnce(c) /\ pc[c] # "idle" /\ reply' = [reply EXCEPT ![c] = NoReply]
    BY DEF Refused, Consume
  <2>2. \A d \in Chats \ {c} : pc'[d] = pc[d] /\ pc[d] = "idle" /\ reply'[d] = reply[d]
    BY <2>1, RetryOnceTypes DEF SInv, TypeOK, CalmInv, CalmCalls
  <2>3. pc'[c] \in {"idle", "lock"} /\ reply'[c] = NoReply
    BY <2>1, RetryOnceTypes DEF SInv, TypeOK
  <2> QED  BY <2>2, <2>3 DEF CalmInv, CalmCalls
<1>2. CalmSession'
  BY DEF Refused, SInv, TypeOK, ReplyPlaces, CalmInv, CalmCalls, CalmSession,
         Goto, Consume, client, RetryOnce, EndCall
<1> QED  BY <1>1, <1>2

\* There is no other error while it is calm.
LEMMA CallErrorCalm ==
    ASSUME SInv, CalmInv, calm, NEW c \in Chats, CallError(c)
    PROVE  CalmCalls' /\ CalmSession'
BY DEF CallError, SInv, TypeOK, ReplyPlaces, CalmInv, CalmCalls, CalmSession

\* Every step keeps it.
LEMMA StepCalm == SInv /\ CalmInv /\ [Next]_vars => CalmInv'
<1> SUFFICES ASSUME SInv, CalmInv, [Next]_vars, calm' PROVE CalmCalls' /\ CalmSession'
  BY DEF CalmInv
<1>0. calm
  BY DEF Next, vars, Start, Acquire, NotConfigured, StillLoggedIn, BeginLogin, Work, Send,
         NotNeeded, LoginStep, Confirm, Reject, LoginError, CheckAuth, GetToken, Answered,
         Refused, CallError, SetCreds, Expire, Restart
<1>1. ASSUME NEW c \in Chats, NEW k \in Kinds, Start(c, k) PROVE CalmCalls' /\ CalmSession'
  BY <1>0, <1>1, StartCalm
<1>2. ASSUME NEW c \in Chats, Acquire(c) PROVE CalmCalls' /\ CalmSession'
  BY <1>0, <1>2, NotConfiguredCalm, StillLoggedInCalm, BeginLoginCalm DEF Acquire
<1>3. ASSUME NEW c \in Chats, Work(c) PROVE CalmCalls' /\ CalmSession'
  BY <1>0, <1>3, SendCalm, NotNeededCalm, LoginStepCalm, ConfirmCalm, RejectCalm,
     LoginErrorCalm, CheckAuthCalm, GetTokenCalm, AnsweredCalm, RefusedCalm, CallErrorCalm
     DEF Work
<1>4. ASSUME NEW a \in Accounts \cup {NoCreds}, SetCreds(a) PROVE CalmCalls' /\ CalmSession'
  BY <1>0, <1>4 DEF SetCreds, client, CalmInv, CalmCalls, CalmSession
<1>5. CASE Expire
  BY <1>0, <1>5 DEF Expire, CalmInv, CalmCalls, CalmSession
<1>6. CASE Restart
  BY <1>0, <1>6 DEF Restart, CalmInv, CalmCalls, CalmSession
<1>7. CASE UNCHANGED vars
  BY <1>0, <1>7 DEF vars, client, CalmInv, CalmCalls, CalmSession
<1> QED  BY <1>1, <1>2, <1>3, <1>4, <1>5, <1>6, <1>7 DEF Next

\* "cart/order operations can't run on a guest account" (client.go Login) while
\* calls do not overlap and the network does not fail, for any chats, accounts
\* and settings.
THEOREM CalmCartsAreNoGuests == Spec => []CalmNoGuestCart
<1>1. Init => CalmInv
  BY DEF Init, CalmInv, CalmCalls, CalmSession
<1>2. SInv /\ CalmInv /\ [Next]_vars => CalmInv'
  BY StepCalm
<1>3. CalmInv => CalmNoGuestCart
  BY DEF CalmInv, CalmSession, CalmNoGuestCart, NoGuestCart, ServedTo
<1> QED  BY <1>1, <1>2, <1>3, SessionInductive, PTL DEF Spec
=============================================================================
