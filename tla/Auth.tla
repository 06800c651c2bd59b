-------------------------------- MODULE Auth --------------------------------
(***************************************************************************)
(* Management authentication: src/src/auth.rs with the login, logout and   *)
(* page handlers of src/src/web.rs and the cookies of the browsers that    *)
(* talk to them.  The one account lives in the repository; sessions and    *)
(* the login limiter live in memory.                                       *)
(*                                                                         *)
(* A tab shows a page or has one request in flight.  A handler runs when   *)
(* its request is sent, a login in the steps between which it awaits or    *)
(* releases a mutex; the answer reaches the browser later (Deliver), when  *)
(* other tabs may have changed its cookies.                                *)
(*                                                                         *)
(* Tokens are random, so a fresh one is any that nobody holds.  Time is    *)
(* counted in ticks, a fraction of the seconds the code rounds to.         *)
(***************************************************************************)
EXTENDS Integers, FiniteSets

CONSTANTS
    Browsers,       \* cookie jars
    Tabs,           \* tabs of the browsers
    BrowserOf,      \* [Tabs -> Browsers]
    Sources,        \* addresses that requests come from
    SourceOf,       \* [Browsers -> Sources], what login_source finds
    Accounts,       \* user name and password, as one value
    Tokens,         \* CSRF tokens, as numbers
    SessionIds,     \* session tokens, as numbers
    Limit,          \* LOGIN_RATE_LIMIT_FAILURES
    Window,         \* LOGIN_RATE_LIMIT_WINDOW, in ticks
    SessionTtl,     \* SESSION_TTL, in ticks
    Second,         \* ticks of a second
    MaxTime,        \* bound on the clock
    Keep,           \* an answer that leaves a cookie as it is
    None

Times == 0 .. MaxTime
Session == [csrf: Tokens, exp: 0 .. MaxTime + SessionTtl]
Attempt == [started: Times, failures: Nat]
Jar == [session: SessionIds \cup {None}, csrf: Tokens \cup {None}]
\* A page with a form, or a text without.
Page == [kind: {"login", "admin"}, form: Tokens, under: SessionIds \cup {None}]
Answer == [session: SessionIds \cup {None, Keep}, csrf: Tokens \cup {None, Keep},
           page: Page \cup {None}, refusal: BOOLEAN, sent: SessionIds \cup {None}]

ASSUME AuthBounds ==
    /\ Limit \in Nat \ {0} /\ Window \in Nat \ {0} /\ SessionTtl \in Nat \ {0}
    /\ Second \in Nat \ {0} /\ MaxTime \in Nat
ASSUME AuthTabs ==
    /\ BrowserOf \in [Tabs -> Browsers] /\ SourceOf \in [Browsers -> Sources]
    /\ IsFiniteSet(Tabs)
ASSUME AuthNone ==
    /\ Tokens \subseteq Nat /\ SessionIds \subseteq Nat
    /\ None \notin Nat \cup Session \cup Attempt \cup Page \cup Accounts
    /\ Keep \notin Tokens \cup SessionIds \cup {None}

VARIABLES
    now,        \* monotonic clock
    up,         \* whether the process serves
    stored,     \* the account of the repository
    account,    \* the account the process loaded
    sessions,   \* AuthService::sessions
    attempts,   \* AuthService::login_attempts
    jar,        \* the cookies of each browser
    tab,        \* what each tab shows, or how far its request is
    promised,   \* when the last refused login of a source was told to come back,
                \* and when the window it was refused for ends
    muddled     \* browsers whose CSRF cookie was replaced since their login, by
                \* a refused login or by an answer to a request sent before it

server == <<up, stored, account>>
vars == <<now, server, sessions, attempts, jar, tab, promised, muddled>>

-----------------------------------------------------------------------------
(* Operators.                                                               *)

Shows(shown) == [stage |-> "shows", page |-> shown]
Verifying(password) == [stage |-> "verifying", password |-> password]
Granted == [stage |-> "granted"]
Answered(answer) == [stage |-> "answered", answer |-> answer]
TabStates ==
    {Granted} \cup {Shows(p) : p \in Page \cup {None}}
        \cup {Verifying(p) : p \in Accounts} \cup {Answered(a) : a \in Answer}

\* cookie_value: the cookies a request carries.
SessionCookie(t) == jar[BrowserOf[t]].session
CsrfCookie(t) == jar[BrowserOf[t]].csrf

\* retain(expires_at > now), done by every access to the sessions
LiveSessions(ss) ==
    [id \in SessionIds |-> IF ss[id] # None /\ ss[id].exp > now THEN ss[id] ELSE None]

\* is_session_valid
Valid(id) == id # None /\ LiveSessions(sessions)[id] # None

\* is_csrf_valid: the token belongs to this very session.
Accepts(id, token) == Valid(id) /\ sessions[id].csrf = token

\* Answers under way, and the pages shown or under way.
Answers == {tab[t].answer : t \in {u \in Tabs : tab[u].stage = "answered"}}
Pages == {tab[t].page : t \in {u \in Tabs : tab[u].stage = "shows"}}
             \cup {a.page : a \in Answers}

\* Tokens somebody holds: generate_token returns none of these.
UsedTokens ==
    {sessions[id].csrf : id \in {i \in SessionIds : sessions[i] # None}}
        \cup {jar[b].csrf : b \in Browsers}
        \cup {p.form : p \in Pages \ {None}}
        \cup {a.csrf : a \in Answers}
UsedSessions ==
    {id \in SessionIds : sessions[id] # None}
        \cup {jar[b].session : b \in Browsers}
        \cup {p.under : p \in Pages \ {None}}
        \cup UNION {{a.session, a.sent} : a \in Answers}
Fresh(set, used) == {x \in set \ used : \A y \in set \ used : x <= y}

\* retain(now - window_started < window)
CurrentAttempts(as) ==
    [s \in Sources |->
        IF as[s] # None /\ now - as[s].started < Window THEN as[s] ELSE None]

\* Slip: one failure more is let through.
RefusesLate(as, s) ==
    CurrentAttempts(as)[s] # None /\ CurrentAttempts(as)[s].failures > Limit

\* retry_after_secs: whether a source has to wait ...
Refuses(as, s) ==
    CurrentAttempts(as)[s] # None /\ CurrentAttempts(as)[s].failures >= Limit

\* ... and for how long: whole seconds, rounded down but at least one.
RetryAfter(a) ==
    LET secs == (Window - (now - a.started)) \div Second
    IN  Second * (IF secs = 0 THEN 1 ELSE secs)

\* Slip: every failure starts the window anew.
WithFailureSliding(a) ==
    [started |-> now,
     failures |-> 1 + (IF a = None \/ now - a.started >= Window THEN 0 ELSE a.failures)]

\* record_login_failure
WithFailure(a) ==
    IF a = None \/ now - a.started >= Window
    THEN [started |-> now, failures |-> 1]
    ELSE [a EXCEPT !.failures = @ + 1]

-----------------------------------------------------------------------------
(* The process.                                                             *)

EmptyJar == [session |-> None, csrf |-> None]

Init ==
    /\ now = 0
    /\ up = FALSE /\ stored = None /\ account = None
    /\ sessions = [id \in SessionIds |-> None]
    /\ attempts = [s \in Sources |-> None]
    /\ jar = [b \in Browsers |-> EmptyJar]
    /\ tab = [t \in Tabs |-> Shows(None)]
    /\ promised = [s \in Sources |-> None]
    /\ muddled = [b \in Browsers |-> FALSE]

Tick ==
    /\ now < MaxTime /\ now' = now + 1
    /\ UNCHANGED <<server, sessions, attempts, jar, tab, promised, muddled>>

\* The browser drops its cookies, because they are cleared or their Max-Age is
\* over.  (A session cookie that goes alone leaves what the answer to a page
\* request without a valid session does.)
DropCookies(b) ==
    /\ jar[b] # EmptyJar
    /\ jar' = [jar EXCEPT ![b] = EmptyJar]
    /\ UNCHANGED <<now, server, sessions, attempts, tab, promised, muddled>>

\* Slip: the configured account wins over the one in the repository.
StartFromConfig(configured) ==
    /\ ~up /\ up' = TRUE
    /\ account' = IF configured # None THEN configured ELSE stored
    /\ stored' = account'
    /\ UNCHANGED <<now, sessions, attempts, jar, tab, promised, muddled>>

\* from_repository: the stored account, or else the configured one, which is
\* stored.  Where that fails the process ends before it serves.
Start(configured) ==
    /\ ~up /\ up' = TRUE
    /\ account' = IF stored # None THEN stored ELSE configured
    /\ stored' = account'
    /\ UNCHANGED <<now, sessions, attempts, jar, tab, promised, muddled>>

\* Slip: sessions are kept across a restart.
StopKeepingSessions ==
    /\ up /\ up' = FALSE /\ account' = None
    /\ attempts' = [s \in Sources |-> None]
    /\ promised' = [s \in Sources |-> None]
    /\ tab' = [t \in Tabs |-> IF tab[t].stage = "shows" THEN tab[t] ELSE Shows(None)]
    /\ UNCHANGED <<now, stored, sessions, jar, muddled>>

\* The process ends, and with it the sessions, the limiter and every request.
Stop ==
    /\ up /\ up' = FALSE /\ account' = None
    /\ sessions' = [id \in SessionIds |-> None]
    /\ attempts' = [s \in Sources |-> None]
    /\ promised' = [s \in Sources |-> None]
    /\ tab' = [t \in Tabs |-> IF tab[t].stage = "shows" THEN tab[t] ELSE Shows(None)]
    /\ UNCHANGED <<now, stored, jar, muddled>>

-----------------------------------------------------------------------------
(* Handlers.                                                                *)

Sends(t) == up /\ tab[t].stage = "shows"
Form(t) == tab[t].page.form
SendsFrom(t, kind) == Sends(t) /\ tab[t].page # None /\ tab[t].page.kind = kind

Reply(t, session, csrf, shown, refusal) ==
    Answered([session |-> session, csrf |-> csrf, page |-> shown, refusal |-> refusal,
              sent |-> IF csrf = Keep \/ refusal THEN None ELSE SessionCookie(t)])
Respond(t, session, csrf, shown) ==
    tab' = [tab EXCEPT ![t] = Reply(t, session, csrf, shown, FALSE)]
RespondText(t) == Respond(t, Keep, Keep, None)

\* render_login with an error and a token of its own
RespondRefusal(t) ==
    \E token \in Fresh(Tokens, UsedTokens) :
        tab' = [tab EXCEPT ![t] = Reply(t, Keep, token,
            [kind |-> "login", form |-> token, under |-> None], TRUE)]

\* page_csrf_token: the token of the cookie, or a new one.
PageToken(t) ==
    IF CsrfCookie(t) # None THEN {CsrfCookie(t)} ELSE Fresh(Tokens, UsedTokens)

\* login_page
OpenLogin(t) ==
    /\ Sends(t)
    /\ \E token \in PageToken(t) :
           Respond(t, Keep, token, [kind |-> "login", form |-> token, under |-> None])
    /\ UNCHANGED <<now, server, sessions, attempts, jar, promised, muddled>>

\* A management page behind require_admin, rendered by render_page.
OpenPage(t) ==
    /\ Sends(t)
    /\ sessions' = LiveSessions(sessions)
    /\ IF Valid(SessionCookie(t))
       THEN \E token \in PageToken(t) :
                Respond(t, Keep, token,
                        [kind |-> "admin", form |-> token, under |-> SessionCookie(t)])
       ELSE Respond(t, None, Keep, None)
    /\ UNCHANGED <<now, server, attempts, jar, promised, muddled>>

\* login: the form's token is not the cookie's.
LoginOutdated(t) ==
    /\ SendsFrom(t, "login") /\ Form(t) # CsrfCookie(t)
    /\ RespondRefusal(t)
    /\ UNCHANGED <<now, server, sessions, attempts, jar, promised, muddled>>

LoginUnconfigured(t) ==
    /\ SendsFrom(t, "login") /\ Form(t) = CsrfCookie(t) /\ account = None
    /\ RespondText(t)
    /\ UNCHANGED <<now, server, sessions, attempts, jar, promised, muddled>>

ReachesLimiter(t) == SendsFrom(t, "login") /\ Form(t) = CsrfCookie(t) /\ account # None

LoginLimited(t) ==
    /\ ReachesLimiter(t)
    /\ LET s == SourceOf[BrowserOf[t]]
       IN  /\ Refuses(attempts, s)
           /\ attempts' = CurrentAttempts(attempts)
           /\ promised' = [promised EXCEPT ![s] =
                  [retry |-> now + RetryAfter(attempts[s]),
                   ends |-> attempts[s].started + Window]]
    /\ RespondText(t)
    /\ UNCHANGED <<now, server, sessions, jar, muddled>>

\* The password is verified on another thread while the handler awaits it.
LoginAdmitted(t, password) ==
    /\ ReachesLimiter(t)
    /\ ~Refuses(attempts, SourceOf[BrowserOf[t]])
    /\ attempts' = CurrentAttempts(attempts)
    /\ tab' = [tab EXCEPT ![t] = Verifying(password)]
    /\ UNCHANGED <<now, server, sessions, jar, promised, muddled>>

\* A wrong password, or any if the thread that verifies it breaks off.
LoginFails(t) ==
    /\ tab[t].stage = "verifying"
    /\ attempts' = [attempts EXCEPT ![SourceOf[BrowserOf[t]]] = WithFailure(@)]
    /\ RespondRefusal(t)
    /\ UNCHANGED <<now, server, sessions, jar, promised, muddled>>

\* record_login_success, then create_session under the other mutex
LoginSucceeds(t) ==
    /\ tab[t].stage = "verifying" /\ tab[t].password = account
    /\ attempts' = [attempts EXCEPT ![SourceOf[BrowserOf[t]]] = None]
    /\ tab' = [tab EXCEPT ![t] = Granted]
    /\ promised' = [promised EXCEPT ![SourceOf[BrowserOf[t]]] = None]
    /\ UNCHANGED <<now, server, sessions, jar, muddled>>

\* Slip: the browser keeps the token of the login form.
CreateSessionWithoutCsrfCookie(t) ==
    /\ tab[t].stage = "granted"
    /\ \E id \in Fresh(SessionIds, UsedSessions), token \in Fresh(Tokens, UsedTokens) :
           /\ sessions' = [LiveSessions(sessions) EXCEPT
                  ![id] = [csrf |-> token, exp |-> now + SessionTtl]]
           /\ Respond(t, id, Keep, None)
    /\ UNCHANGED <<now, server, attempts, jar, promised, muddled>>

CreateSession(t) ==
    /\ tab[t].stage = "granted"
    /\ \E id \in Fresh(SessionIds, UsedSessions), token \in Fresh(Tokens, UsedTokens) :
           /\ sessions' = [LiveSessions(sessions) EXCEPT
                  ![id] = [csrf |-> token, exp |-> now + SessionTtl]]
           /\ Respond(t, id, token, None)
    /\ UNCHANGED <<now, server, attempts, jar, promised, muddled>>

\* logout: without a session there is nothing to check or to end.
Logout(t) ==
    /\ SendsFrom(t, "admin")
    /\ LET id == SessionCookie(t)
       IN  IF id # None /\ ~Accepts(id, Form(t))
           THEN RespondText(t) /\ sessions' = LiveSessions(sessions)
           ELSE /\ Respond(t, None, None, None)
                /\ sessions' = IF id = None THEN sessions
                               ELSE [LiveSessions(sessions) EXCEPT ![id] = None]
    /\ UNCHANGED <<now, server, attempts, jar, promised, muddled>>

\* A form that changes something: a name, or a deletion (Pipeline).  Behind
\* require_admin, then csrf_request_is_valid; refused or done, no form remains.
Change(t) ==
    /\ SendsFrom(t, "admin")
    /\ sessions' = LiveSessions(sessions)
    /\ IF Valid(SessionCookie(t)) THEN RespondText(t) ELSE Respond(t, None, Keep, None)
    /\ UNCHANGED <<now, server, attempts, jar, promised, muddled>>

\* The answer reaches the browser, which takes over its cookies.
Deliver(t) ==
    /\ tab[t].stage = "answered"
    /\ LET a == tab[t].answer
           b == BrowserOf[t]
           session == IF a.session = Keep THEN jar[b].session ELSE a.session
           csrf == IF a.csrf = Keep THEN jar[b].csrf ELSE a.csrf
       IN  /\ jar' = [jar EXCEPT ![b] = [session |-> session, csrf |-> csrf]]
           /\ tab' = [tab EXCEPT ![t] = Shows(a.page)]
           /\ muddled' = [muddled EXCEPT ![b] =
                  /\ session # None /\ a.session = Keep
                  /\ @ \/ (a.csrf # Keep /\ (a.refusal \/ a.sent # session))]
    /\ UNCHANGED <<now, server, sessions, attempts, promised>>

\* The connection breaks: a handler that awaits the verification is dropped
\* before it has counted anything, and an answer is lost with its cookies.
Disconnect(t) ==
    /\ tab[t].stage \in {"verifying", "answered"}
    /\ tab' = [tab EXCEPT ![t] = Shows(None)]
    /\ UNCHANGED <<now, server, sessions, attempts, jar, promised, muddled>>

Next ==
    \/ Tick
    \/ \E b \in Browsers : DropCookies(b)
    \/ \E configured \in Accounts \cup {None} : Start(configured)
    \/ Stop
    \/ \E t \in Tabs :
           \/ OpenLogin(t) \/ OpenPage(t)
           \/ LoginOutdated(t) \/ LoginUnconfigured(t) \/ LoginLimited(t)
           \/ \E password \in Accounts : LoginAdmitted(t, password)
           \/ LoginFails(t) \/ LoginSucceeds(t) \/ CreateSession(t)
           \/ Logout(t) \/ Change(t)
           \/ Deliver(t) \/ Disconnect(t)

Spec == Init /\ [][Next]_vars

-----------------------------------------------------------------------------
(* Properties.                                                              *)

\* State is well formed, and a process that does not serve holds nothing.
TypeOK ==
    /\ now \in Times /\ up \in BOOLEAN
    /\ stored \in Accounts \cup {None} /\ account \in Accounts \cup {None}
    /\ sessions \in [SessionIds -> Session \cup {None}]
    /\ attempts \in [Sources -> Attempt \cup {None}]
    /\ jar \in [Browsers -> Jar] /\ tab \in [Tabs -> TabStates]
    /\ muddled \in [Browsers -> BOOLEAN]
    /\ ~up => /\ \A id \in SessionIds : sessions[id] = None
              /\ \A t \in Tabs : tab[t].stage = "shows"

TabsOf(s) == {t \in Tabs : SourceOf[BrowserOf[t]] = s}
BeingVerified(s) == {t \in TabsOf(s) : tab[t].stage = "verifying"}

\* The limiter is asked before the verification and told of it after, so
\* requests that run at the same time overshoot it, but by no more than their
\* number: in a window the failures counted and still to be counted stay below
\* LOGIN_RATE_LIMIT_FAILURES plus the requests a source has open.
LimiterHolds ==
    \A s \in Sources :
        LET current == CurrentAttempts(attempts)[s]
        IN  (IF current = None THEN 0 ELSE current.failures)
                + Cardinality(BeingVerified(s)) < Limit + Cardinality(TabsOf(s))

\* A refused source that waits for the announced seconds, which are rounded down
\* and so less than one second short, is not refused for the same failures
\* again: neither a late failure nor another refusal prolongs the wait.  (A login
\* that succeeds meanwhile starts a new count.)
RetryIsHonoured ==
    \A s \in Sources :
        promised[s] # None /\ now >= promised[s].retry + Second - 1
            /\ Refuses(attempts, s) => attempts[s].started >= promised[s].ends

\* A form rendered in a session is accepted for as long as the session lives,
\* whatever other tabs do, except after a refused login in the same browser or
\* an answer that was overtaken by the login: render_login and render_page set
\* a CSRF cookie that the session does not know.
FormsAccepted ==
    \A t \in Tabs :
        LET id == SessionCookie(t)
        IN  /\ SendsFrom(t, "admin") /\ tab[t].page.under = id
            /\ Valid(id) /\ ~muddled[BrowserOf[t]]
            => Accepts(id, Form(t))

\* The first account that was configured stays the only one: what is stored
\* wins over any later configuration, and is what every restart serves.
FirstAccountStays ==
    [][stored # None => stored' = stored /\ (up' => account' = stored)]_vars
=============================================================================
