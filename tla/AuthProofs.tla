----------------------------- MODULE AuthProofs -----------------------------
(***************************************************************************)
(* Proofs about Auth, for any number of browsers, tabs and sources, and    *)
(* whatever the limits, lifetimes and the ticks of a second are.           *)
(***************************************************************************)
EXTENDS Auth, FiniteSetTheorems, TLAPS

-----------------------------------------------------------------------------
(* What a tab may hold.                                                     *)

\* A tab by its stage.
LEMMA TabShape ==
    ASSUME NEW x \in TabStates
    PROVE  /\ x.stage \in {"shows", "verifying", "granted", "answered"}
           /\ x.stage = "shows" => x.page \in Page \cup {None}
           /\ x.stage = "verifying" => x.password \in Accounts
           /\ x.stage = "answered" => x.answer \in Answer
  BY DEF TabStates, Granted, Shows, Verifying, Answered

LEMMA TabConstructed ==
    /\ Granted \in TabStates
    /\ \A p \in Page \cup {None} : Shows(p) \in TabStates
    /\ \A p \in Accounts : Verifying(p) \in TabStates
    /\ \A a \in Answer : Answered(a) \in TabStates
  BY DEF TabStates

LEMMA Stages ==
    /\ Granted.stage = "granted"
    /\ \A p : Shows(p).stage = "shows" /\ Shows(p).page = p
    /\ \A p : Verifying(p).stage = "verifying"
    /\ \A a : Answered(a).stage = "answered" /\ Answered(a).answer = a
  BY DEF Granted, Shows, Verifying, Answered

\* A token or an identifier drawn afresh is held by nobody.
LEMMA FreshIsUnused ==
    ASSUME NEW set, NEW used, NEW x \in Fresh(set, used)
    PROVE  x \in set /\ x \notin used
  BY DEF Fresh

LEMMA ReplyType ==
    ASSUME TypeOK, NEW t \in Tabs,
           NEW session \in SessionIds \cup {None, Keep}, NEW csrf \in Tokens \cup {None, Keep},
           NEW shown \in Page \cup {None}, NEW refusal \in BOOLEAN
    PROVE  Reply(t, session, csrf, shown, refusal) \in TabStates
  <1>1. SessionCookie(t) \in SessionIds \cup {None}
    BY AuthTabs DEF TypeOK, SessionCookie, Jar
  <1>2. [session |-> session, csrf |-> csrf, page |-> shown, refusal |-> refusal,
         sent |-> IF csrf = Keep \/ refusal THEN None ELSE SessionCookie(t)] \in Answer
    BY <1>1 DEF Answer
  <1>3. QED
    BY <1>2, TabConstructed DEF Reply

\* How the handlers answer.
LEMMA RespondType ==
    ASSUME TypeOK, NEW t \in Tabs,
           NEW session \in SessionIds \cup {None, Keep}, NEW csrf \in Tokens \cup {None, Keep},
           NEW shown \in Page \cup {None}, Respond(t, session, csrf, shown)
    PROVE  tab' \in [Tabs -> TabStates]
  BY ReplyType DEF Respond, TypeOK

LEMMA RefusalType ==
    ASSUME TypeOK, NEW t \in Tabs, RespondRefusal(t)
    PROVE  tab' \in [Tabs -> TabStates]
  <1>1. PICK token \in Fresh(Tokens, UsedTokens) :
            tab' = [tab EXCEPT ![t] = Reply(t, Keep, token,
                [kind |-> "login", form |-> token, under |-> None], TRUE)]
    BY DEF RespondRefusal
  <1>2. token \in Tokens
    BY FreshIsUnused
  <1>3. [kind |-> "login", form |-> token, under |-> None] \in Page
    BY <1>2 DEF Page
  <1>4. QED
    BY <1>1, <1>2, <1>3, ReplyType DEF TypeOK

LEMMA PageTokenType ==
    ASSUME TypeOK, NEW t \in Tabs, NEW token \in PageToken(t)
    PROVE  token \in Tokens
  BY AuthTabs, FreshIsUnused DEF PageToken, CsrfCookie, TypeOK, Jar

LEMMA LiveSessionsType ==
    ASSUME sessions \in [SessionIds -> Session \cup {None}]
    PROVE  /\ LiveSessions(sessions) \in [SessionIds -> Session \cup {None}]
           /\ \A id \in SessionIds : LiveSessions(sessions)[id] \in {sessions[id], None}
  BY DEF LiveSessions

LEMMA CurrentAttemptsType ==
    ASSUME attempts \in [Sources -> Attempt \cup {None}]
    PROVE  CurrentAttempts(attempts) \in [Sources -> Attempt \cup {None}]
  BY DEF CurrentAttempts

LEMMA WithFailureType ==
    ASSUME NEW a \in Attempt \cup {None}, now \in Times
    PROVE  WithFailure(a) \in Attempt
  BY AuthBounds DEF WithFailure, Attempt, Times

-----------------------------------------------------------------------------
(* Types.                                                                   *)

LEMMA InitType == Init => TypeOK
  <1> SUFFICES ASSUME Init PROVE TypeOK
    OBVIOUS
  <1>1. now \in Times
    BY AuthBounds DEF Init, Times
  <1>2. tab \in [Tabs -> TabStates] /\ \A t \in Tabs : tab[t].stage = "shows"
    BY TabConstructed, Stages DEF Init
  <1>3. jar \in [Browsers -> Jar]
    BY DEF Init, EmptyJar, Jar
  <1>4. QED
    BY <1>1, <1>2, <1>3 DEF Init, TypeOK

LEMMA NextType ==
    ASSUME TypeOK, Next
    PROVE  TypeOK'
  <1> USE DEF server
  <1>1. CASE Tick
    BY <1>1, AuthBounds DEF Tick, TypeOK, Times
  <1>2. ASSUME NEW b \in Browsers, DropCookies(b)
        PROVE  TypeOK'
    BY <1>2 DEF DropCookies, TypeOK, EmptyJar, Jar
  <1>3. ASSUME NEW configured \in Accounts \cup {None}, Start(configured)
        PROVE  TypeOK'
    BY <1>3 DEF Start, TypeOK
  <1>4. CASE Stop
    <2>1. tab' \in [Tabs -> TabStates] /\ \A t \in Tabs : tab'[t].stage = "shows"
      BY <1>4, TabConstructed, Stages DEF Stop, TypeOK
    <2>2. QED
      BY <1>4, <2>1 DEF Stop, TypeOK
  <1>5. ASSUME NEW t \in Tabs, Sends(t) \/ tab[t].stage # "shows",
               UNCHANGED <<now, server, jar, muddled>>, tab' \in [Tabs -> TabStates],
               sessions' \in [SessionIds -> Session \cup {None}],
               attempts' \in [Sources -> Attempt \cup {None}]
        PROVE  TypeOK'
    BY <1>5 DEF TypeOK, Sends
  <1>6. ASSUME NEW t \in Tabs, OpenLogin(t)
        PROVE  TypeOK'
    <2>1. PICK token \in PageToken(t) :
              Respond(t, Keep, token, [kind |-> "login", form |-> token, under |-> None])
      BY <1>6 DEF OpenLogin
    <2>2. token \in Tokens /\ [kind |-> "login", form |-> token, under |-> None] \in Page
      BY PageTokenType DEF Page
    <2>3. QED
      BY <1>5, <1>6, <2>1, <2>2, RespondType DEF OpenLogin, TypeOK
  <1>7. ASSUME NEW t \in Tabs, OpenPage(t)
        PROVE  TypeOK'
    <2>1. CASE Valid(SessionCookie(t))
      <3>1. PICK token \in PageToken(t) :
                Respond(t, Keep, token,
                        [kind |-> "admin", form |-> token, under |-> SessionCookie(t)])
        BY <1>7, <2>1 DEF OpenPage
      <3>2. SessionCookie(t) \in SessionIds \cup {None}
        BY AuthTabs DEF TypeOK, SessionCookie, Jar
      <3>3. token \in Tokens
        BY PageTokenType
      <3>4. [kind |-> "admin", form |-> token, under |-> SessionCookie(t)] \in Page
        BY <3>2, <3>3 DEF Page
      <3>5. tab' \in [Tabs -> TabStates]
        BY <3>1, <3>3, <3>4, RespondType
      <3>6. QED
        BY <1>5, <1>7, <3>5, LiveSessionsType DEF OpenPage, TypeOK
    <2>2. CASE ~Valid(SessionCookie(t))
      <3>1. tab' \in [Tabs -> TabStates]
        BY <1>7, <2>2, RespondType DEF OpenPage
      <3>2. QED
        BY <1>5, <1>7, <3>1, LiveSessionsType DEF OpenPage, TypeOK
    <2>3. QED
      BY <2>1, <2>2
  <1>8. ASSUME NEW t \in Tabs, LoginOutdated(t)
        PROVE  TypeOK'
    BY <1>5, <1>8, RefusalType DEF LoginOutdated, SendsFrom, TypeOK
  <1>9. ASSUME NEW t \in Tabs, LoginUnconfigured(t)
        PROVE  TypeOK'
    BY <1>5, <1>9, RespondType DEF LoginUnconfigured, RespondText, SendsFrom, TypeOK
  <1>10. ASSUME NEW t \in Tabs, LoginLimited(t)
         PROVE  TypeOK'
    BY <1>5, <1>10, RespondType, CurrentAttemptsType
       DEF LoginLimited, ReachesLimiter, RespondText, SendsFrom, TypeOK
  <1>11. ASSUME NEW t \in Tabs, NEW password \in Accounts, LoginAdmitted(t, password)
         PROVE  TypeOK'
    <2>1. tab' \in [Tabs -> TabStates]
      BY <1>11, TabConstructed DEF LoginAdmitted, TypeOK
    <2>2. QED
      BY <1>5, <1>11, <2>1, CurrentAttemptsType
         DEF LoginAdmitted, ReachesLimiter, SendsFrom, TypeOK
  <1>12. ASSUME NEW t \in Tabs, LoginFails(t)
         PROVE  TypeOK'
    <2>1. SourceOf[BrowserOf[t]] \in Sources
      BY AuthTabs
    <2>2. attempts' \in [Sources -> Attempt \cup {None}]
      BY <1>12, <2>1, WithFailureType DEF LoginFails, TypeOK
    <2>3. QED
      BY <1>5, <1>12, <2>2, RefusalType DEF LoginFails, TypeOK
  <1>13. ASSUME NEW t \in Tabs, LoginSucceeds(t)
         PROVE  TypeOK'
    <2>1. tab' \in [Tabs -> TabStates]
      BY <1>13, TabConstructed DEF LoginSucceeds, TypeOK
    <2>2. attempts' \in [Sources -> Attempt \cup {None}]
      BY <1>13 DEF LoginSucceeds, TypeOK
    <2>3. QED
      BY <1>5, <1>13, <2>1, <2>2 DEF LoginSucceeds, TypeOK
  <1>14. ASSUME NEW t \in Tabs, CreateSession(t)
         PROVE  TypeOK'
    <2>1. PICK id \in Fresh(SessionIds, UsedSessions), token \in Fresh(Tokens, UsedTokens) :
              /\ sessions' = [LiveSessions(sessions) EXCEPT
                     ![id] = [csrf |-> token, exp |-> now + SessionTtl]]
              /\ Respond(t, id, token, None)
      BY <1>14 DEF CreateSession
    <2>2. id \in SessionIds /\ token \in Tokens
      BY FreshIsUnused
    <2>3. [csrf |-> token, exp |-> now + SessionTtl] \in Session
      BY <2>2, AuthBounds DEF Session, TypeOK, Times
    <2>4. sessions' \in [SessionIds -> Session \cup {None}]
      BY <2>1, <2>3, LiveSessionsType DEF TypeOK
    <2>5. tab' \in [Tabs -> TabStates]
      BY <2>1, <2>2, RespondType
    <2>6. QED
      BY <1>5, <1>14, <2>4, <2>5 DEF CreateSession, TypeOK
  <1>15. ASSUME NEW t \in Tabs, Logout(t)
         PROVE  TypeOK'
    <2>1. tab' \in [Tabs -> TabStates]
      BY <1>15, RespondType DEF Logout, RespondText
    <2>2. sessions' \in [SessionIds -> Session \cup {None}]
      BY <1>15, LiveSessionsType DEF Logout, TypeOK
    <2>3. QED
      BY <1>5, <1>15, <2>1, <2>2 DEF Logout, SendsFrom, TypeOK
  <1>16. ASSUME NEW t \in Tabs, Change(t)
         PROVE  TypeOK'
    <2>1. tab' \in [Tabs -> TabStates]
      BY <1>16, RespondType DEF Change, RespondText
    <2>2. QED
      BY <1>5, <1>16, <2>1, LiveSessionsType DEF Change, SendsFrom, TypeOK
  <1>17. ASSUME NEW t \in Tabs, Deliver(t)
         PROVE  TypeOK'
    <2>1. tab[t].answer \in Answer
      BY <1>17, TabShape DEF Deliver, TypeOK
    <2>2. BrowserOf[t] \in Browsers
      BY AuthTabs
    <2>3. tab' \in [Tabs -> TabStates]
      BY <1>17, <2>1, TabConstructed DEF Deliver, TypeOK, Answer
    <2>4. jar' \in [Browsers -> Jar]
      BY <1>17, <2>1, <2>2 DEF Deliver, TypeOK, Answer, Jar
    <2>5. muddled' \in [Browsers -> BOOLEAN]
      BY <1>17, <2>2 DEF Deliver, TypeOK
    <2>6. up
      BY <1>17 DEF Deliver, TypeOK
    <2>7. QED
      BY <1>17, <2>3, <2>4, <2>5, <2>6 DEF Deliver, TypeOK
  <1>18. ASSUME NEW t \in Tabs, Disconnect(t)
         PROVE  TypeOK'
    <2>1. tab' \in [Tabs -> TabStates]
      BY <1>18, TabConstructed DEF Disconnect, TypeOK
    <2>2. QED
      BY <1>5, <1>18, <2>1 DEF Disconnect, TypeOK
  <1>19. QED
    BY <1>1, <1>2, <1>3, <1>4, <1>6, <1>7, <1>8, <1>9, <1>10, <1>11, <1>12, <1>13,
       <1>14, <1>15, <1>16, <1>17, <1>18 DEF Next

\* The state keeps its shape, and a process that is down holds no session, no
\* failure and no request.
THEOREM TypeCorrect == Spec => []TypeOK
  <1>1. TypeOK /\ [Next]_vars => TypeOK'
    BY NextType DEF vars, server, TypeOK
  <1>2. QED
    BY InitType, <1>1, PTL DEF Spec

-----------------------------------------------------------------------------
(* The account.                                                             *)

AccountInv == up => account = stored

\* The first account stays the only one: what the repository holds is served by
\* every later process, whatever is configured then (AuthService::from_repository).
THEOREM FirstAccount == Spec => FirstAccountStays
  <1> USE DEF AccountInv
  <1>1. Init => AccountInv
    BY DEF Init
  <1>2. ASSUME AccountInv, [Next]_vars
        PROVE  AccountInv' /\ (stored # None => stored' = stored /\ (up' => account' = stored))
    <2>1. CASE \E configured \in Accounts \cup {None} : Start(configured)
      BY <2>1 DEF Start
    <2>2. CASE Stop
      BY <2>2 DEF Stop
    <2>3. CASE UNCHANGED server
      BY <1>2, <2>3 DEF server
    <2>4. QED
      BY <1>2, <2>1, <2>2, <2>3
         DEF Next, vars, Tick, DropCookies, OpenLogin, OpenPage, LoginOutdated,
             LoginUnconfigured, LoginLimited, LoginAdmitted, LoginFails, LoginSucceeds,
             CreateSession, Logout, Change, Deliver, Disconnect
  <1>3. QED
    BY <1>1, <1>2, PTL DEF Spec, FirstAccountStays

-----------------------------------------------------------------------------
(* The limiter.                                                             *)

\* The handlers that answer at once, or at their end.
Answering(t) ==
    \/ OpenLogin(t) \/ OpenPage(t) \/ LoginOutdated(t) \/ LoginUnconfigured(t)
    \/ LoginLimited(t) \/ LoginFails(t) \/ CreateSession(t) \/ Logout(t) \/ Change(t)

LEMMA HandlersAnswer ==
    ASSUME NEW t \in Tabs, Answering(t)
    PROVE  \E a : tab' = [tab EXCEPT ![t] = Answered(a)]
  BY DEF Answering, OpenLogin, OpenPage, LoginOutdated, LoginUnconfigured, LoginLimited,
         LoginFails, CreateSession, Logout, Change, RespondText, RespondRefusal, Respond, Reply

\* The failures that count against a source.
Counted(s) ==
    LET current == CurrentAttempts(attempts)[s]
    IN  IF current = None THEN 0 ELSE current.failures

LEMMA CountedType ==
    ASSUME TypeOK, NEW s \in Sources
    PROVE  Counted(s) \in Nat
  BY CurrentAttemptsType DEF Counted, TypeOK, Attempt

LEMMA VerifiedType ==
    ASSUME NEW s \in Sources
    PROVE  /\ IsFiniteSet(TabsOf(s)) /\ Cardinality(TabsOf(s)) \in Nat
           /\ IsFiniteSet(BeingVerified(s)) /\ Cardinality(BeingVerified(s)) \in Nat
           /\ Cardinality(BeingVerified(s)) <= Cardinality(TabsOf(s))
  <1>1. TabsOf(s) \in SUBSET Tabs /\ BeingVerified(s) \in SUBSET TabsOf(s)
    BY DEF TabsOf, BeingVerified
  <1>2. IsFiniteSet(TabsOf(s))
    BY <1>1, AuthTabs, FS_Subset
  <1>3. QED
    BY <1>1, <1>2, FS_Subset, FS_CardinalityType

\* A step after which no more count and no more are being verified.
LEMMA LimiterKept ==
    ASSUME TypeOK, TypeOK', LimiterHolds, NEW s \in Sources,
           Counted(s)' <= Counted(s), BeingVerified(s)' \subseteq BeingVerified(s)
    PROVE  Counted(s)' + Cardinality(BeingVerified(s)') < Limit + Cardinality(TabsOf(s))
  <1>1. Counted(s) + Cardinality(BeingVerified(s)) < Limit + Cardinality(TabsOf(s))
    BY DEF LimiterHolds, Counted
  <1>2. /\ Cardinality(BeingVerified(s)') <= Cardinality(BeingVerified(s))
        /\ Cardinality(BeingVerified(s)') \in Nat
    <2>1. BeingVerified(s)' \in SUBSET BeingVerified(s)
      OBVIOUS
    <2>2. QED
      BY <2>1, VerifiedType, FS_Subset, FS_CardinalityType
  <1>3. Counted(s) \in Nat /\ Counted(s)' \in Nat
    BY CountedType DEF Counted, CurrentAttempts, TypeOK, Attempt
  <1>4. QED
    BY <1>1, <1>2, <1>3, VerifiedType, AuthBounds

\* Time alone only takes failures away.
LEMMA CountedLater ==
    ASSUME TypeOK, now' \in Int, now' >= now, NEW s \in Sources,
           attempts'[s] \in {attempts[s], CurrentAttempts(attempts)[s], None}
    PROVE  Counted(s)' <= Counted(s)
  <1>1. /\ attempts[s] \in Attempt \cup {None} /\ None \notin Attempt /\ now \in Int
        /\ Window \in Nat
    BY AuthNone, AuthBounds DEF TypeOK, Times
  <1>2. Counted(s) = IF attempts[s] # None /\ now - attempts[s].started < Window
                     THEN attempts[s].failures ELSE 0
    BY <1>1 DEF Counted, CurrentAttempts
  <1>3. Counted(s)' = IF attempts'[s] # None /\ now' - attempts'[s].started < Window
                      THEN attempts'[s].failures ELSE 0
    BY <1>1 DEF Counted, CurrentAttempts
  <1>4. CASE attempts'[s] = None
    BY <1>1, <1>2, <1>3, <1>4 DEF Attempt
  <1>5. CASE attempts'[s] = attempts[s]
    BY <1>1, <1>2, <1>3, <1>5 DEF Attempt, Times
  <1>6. CurrentAttempts(attempts)[s] \in {attempts[s], None}
    BY DEF CurrentAttempts
  <1>7. QED
    BY <1>4, <1>5, <1>6

LEMMA NextLimiter ==
    ASSUME TypeOK, TypeOK', LimiterHolds, Next, NEW s \in Sources
    PROVE  Counted(s)' + Cardinality(BeingVerified(s)') < Limit + Cardinality(TabsOf(s))
  <1> DEFINE Goal == Counted(s)' + Cardinality(BeingVerified(s)') < Limit + Cardinality(TabsOf(s))
  <1> USE DEF server
  <1>1. /\ now \in Int /\ now' \in Int /\ tab \in [Tabs -> TabStates]
        /\ attempts \in [Sources -> Attempt \cup {None}]
    BY DEF TypeOK, Times
  <1>2. CASE /\ now' >= now /\ attempts'[s] \in {attempts[s], CurrentAttempts(attempts)[s], None}
             /\ BeingVerified(s)' \subseteq BeingVerified(s)
    BY <1>1, <1>2, CountedLater, LimiterKept
  <1>3. CASE Tick \/ \E b \in Browsers : DropCookies(b)
    BY <1>1, <1>2, <1>3 DEF Tick, DropCookies, BeingVerified
  <1>4. CASE \E configured \in Accounts \cup {None} : Start(configured)
    BY <1>1, <1>2, <1>4 DEF Start, BeingVerified
  <1>5. CASE Stop
    <2>1. \A t \in Tabs : tab'[t].stage # "verifying"
      BY <1>1, <1>5, Stages DEF Stop
    <2>2. BeingVerified(s)' = {}
      BY <2>1 DEF BeingVerified, TabsOf
    <2>3. QED
      BY <1>1, <1>2, <1>5, <2>2 DEF Stop
  <1>6. ASSUME NEW t \in Tabs, Answering(t) \/ Deliver(t) \/ LoginSucceeds(t) \/ Disconnect(t)
        PROVE  BeingVerified(s)' \subseteq BeingVerified(s) \ {t}
    <2>1. tab'[t].stage # "verifying" /\ \A u \in Tabs \ {t} : tab'[u] = tab[u]
      BY <1>1, <1>6, HandlersAnswer, Stages DEF Deliver, LoginSucceeds, Disconnect
    <2>2. QED
      BY <2>1 DEF BeingVerified, TabsOf
  <1>7. ASSUME NEW t \in Tabs, Answering(t), ~LoginFails(t)
        PROVE  Goal
    <2>1. now' = now /\ attempts'[s] \in {attempts[s], CurrentAttempts(attempts)[s]}
      BY <1>1, <1>7 DEF Answering, OpenLogin, OpenPage, LoginOutdated, LoginUnconfigured,
                  LoginLimited, CreateSession, Logout, Change
    <2>2. QED
      BY <1>1, <1>2, <1>6, <1>7, <2>1
  <1>8. ASSUME NEW t \in Tabs, Deliver(t) \/ LoginSucceeds(t) \/ Disconnect(t)
        PROVE  Goal
    <2>1. now' = now /\ attempts'[s] \in {attempts[s], None}
      BY <1>1, <1>8, AuthTabs DEF Deliver, LoginSucceeds, Disconnect
    <2>2. QED
      BY <1>1, <1>2, <1>6, <1>8, <2>1
  <1>9. ASSUME NEW t \in Tabs, NEW password \in Accounts, LoginAdmitted(t, password)
        PROVE  Goal
    <2>1. /\ attempts' = CurrentAttempts(attempts) /\ now' = now
          /\ tab' = [tab EXCEPT ![t] = Verifying(password)]
      BY <1>9 DEF LoginAdmitted
    <2>2. CASE SourceOf[BrowserOf[t]] # s
      <3>1. BeingVerified(s)' \subseteq BeingVerified(s)
        BY <1>1, <2>1, <2>2 DEF BeingVerified, TabsOf
      <3>2. QED
        BY <1>1, <1>2, <2>1, <3>1
    <2>3. CASE SourceOf[BrowserOf[t]] = s
      <3>1. ~Refuses(attempts, s)
        BY <1>9, <2>3 DEF LoginAdmitted
      <3>2. Counted(s) < Limit
        BY <1>1, <3>1, CurrentAttemptsType, AuthBounds DEF Refuses, Counted, Attempt
      <3>3. Counted(s)' <= Counted(s)
        BY <1>1, <2>1, CountedLater
      <3>4. BeingVerified(s)' \in SUBSET TabsOf(s)
        BY DEF BeingVerified, TabsOf
      <3>5. /\ Cardinality(BeingVerified(s)') <= Cardinality(TabsOf(s))
            /\ Cardinality(BeingVerified(s)') \in Nat
        BY <3>4, VerifiedType, FS_Subset, FS_CardinalityType
      <3>6. Counted(s) \in Nat /\ Counted(s)' \in Nat
        BY CountedType DEF Counted, CurrentAttempts, TypeOK, Attempt
      <3>7. QED
        BY <3>2, <3>3, <3>5, <3>6, VerifiedType, AuthBounds
    <2>4. QED
      BY <2>2, <2>3
  <1>10. ASSUME NEW t \in Tabs, LoginFails(t)
         PROVE  Goal
    <2>1. BeingVerified(s)' \subseteq BeingVerified(s) \ {t}
      BY <1>6, <1>10 DEF Answering
    <2>2. /\ attempts' = [attempts EXCEPT ![SourceOf[BrowserOf[t]]] = WithFailure(@)]
          /\ now' = now /\ tab[t].stage = "verifying"
      BY <1>10 DEF LoginFails
    <2>3. CASE SourceOf[BrowserOf[t]] # s
      BY <1>1, <1>2, <2>1, <2>2, <2>3
    <2>4. CASE SourceOf[BrowserOf[t]] = s
      <3>1. t \in BeingVerified(s)
        BY <2>2, <2>4 DEF BeingVerified, TabsOf
      <3>2. Counted(s)' <= Counted(s) + 1
        <4>1. attempts'[s] = WithFailure(attempts[s])
          BY <1>1, <2>2, <2>4
        <4>2. attempts[s] \in Attempt \cup {None} /\ None \notin Attempt /\ Window \in Nat
          BY <1>1, AuthNone, AuthBounds
        <4>3. QED
          BY SMTT(60), <1>1, <2>2, <4>1, <4>2 DEF Counted, CurrentAttempts, WithFailure, Attempt, Times
      <3>3. /\ Cardinality(BeingVerified(s)') <= Cardinality(BeingVerified(s)) - 1
            /\ Cardinality(BeingVerified(s)') \in Nat
        <4>1. BeingVerified(s)' \in SUBSET (BeingVerified(s) \ {t})
          BY <2>1
        <4>2. /\ IsFiniteSet(BeingVerified(s) \ {t})
              /\ Cardinality(BeingVerified(s) \ {t}) = Cardinality(BeingVerified(s)) - 1
          BY <3>1, VerifiedType, FS_RemoveElement
        <4>3. QED
          BY <4>1, <4>2, FS_Subset, FS_CardinalityType
      <3>4. Counted(s) + Cardinality(BeingVerified(s)) < Limit + Cardinality(TabsOf(s))
        BY DEF LimiterHolds, Counted
      <3>5. Counted(s) \in Nat /\ Counted(s)' \in Nat
        BY CountedType DEF Counted, CurrentAttempts, TypeOK, Attempt
      <3>6. QED
        BY <3>2, <3>3, <3>4, <3>5, VerifiedType, AuthBounds
    <2>5. QED
      BY <2>3, <2>4
  <1>11. QED
    BY <1>3, <1>4, <1>5, <1>7, <1>8, <1>9, <1>10 DEF Next, Answering

\* Logins that are verified at the same time overshoot the limit by no more than
\* their number, although the limiter is asked and told in two locks of its mutex
\* (retry_after_secs, record_login_failure).
THEOREM LimiterBound == Spec => []LimiterHolds
  <1>1. ASSUME Init PROVE LimiterHolds
    <2> SUFFICES ASSUME NEW s \in Sources
                 PROVE  Counted(s) + Cardinality(BeingVerified(s)) < Limit + Cardinality(TabsOf(s))
      BY DEF LimiterHolds, Counted
    <2>1. Counted(s) = 0
      BY <1>1 DEF Init, Counted, CurrentAttempts
    <2>2. BeingVerified(s) = {}
      BY <1>1, Stages DEF Init, BeingVerified, TabsOf
    <2>3. QED
      BY <2>1, <2>2, FS_EmptySet, VerifiedType, AuthBounds
  <1>2. ASSUME TypeOK, TypeOK', LimiterHolds, [Next]_vars PROVE LimiterHolds'
    <2> SUFFICES ASSUME NEW s \in Sources
                 PROVE  Counted(s)' + Cardinality(BeingVerified(s)') < Limit + Cardinality(TabsOf(s))
      BY DEF LimiterHolds, Counted, TabsOf
    <2>1. CASE Next
      BY <1>2, <2>1, NextLimiter
    <2>2. CASE UNCHANGED vars
      BY <1>2, <2>2, LimiterKept, CountedType
         DEF vars, Counted, CurrentAttempts, BeingVerified, TypeOK
    <2>3. QED
      BY <1>2, <2>1, <2>2
  <1>3. QED
    BY <1>1, <1>2, TypeCorrect, PTL DEF Spec

-----------------------------------------------------------------------------
(* What a refused source is promised.                                       *)

Promise == [retry: Nat, ends: Nat]

\* The promise is less than a second short of the end of the window the source
\* was refused for, and until then the source's failures are those of that
\* window or of a later one.
PromiseKept(s) ==
    promised[s] # None =>
        /\ promised[s].ends <= promised[s].retry + Second - 1
        /\ IF attempts[s] = None THEN promised[s].ends <= now
           ELSE \/ attempts[s].started + Window = promised[s].ends
                \/ attempts[s].started >= promised[s].ends

PromiseInv ==
    /\ promised \in [Sources -> Promise \cup {None}]
    /\ \A s \in Sources : PromiseKept(s)

\* The seconds announced, rounded down, are less than a second short.
LEMMA RoundedDown ==
    ASSUME TypeOK, NEW a \in Attempt, a.started <= now, now - a.started < Window
    PROVE  /\ RetryAfter(a) \in Nat
           /\ Window - (now - a.started) <= RetryAfter(a) + Second - 1
  <1> DEFINE left == Window - (now - a.started)
  <1>1. left \in Nat \ {0} /\ Second \in Nat \ {0}
    BY AuthBounds DEF TypeOK, Times, Attempt
  <1>2. left \div Second \in Nat /\ Second * (left \div Second) > left - Second
    BY <1>1
  <1>3. RetryAfter(a) = Second * (IF left \div Second = 0 THEN 1 ELSE left \div Second)
    BY DEF RetryAfter
  <1> SUFFICES RetryAfter(a) \in Nat /\ left <= RetryAfter(a) + Second - 1
    OBVIOUS
  <1> HIDE DEF left
  <1>4. CASE left \div Second = 0
    BY <1>1, <1>2, <1>3, <1>4
  <1>5. CASE left \div Second # 0
    <2>1. RetryAfter(a) = Second * (left \div Second)
      BY <1>3, <1>5
    <2>2. Second * (left \div Second) \in Nat
      BY <1>1, <1>2
    <2>3. QED
      BY <1>1, <1>2, <2>1, <2>2
  <1>6. QED
    BY <1>4, <1>5

\* What another step does to a source's failures keeps the promise.
LEMMA PromiseStays ==
    ASSUME TypeOK, TypeOK', NEW s \in Sources, PromiseKept(s),
           promised \in [Sources -> Promise \cup {None}],
           promised'[s] \in {promised[s], None}, now' >= now,
           \/ attempts'[s] \in {attempts[s], CurrentAttempts(attempts)[s]}
           \/ attempts'[s] = None /\ promised'[s] = None
           \/ attempts'[s] = WithFailure(attempts[s])
    PROVE  PromiseKept(s)'
  <1>1. /\ attempts[s] \in Attempt \cup {None} /\ attempts'[s] \in Attempt \cup {None}
        /\ None \notin Attempt /\ now \in Nat /\ now' \in Nat
        /\ Window \in Nat \ {0} /\ Second \in Nat \ {0}
        /\ promised[s] \in Promise \cup {None}
    BY AuthNone, AuthBounds DEF TypeOK, Times
  <1> SUFFICES ASSUME promised'[s] # None
               PROVE  /\ promised'[s].ends <= promised'[s].retry + Second - 1
                      /\ IF attempts'[s] = None THEN promised'[s].ends <= now'
                         ELSE \/ attempts'[s].started + Window = promised'[s].ends
                              \/ attempts'[s].started >= promised'[s].ends
    BY DEF PromiseKept
  <1>2. promised'[s] = promised[s] /\ promised[s] # None
    OBVIOUS
  <1>3. /\ promised[s].ends \in Nat /\ promised[s].retry \in Nat
        /\ promised[s].ends <= promised[s].retry + Second - 1
        /\ IF attempts[s] = None THEN promised[s].ends <= now
           ELSE \/ attempts[s].started + Window = promised[s].ends
                \/ attempts[s].started >= promised[s].ends
    BY <1>1, <1>2 DEF PromiseKept, Promise
  <1>4. CASE attempts'[s] = attempts[s]
    BY <1>1, <1>2, <1>3, <1>4
  <1>5. CASE attempts'[s] = None /\ CurrentAttempts(attempts)[s] = None /\ attempts[s] # None
    <2>1. ~(now - attempts[s].started < Window)
      BY <1>5 DEF CurrentAttempts
    <2>2. QED
      BY <1>1, <1>2, <1>3, <1>5, <2>1 DEF Attempt, Times
  <1>6. CASE attempts'[s] = WithFailure(attempts[s])
    <2>1. CASE attempts[s] = None \/ now - attempts[s].started >= Window
      <3>1. attempts'[s].started = now /\ attempts'[s] # None
        BY <1>1, <1>6, <2>1, WithFailureType DEF WithFailure, TypeOK
      <3>2. QED
        BY <1>1, <1>2, <1>3, <2>1, <3>1 DEF Attempt, Times
    <2>2. CASE ~(attempts[s] = None \/ now - attempts[s].started >= Window)
      <3>1. attempts'[s].started = attempts[s].started /\ attempts'[s] # None
        BY <1>1, <1>6, <2>2, WithFailureType DEF WithFailure, TypeOK, Attempt
      <3>2. QED
        BY <1>1, <1>2, <1>3, <2>2, <3>1
    <2>3. QED
      BY <2>1, <2>2
  <1>7. CurrentAttempts(attempts)[s] \in {attempts[s], None}
    BY DEF CurrentAttempts
  <1>8. QED
    BY <1>2, <1>4, <1>5, <1>6, <1>7

\* Failures are not counted before they happen.
StartedBefore == \A s \in Sources : attempts[s] # None => attempts[s].started <= now

LEMMA NextStartedBefore ==
    ASSUME TypeOK, TypeOK', StartedBefore, [Next]_vars
    PROVE  StartedBefore'
  <1>1. now \in Int /\ now' \in Int /\ attempts \in [Sources -> Attempt \cup {None}]
        /\ None \notin Attempt
    BY AuthNone DEF TypeOK, Times
  <1>2. now' >= now
    <2>1. now' = now \/ now' = now + 1
      BY DEF Next, vars, server, Tick, DropCookies, Start, Stop, OpenLogin, OpenPage,
             LoginOutdated, LoginUnconfigured, LoginLimited, LoginAdmitted, LoginFails,
             LoginSucceeds, CreateSession, Logout, Change, Deliver, Disconnect
    <2>2. QED
      BY <1>1, <2>1
  <1>3. ASSUME NEW s \in Sources,
               \/ attempts'[s] \in {attempts[s], CurrentAttempts(attempts)[s], None}
               \/ attempts'[s] = WithFailure(attempts[s])
        PROVE  attempts'[s] # None => attempts'[s].started <= now'
    <2>1. CurrentAttempts(attempts)[s] \in {attempts[s], None}
      BY DEF CurrentAttempts
    <2>2. CASE attempts'[s] \in {attempts[s], None}
      BY <1>1, <1>2, <2>2 DEF StartedBefore, Attempt, Times
    <2>3. CASE attempts'[s] = WithFailure(attempts[s])
      BY <1>1, <1>2, <2>3 DEF StartedBefore, WithFailure, Attempt, Times
    <2>4. QED
      BY <1>3, <2>1, <2>2, <2>3
  <1>4. ASSUME NEW s \in Sources
        PROVE  \/ attempts'[s] \in {attempts[s], CurrentAttempts(attempts)[s], None}
               \/ attempts'[s] = WithFailure(attempts[s])
    BY <1>1 DEF Next, vars, server, Tick, DropCookies, Start, Stop, OpenLogin, OpenPage,
        LoginOutdated, LoginUnconfigured, LoginLimited, LoginAdmitted, LoginFails,
        LoginSucceeds, CreateSession, Logout, Change, Deliver, Disconnect
  <1>5. QED
    BY <1>3, <1>4 DEF StartedBefore

LEMMA NextPromise ==
    ASSUME TypeOK, TypeOK', StartedBefore, PromiseInv, [Next]_vars
    PROVE  PromiseInv'
  <1> USE DEF server
  <1>1. /\ now \in Int /\ now' \in Int /\ attempts \in [Sources -> Attempt \cup {None}]
        /\ promised \in [Sources -> Promise \cup {None}] /\ \A s \in Sources : PromiseKept(s)
    BY DEF TypeOK, Times, PromiseInv
  <1>2. CASE \E t \in Tabs : LoginLimited(t)
    <2> PICK t \in Tabs : LoginLimited(t)
      BY <1>2
    <2> DEFINE s == SourceOf[BrowserOf[t]]
               a == attempts[s]
    <2>1. s \in Sources
      BY AuthTabs
    <2>2. /\ Refuses(attempts, s) /\ attempts' = CurrentAttempts(attempts) /\ now' = now
          /\ promised' = [promised EXCEPT ![s] = [retry |-> now + RetryAfter(a),
                                                  ends |-> a.started + Window]]
      BY DEF LoginLimited
    <2>3. a \in Attempt /\ a # None /\ now - a.started < Window /\ attempts'[s] = a
      BY <1>1, <2>1, <2>2 DEF Refuses, CurrentAttempts
    <2>4. a.started <= now
      BY <2>1, <2>3 DEF StartedBefore
    <2>5. now + RetryAfter(a) \in Nat /\ a.started + Window \in Nat
      BY <1>1, <2>3, <2>4, RoundedDown, AuthBounds DEF Attempt, Times, TypeOK
    <2>6. promised' \in [Sources -> Promise \cup {None}]
      BY <1>1, <2>1, <2>2, <2>5 DEF Promise
    <2>7. a.started + Window <= now + RetryAfter(a) + Second - 1
      <3>1. /\ RetryAfter(a) \in Nat /\ Window \in Nat /\ Second \in Nat /\ a.started \in Nat
            /\ Window - (now - a.started) <= RetryAfter(a) + Second - 1
        BY <2>3, <2>4, RoundedDown, AuthBounds DEF Attempt, Times
      <3>2. QED
        BY <1>1, <3>1
    <2>8. PromiseKept(s)'
      <3>1. /\ promised'[s].retry = now + RetryAfter(a)
            /\ promised'[s].ends = a.started + Window
        BY <1>1, <2>1, <2>2
      <3>2. QED
        BY <2>3, <2>7, <3>1 DEF PromiseKept
    <2>9. ASSUME NEW x \in Sources \ {s} PROVE PromiseKept(x)'
      BY <1>1, <2>2, <2>9, PromiseStays
    <2>10. QED
      BY <2>6, <2>8, <2>9 DEF PromiseInv
  <1>3. CASE Stop \/ \E t \in Tabs : LoginSucceeds(t)
    <2>1. promised' \in [Sources -> Promise \cup {None}] /\ now' = now
      BY <1>1, <1>3 DEF Stop, LoginSucceeds
    <2>2. ASSUME NEW s \in Sources PROVE PromiseKept(s)'
      <3>1. \/ attempts'[s] = None /\ promised'[s] = None
            \/ attempts'[s] = attempts[s] /\ promised'[s] = promised[s]
        BY <1>1, <1>3 DEF Stop, LoginSucceeds
      <3>2. QED
        BY <1>1, <2>1, <3>1, PromiseStays
    <2>3. QED
      BY <2>1, <2>2 DEF PromiseInv
  <1>4. CASE /\ UNCHANGED promised /\ now' >= now
             /\ \A s \in Sources :
                    \/ attempts'[s] \in {attempts[s], CurrentAttempts(attempts)[s]}
                    \/ attempts'[s] = WithFailure(attempts[s])
    BY <1>1, <1>4, PromiseStays DEF PromiseInv
  <1>5. CASE UNCHANGED <<now, promised>> /\ \E t \in Tabs : LoginFails(t)
    BY <1>1, <1>4, <1>5 DEF LoginFails
  <1>6. CASE Tick
    BY <1>1, <1>4, <1>6 DEF Tick
  <1>7. CASE UNCHANGED <<now, promised>> /\ attempts' \in {attempts, CurrentAttempts(attempts)}
    BY <1>1, <1>4, <1>7
  <1>8. QED
    BY <1>2, <1>3, <1>5, <1>6, <1>7
       DEF Next, vars, Tick, DropCookies, Start, OpenLogin, OpenPage, LoginOutdated,
           LoginUnconfigured, LoginAdmitted, LoginFails, CreateSession, Logout, Change, Deliver,
           Disconnect

\* A refused source that waits as long as it was told, which is rounded down and
\* so less than a second short, is not refused for the same failures again.
THEOREM RetryHonoured == Spec => []RetryIsHonoured
  <1>1. ASSUME Init PROVE StartedBefore /\ PromiseInv
    BY <1>1 DEF Init, StartedBefore, PromiseInv, PromiseKept
  <1>2. TypeOK /\ TypeOK' /\ (StartedBefore /\ PromiseInv) /\ [Next]_vars
            => (StartedBefore /\ PromiseInv)'
    BY NextStartedBefore, NextPromise
  <1>3. ASSUME TypeOK, PromiseInv PROVE RetryIsHonoured
    <2> SUFFICES ASSUME NEW s \in Sources, promised[s] # None,
                        now >= promised[s].retry + Second - 1, Refuses(attempts, s)
                 PROVE  attempts[s].started >= promised[s].ends
      BY DEF RetryIsHonoured
    <2>1. attempts[s] # None /\ attempts[s] \in Attempt /\ now - attempts[s].started < Window
      BY <1>3 DEF Refuses, CurrentAttempts, TypeOK
    <2>2. /\ promised[s] \in Promise
          /\ promised[s].ends <= promised[s].retry + Second - 1
          /\ \/ attempts[s].started + Window = promised[s].ends
             \/ attempts[s].started >= promised[s].ends
      BY <1>3, <2>1 DEF PromiseInv, PromiseKept
    <2>3. QED
      BY <1>3, <2>1, <2>2, AuthBounds DEF TypeOK, Attempt, Promise, Times
  <1>4. QED
    BY <1>1, <1>2, <1>3, TypeCorrect, PTL DEF Spec

-----------------------------------------------------------------------------
(* The forms of a session.                                                  *)

\* A token is the session's, if the browser has the session's cookie and its
\* CSRF cookie was not replaced.
Bound(id, b, token) ==
    id # None /\ jar[b].session = id /\ ~muddled[b] /\ sessions[id] # None =>
        token = sessions[id].csrf

\* The session a tab's page was rendered in, or its answer was sent in, and the
\* one its answer grants.
Under(t) ==
    IF tab[t].stage = "shows" THEN IF tab[t].page = None THEN None ELSE tab[t].page.under
    ELSE IF tab[t].stage = "answered" THEN tab[t].answer.sent ELSE None
Granting(t) == IF tab[t].stage = "answered" THEN tab[t].answer.session ELSE None

\* Nothing but the answer that grants it knows of a session.
Unheld(t, id) ==
    /\ \A b \in Browsers : jar[b].session # id
    /\ \A u \in Tabs : Under(u) # id
    /\ \A u \in Tabs \ {t} : Granting(u) # id

AnswerInv(t, a) ==
    /\ a.page # None /\ a.page.under # None =>
           /\ a.session = Keep /\ a.csrf # Keep /\ ~a.refusal
           /\ a.csrf = a.page.form /\ a.sent = a.page.under
    /\ a.session = Keep /\ a.csrf # Keep /\ ~a.refusal => Bound(a.sent, BrowserOf[t], a.csrf)
    /\ a.session \in SessionIds =>
           /\ a.csrf # Keep /\ Unheld(t, a.session)
           /\ sessions[a.session] # None => a.csrf = sessions[a.session].csrf

JarInv == \A b \in Browsers : Bound(jar[b].session, b, jar[b].csrf)
TabInv(t) ==
    /\ tab[t].stage = "shows" /\ tab[t].page # None =>
           Bound(tab[t].page.under, BrowserOf[t], tab[t].page.form)
    /\ tab[t].stage = "answered" => AnswerInv(t, tab[t].answer)
FormsInv == JarInv /\ \A t \in Tabs : TabInv(t)

\* Sessions end, and nothing the browsers hold changes.
LEMMA FormsStay ==
    ASSUME TypeOK, FormsInv, UNCHANGED <<jar, muddled, tab>>,
           \A id \in SessionIds : sessions'[id] \in {sessions[id], None}
    PROVE  FormsInv'
  <1>1. /\ tab \in [Tabs -> TabStates] /\ jar \in [Browsers -> Jar] /\ BrowserOf \in [Tabs -> Browsers]
    BY AuthTabs DEF TypeOK
  <1>2. ASSUME NEW id \in SessionIds \cup {None}, NEW b \in Browsers, NEW token,
               Bound(id, b, token)
        PROVE  id # None /\ jar'[b].session = id /\ ~muddled'[b] /\ sessions'[id] # None =>
                   token = sessions'[id].csrf
    BY <1>2 DEF Bound
  <1>3. JarInv'
    BY <1>1, <1>2 DEF FormsInv, JarInv, Jar, Bound
  <1>4. ASSUME NEW t \in Tabs PROVE TabInv(t)'
    <2>1. CASE tab[t].stage = "shows"
      <3>1. tab[t].page \in Page \cup {None}
        BY <1>1, <2>1, TabShape
      <3>2. QED
        BY <1>1, <1>2, <2>1, <3>1 DEF FormsInv, TabInv, Page, Bound
    <2>2. CASE tab[t].stage = "answered"
      <3>1. tab[t].answer \in Answer /\ AnswerInv(t, tab[t].answer)
        BY <1>1, <2>2, TabShape DEF FormsInv, TabInv
      <3>2. AnswerInv(t, tab[t].answer)'
        BY <1>1, <3>1 DEF AnswerInv, Answer, Bound, Unheld, Under, Granting
      <3>3. QED
        BY <2>2, <3>2 DEF TabInv
    <2>3. QED
      BY <2>1, <2>2 DEF TabInv
  <1>5. QED
    BY <1>3, <1>4 DEF FormsInv

\* A tab goes on to a stage in which it shows no page, or to an answer that fits,
\* while sessions end and one may begin that nobody knows of.
LEMMA FormsMove ==
    ASSUME TypeOK, FormsInv, UNCHANGED <<jar, muddled>>, NEW t \in Tabs, NEW x \in TabStates,
           tab' = [tab EXCEPT ![t] = x],
           x.stage = "shows" => x.page = None,
           x.stage = "answered" => AnswerInv(t, x.answer)',
           x.stage = "answered" => x.answer.sent \in {None, SessionCookie(t)},
           \A id \in SessionIds : sessions'[id] \in {sessions[id], None} \/ Unheld(t, id),
           x.stage = "answered" /\ x.answer.session \in SessionIds =>
               Unheld(t, x.answer.session)
    PROVE  FormsInv'
  <1>1. /\ tab \in [Tabs -> TabStates] /\ jar \in [Browsers -> Jar] /\ BrowserOf \in [Tabs -> Browsers]
        /\ tab'[t] = x /\ \A u \in Tabs \ {t} : tab'[u] = tab[u]
    BY AuthTabs DEF TypeOK
  <1>2. ASSUME NEW id \in SessionIds \cup {None}, NEW b \in Browsers, NEW token,
               Bound(id, b, token)
        PROVE  id # None /\ jar'[b].session = id /\ ~muddled'[b] /\ sessions'[id] # None =>
                   token = sessions'[id].csrf
    BY <1>2 DEF Bound, Unheld
  <1>3. JarInv'
    BY ZenonT(60), <1>1, <1>2 DEF FormsInv, JarInv, Jar, Bound
  <1>4. ASSUME NEW u \in Tabs \ {t} PROVE TabInv(u)'
    <2>1. CASE tab[u].stage = "shows"
      <3>1. tab[u].page \in Page \cup {None}
        BY <1>1, <2>1, TabShape
      <3>2. CASE tab[u].page # None
        <4> DEFINE p == tab[u].page
        <4>1. p.under \in SessionIds \cup {None} /\ Bound(p.under, BrowserOf[u], p.form)
          BY <2>1, <3>1, <3>2 DEF FormsInv, TabInv, Page
        <4>2. p.under # None /\ jar'[BrowserOf[u]].session = p.under /\ ~muddled'[BrowserOf[u]]
                  /\ sessions'[p.under] # None => p.form = sessions'[p.under].csrf
          BY <1>1, <1>2, <4>1
        <4>3. QED
          BY <1>1, <2>1, <4>2 DEF TabInv, Bound
      <3>3. QED
        BY <1>1, <2>1, <3>2 DEF TabInv
    <2>2. CASE tab[u].stage = "answered"
      <3> DEFINE a == tab[u].answer
      <3>1. a \in Answer /\ AnswerInv(u, a) /\ tab'[u].answer = a
        BY <1>1, <2>2, TabShape DEF FormsInv, TabInv
      <3>2. a.session = Keep /\ a.csrf # Keep /\ ~a.refusal =>
                Bound(a.sent, BrowserOf[u], a.csrf)'
        <4>1. SUFFICES ASSUME a.session = Keep, a.csrf # Keep, ~a.refusal
                       PROVE  a.sent # None /\ jar'[BrowserOf[u]].session = a.sent
                                  /\ ~muddled'[BrowserOf[u]] /\ sessions'[a.sent] # None =>
                                  a.csrf = sessions'[a.sent].csrf
          BY <1>1, <3>1 DEF Bound
        <4>2. a.sent \in SessionIds \cup {None} /\ Bound(a.sent, BrowserOf[u], a.csrf)
          BY <3>1, <4>1 DEF AnswerInv, Answer
        <4>3. QED
          BY <1>1, <1>2, <4>2
      <3>3. ASSUME a.session \in SessionIds
            PROVE  /\ a.csrf # Keep /\ Unheld(u, a.session)'
                   /\ sessions'[a.session] # None => a.csrf = sessions'[a.session].csrf
        <4>1. /\ a.csrf # Keep /\ Unheld(u, a.session)
              /\ sessions[a.session] # None => a.csrf = sessions[a.session].csrf
          BY <3>1, <3>3 DEF AnswerInv
        <4>2. Granting(u) = a.session /\ a.session # None
          BY <2>2, <3>3, AuthNone DEF Granting
        <4>3. ~Unheld(t, a.session)
          BY <4>2 DEF Unheld
        <4>4. sessions'[a.session] \in {sessions[a.session], None}
          BY <3>3, <4>3
        <4>5. \A b \in Browsers : jar'[b].session # a.session
          BY <4>1 DEF Unheld
        <4>6. ASSUME NEW v \in Tabs PROVE Under(v)' # a.session
          <5>1. CASE v # t
            BY <1>1, <4>1, <5>1 DEF Unheld, Under
          <5>2. CASE v = t
            <6>1. Under(t)' \in {None, SessionCookie(t)}
              BY <1>1 DEF Under
            <6>2. SessionCookie(t) # a.session
              BY <1>1, <4>1 DEF Unheld, SessionCookie
            <6>3. QED
              BY <4>2, <5>2, <6>1, <6>2
          <5>3. QED
            BY <5>1, <5>2
        <4>7. ASSUME NEW v \in Tabs \ {u} PROVE Granting(v)' # a.session
          <5>1. CASE v # t
            BY <1>1, <4>1, <5>1 DEF Unheld, Granting
          <5>2. CASE v = t
            BY <1>1, <3>3, <4>2, <4>3, <5>2 DEF Granting
          <5>3. QED
            BY <5>1, <5>2
        <4>8. Unheld(u, a.session)'
          BY <1>1, <3>1, <4>5, <4>6, <4>7 DEF Unheld
        <4>9. QED
          BY <4>1, <4>4, <4>8
      <3>4. AnswerInv(u, a)'
        BY <1>1, <3>1, <3>2, <3>3 DEF AnswerInv
      <3>5. QED
        BY <1>1, <2>2, <3>1, <3>4 DEF TabInv
    <2>3. QED
      BY <1>1, <2>1, <2>2 DEF TabInv
  <1>5. TabInv(t)'
    BY <1>1 DEF TabInv
  <1>6. QED
    BY <1>3, <1>4, <1>5 DEF FormsInv

\* A handler's answer that grants no session.
LEMMA ReplyForms ==
    ASSUME TypeOK, FormsInv, UNCHANGED <<jar, muddled>>, NEW t \in Tabs,
           NEW session \in {Keep, None}, NEW csrf \in Tokens \cup {None, Keep},
           NEW shown \in Page \cup {None}, NEW refusal \in BOOLEAN,
           tab' = [tab EXCEPT ![t] = Reply(t, session, csrf, shown, refusal)],
           \A id \in SessionIds : sessions'[id] \in {sessions[id], None},
           shown # None /\ shown.under # None =>
               /\ session = Keep /\ ~refusal
               /\ csrf = shown.form /\ shown.under = SessionCookie(t),
           session = Keep /\ csrf # Keep /\ ~refusal =>
               Bound(SessionCookie(t), BrowserOf[t], csrf)
    PROVE  FormsInv'
  <1> PICK a : a = [session |-> session, csrf |-> csrf, page |-> shown, refusal |-> refusal,
                    sent |-> IF csrf = Keep \/ refusal THEN None ELSE SessionCookie(t)]
    OBVIOUS
  <1> PICK x : x = Reply(t, session, csrf, shown, refusal)
    OBVIOUS
  <1>1. x \in TabStates
    BY ReplyType
  <1>2. x.stage = "answered" /\ x.answer = a
    BY Stages DEF Reply
  <1>3. SessionCookie(t) \in SessionIds \cup {None} /\ BrowserOf[t] \in Browsers
    BY AuthTabs DEF TypeOK, SessionCookie, Jar
  <1>4. a.session = Keep /\ a.csrf # Keep /\ ~a.refusal => Bound(a.sent, BrowserOf[t], a.csrf)'
    BY <1>3 DEF Bound
  <1>5. a.page # None /\ a.page.under # None =>
            /\ a.session = Keep /\ a.csrf # Keep /\ ~a.refusal
            /\ a.csrf = a.page.form /\ a.sent = a.page.under
    BY AuthNone DEF Page
  <1>6. a.session \notin SessionIds
    BY AuthNone
  <1>7. AnswerInv(t, x.answer)'
    BY <1>2, <1>4, <1>5, <1>6 DEF AnswerInv
  <1>8. x.answer.sent \in {None, SessionCookie(t)} /\ x.answer.session \notin SessionIds
    BY <1>2, <1>6
  <1>9. tab' = [tab EXCEPT ![t] = x]
    OBVIOUS
  <1>10. QED
    BY <1>1, <1>2, <1>7, <1>8, <1>9, FormsMove

\* The token of a page is the session's, or the browser is muddled.
LEMMA PageTokenBound ==
    ASSUME TypeOK, FormsInv, NEW t \in Tabs, NEW token \in PageToken(t)
    PROVE  Bound(SessionCookie(t), BrowserOf[t], token)
  <1> DEFINE b == BrowserOf[t]
  <1>1. b \in Browsers /\ SessionCookie(t) = jar[b].session /\ CsrfCookie(t) = jar[b].csrf
    BY AuthTabs DEF SessionCookie, CsrfCookie
  <1>2. Bound(jar[b].session, b, jar[b].csrf)
    BY <1>1 DEF FormsInv, JarInv
  <1>3. CASE CsrfCookie(t) # None
    BY <1>1, <1>2, <1>3 DEF PageToken
  <1>4. CASE CsrfCookie(t) = None
    <2>1. jar[b].session # None /\ sessions[jar[b].session] # None =>
              sessions[jar[b].session].csrf # None
      BY <1>1, AuthNone DEF TypeOK, Jar, Session
    <2>2. QED
      BY <1>1, <1>2, <1>4, <2>1 DEF Bound
  <1>5. QED
    BY <1>3, <1>4

LEMMA CreateForms ==
    ASSUME TypeOK, FormsInv, NEW t \in Tabs, CreateSession(t)
    PROVE  FormsInv'
  <1>1. PICK id \in Fresh(SessionIds, UsedSessions), token \in Fresh(Tokens, UsedTokens) :
            /\ sessions' = [LiveSessions(sessions) EXCEPT
                   ![id] = [csrf |-> token, exp |-> now + SessionTtl]]
            /\ Respond(t, id, token, None)
    BY DEF CreateSession
  <1> PICK x : x = Reply(t, id, token, None, FALSE)
    OBVIOUS
  <1>2. id \in SessionIds /\ id \notin UsedSessions /\ token \in Tokens
    BY FreshIsUnused
  <1>3. tab' = [tab EXCEPT ![t] = x] /\ x \in TabStates
    BY <1>1, <1>2, ReplyType DEF Respond
  <1>4. /\ x.stage = "answered" /\ x.answer.session = id /\ x.answer.csrf = token
        /\ x.answer.page = None /\ x.answer.sent \in {None, SessionCookie(t)}
    BY Stages DEF Reply
  <1>5. id # None /\ id # Keep /\ token # Keep
    BY <1>2, AuthNone
  <1>6. /\ tab \in [Tabs -> TabStates] /\ tab[t].stage = "granted"
        /\ tab'[t] = x /\ \A u \in Tabs \ {t} : tab'[u] = tab[u]
        /\ UNCHANGED <<jar, muddled>>
    BY <1>3 DEF CreateSession, TypeOK
  <1>7. \A b \in Browsers : jar[b].session # id
    BY <1>2 DEF UsedSessions
  <1>8. ASSUME NEW u \in Tabs PROVE Under(u) # id /\ Granting(u) # id
    <2>1. CASE tab[u].stage = "shows" /\ tab[u].page # None
      <3>1. tab[u].page \in Pages \ {None}
        BY <2>1 DEF Pages
      <3>2. QED
        BY <1>2, <1>5, <2>1, <3>1 DEF UsedSessions, Under, Granting
    <2>2. CASE tab[u].stage = "answered"
      <3>1. tab[u].answer \in Answers
        BY <2>2 DEF Answers
      <3>2. tab[u].answer.session # id /\ tab[u].answer.sent # id
        BY <1>2, <3>1 DEF UsedSessions
      <3>3. QED
        BY <2>2, <3>2 DEF Under, Granting
    <2>3. QED
      BY <1>5, <2>1, <2>2 DEF Under, Granting
  <1>9. Unheld(t, id)
    BY <1>7, <1>8 DEF Unheld
  <1>10. Unheld(t, id)'
    <2>1. Under(t)' \in {None, SessionCookie(t)} /\ SessionCookie(t) # id
      BY <1>4, <1>6, <1>7, AuthTabs DEF Under, SessionCookie
    <2>2. \A u \in Tabs \ {t} : Under(u)' = Under(u) /\ Granting(u)' = Granting(u)
      BY <1>6 DEF Under, Granting
    <2>3. QED
      BY <1>5, <1>6, <1>7, <1>8, <2>1, <2>2 DEF Unheld
  <1>11. sessions'[id].csrf = token
    BY <1>1, <1>2, LiveSessionsType DEF TypeOK
  <1>12. AnswerInv(t, x.answer)'
    BY <1>4, <1>5, <1>10, <1>11 DEF AnswerInv
  <1>13. \A other \in SessionIds :
             sessions'[other] \in {sessions[other], None} \/ Unheld(t, other)
    BY <1>1, <1>2, <1>9, LiveSessionsType DEF TypeOK
  <1>14. QED
    BY <1>3, <1>4, <1>6, <1>9, <1>12, <1>13, FormsMove

LEMMA DeliverForms ==
    ASSUME TypeOK, FormsInv, NEW t \in Tabs, Deliver(t)
    PROVE  FormsInv'
  <1> DEFINE b == BrowserOf[t]
  <1> PICK a : a = tab[t].answer
    OBVIOUS
  <1> PICK session : session = IF a.session = Keep THEN jar[b].session ELSE a.session
    OBVIOUS
  <1> PICK csrf : csrf = IF a.csrf = Keep THEN jar[b].csrf ELSE a.csrf
    OBVIOUS
  <1>1. /\ tab[t].stage = "answered" /\ UNCHANGED sessions
        /\ jar' = [jar EXCEPT ![b] = [session |-> session, csrf |-> csrf]]
        /\ tab' = [tab EXCEPT ![t] = Shows(a.page)]
        /\ muddled' = [muddled EXCEPT ![b] =
               /\ session # None /\ a.session = Keep
               /\ @ \/ (a.csrf # Keep /\ (a.refusal \/ a.sent # session))]
    BY DEF Deliver
  <1>2. /\ tab \in [Tabs -> TabStates] /\ jar \in [Browsers -> Jar]
        /\ muddled \in [Browsers -> BOOLEAN] /\ b \in Browsers
        /\ BrowserOf \in [Tabs -> Browsers]
    BY AuthTabs DEF TypeOK
  <1>3. a \in Answer /\ AnswerInv(t, a)
    BY <1>1, <1>2, TabShape DEF FormsInv, TabInv
  <1>4. /\ jar'[b].session = session /\ jar'[b].csrf = csrf
        /\ \A c \in Browsers \ {b} : jar'[c] = jar[c] /\ muddled'[c] = muddled[c]
        /\ muddled'[b] = (/\ session # None /\ a.session = Keep
                          /\ muddled[b] \/ (a.csrf # Keep /\ (a.refusal \/ a.sent # session)))
    BY <1>1, <1>2
  <1>5. /\ tab'[t].stage = "shows" /\ tab'[t].page = a.page
        /\ \A u \in Tabs \ {t} : tab'[u] = tab[u]
    BY <1>1, <1>2, Stages
  <1>6. Under(t) = a.sent /\ Granting(t) = a.session
    BY <1>1, AuthNone DEF Under, Granting
  <1>7. session \in {jar[b].session, None} \/ (a.session \in SessionIds /\ session = a.session)
    BY <1>3 DEF Answer
  \* A token some other tab holds for a session that is not granted right now.
  <1>8. ASSUME NEW id, NEW c \in Browsers, NEW token, Bound(id, c, token),
               a.session \in SessionIds => id # a.session
        PROVE  Bound(id, c, token)'
    <2>1. CASE c # b
      BY <1>1, <1>4, <1>8, <2>1 DEF Bound
    <2>2. CASE c = b /\ a.session = Keep
      BY <1>1, <1>4, <1>8, <2>2 DEF Bound
    <2>3. CASE c = b /\ a.session # Keep
      BY <1>3, <1>4, <1>8, <2>3 DEF Bound, Answer
    <2>4. QED
      BY <2>1, <2>2, <2>3
  <1>9. JarInv'
    <2>1. ASSUME NEW c \in Browsers \ {b} PROVE Bound(jar[c].session, c, jar[c].csrf)'
      BY <1>1, <1>4 DEF FormsInv, JarInv, Bound
    <2>2. ASSUME a.session = Keep PROVE Bound(jar[b].session, b, jar[b].csrf)'
      <3>1. CASE a.csrf = Keep
        BY <1>1, <1>2, <1>4, <2>2, <3>1 DEF FormsInv, JarInv, Bound
      <3>2. CASE a.csrf # Keep
        BY <1>1, <1>2, <1>3, <1>4, <2>2, <3>2 DEF AnswerInv, Bound
      <3>3. QED
        BY <3>1, <3>2
    <2>3. ASSUME a.session \in SessionIds PROVE Bound(jar[b].session, b, jar[b].csrf)'
      BY <1>1, <1>3, <1>4, <2>3, AuthNone DEF AnswerInv, Bound
    <2>4. ASSUME a.session = None PROVE Bound(jar[b].session, b, jar[b].csrf)'
      BY <1>4, <2>4, AuthNone DEF Bound
    <2>5. Bound(jar[b].session, b, jar[b].csrf)'
      BY <1>3, <2>2, <2>3, <2>4 DEF Answer, FormsInv, JarInv, Bound
    <2>6. QED
      BY <2>1, <2>5 DEF JarInv
  <1>10. TabInv(t)'
    <2> SUFFICES ASSUME a.page # None, a.page.under # None
                 PROVE  Bound(a.page.under, b, a.page.form)'
      BY <1>5 DEF TabInv, Bound
    <2>1. /\ a.session = Keep /\ a.csrf # Keep /\ ~a.refusal
          /\ a.csrf = a.page.form /\ a.sent = a.page.under /\ Bound(a.sent, b, a.csrf)
      BY <1>3 DEF AnswerInv
    <2>2. a.session \notin SessionIds
      BY <2>1, AuthNone
    <2>3. Bound(a.page.under, b, a.page.form)
      BY <2>1
    <2>4. QED
      BY <1>1, <1>4, <2>1, <2>3 DEF Bound
  <1>11. ASSUME NEW u \in Tabs \ {t} PROVE TabInv(u)'
    <2>1. BrowserOf[u] \in Browsers
      BY <1>2
    <2>2. a.session \in SessionIds => Under(u) # a.session /\ Granting(u) # a.session
      BY <1>3 DEF AnswerInv, Unheld
    <2>3. CASE tab[u].stage = "shows" /\ tab[u].page # None
      <3> PICK p : p = tab[u].page
        OBVIOUS
      <3>1. Bound(p.under, BrowserOf[u], p.form) /\ Under(u) = p.under
        BY <2>3 DEF FormsInv, TabInv, Under
      <3>2. Bound(p.under, BrowserOf[u], p.form)'
        BY SMTT(60), <1>1, <1>4, <1>8, <2>1, <2>2, <3>1 DEF Bound
      <3>3. QED
        BY <1>5, <2>3, <3>2 DEF TabInv, Bound
    <2>4. CASE tab[u].stage = "answered"
      <3> PICK r : r = tab[u].answer
        OBVIOUS
      <3>1. AnswerInv(u, r) /\ Under(u) = r.sent /\ Granting(u) = r.session
        BY <2>4 DEF FormsInv, TabInv, Under, Granting
      <3>2. r.session = Keep /\ r.csrf # Keep /\ ~r.refusal => Bound(r.sent, BrowserOf[u], r.csrf)'
        BY SMTT(60), <1>1, <1>4, <1>8, <2>1, <2>2, <3>1 DEF AnswerInv, Bound
      <3>3. ASSUME r.session \in SessionIds PROVE Unheld(u, r.session)'
        <4>1. Unheld(u, r.session) /\ r.session # None
          BY <3>1, <3>3, AuthNone DEF AnswerInv
        <4>2. \A c \in Browsers : jar'[c].session # r.session
          BY <1>4, <1>7, <2>2, <3>1, <4>1 DEF Unheld
        <4>3. Under(t)' \in {None, a.sent} /\ Granting(t)' = None
          BY <1>3, <1>5 DEF Under, Granting, AnswerInv
        <4>4. \A v \in Tabs \ {t} : Under(v)' = Under(v) /\ Granting(v)' = Granting(v)
          BY <1>5 DEF Under, Granting
        <4>5. a.sent # r.session
          BY <1>6, <4>1 DEF Unheld
        <4>6. QED
          BY <1>5, <4>1, <4>2, <4>3, <4>4, <4>5 DEF Unheld
      <3>4. AnswerInv(u, r)'
        BY <1>1, <1>5, <3>1, <3>2, <3>3 DEF AnswerInv
      <3>5. QED
        BY <1>5, <2>4, <3>4 DEF TabInv
    <2>5. QED
      BY <1>5, <2>3, <2>4 DEF TabInv
  <1>12. QED
    BY <1>9, <1>10, <1>11 DEF FormsInv

LEMMA StopForms ==
    ASSUME TypeOK, FormsInv, Stop
    PROVE  FormsInv'
  <1>1. /\ tab \in [Tabs -> TabStates] /\ jar \in [Browsers -> Jar]
        /\ BrowserOf \in [Tabs -> Browsers] /\ UNCHANGED jar
    BY AuthTabs DEF Stop, TypeOK
  <1>2. \A id \in SessionIds : sessions'[id] = None
    BY DEF Stop
  <1>3. JarInv'
    BY <1>1, <1>2 DEF JarInv, Bound, Jar
  <1>4. ASSUME NEW t \in Tabs PROVE TabInv(t)'
    <2>1. /\ tab'[t].stage = "shows" /\ tab'[t].page \in Page \cup {None}
      BY <1>1, TabShape, Stages DEF Stop
    <2>2. QED
      BY <1>2, <2>1 DEF TabInv, Bound, Page
  <1>5. QED
    BY <1>3, <1>4 DEF FormsInv

\* A handler that answers, without the login.
LEMMA HandlerForms ==
    ASSUME TypeOK, FormsInv, NEW t \in Tabs,
           \/ OpenLogin(t) \/ OpenPage(t) \/ LoginOutdated(t) \/ LoginUnconfigured(t)
           \/ LoginLimited(t) \/ LoginFails(t) \/ Logout(t) \/ Change(t)
    PROVE  FormsInv'
  <1> USE DEF server
  <1>1. /\ SessionCookie(t) \in SessionIds \cup {None} /\ sessions \in [SessionIds -> Session \cup {None}]
        /\ None \notin Page /\ Keep # None
    BY AuthTabs, AuthNone DEF TypeOK, SessionCookie, Jar
  <1>2. /\ UNCHANGED <<jar, muddled>>
        /\ \A id \in SessionIds : sessions'[id] \in {sessions[id], None}
    BY <1>1, LiveSessionsType DEF OpenLogin, OpenPage, LoginOutdated, LoginUnconfigured,
       LoginLimited, LoginFails, Logout, Change
  <1>3. ASSUME RespondText(t) PROVE FormsInv'
    BY <1>2, <1>3, ReplyForms DEF RespondText, Respond
  <1>4. ASSUME \E csrf \in {None, Keep} : Respond(t, None, csrf, None) PROVE FormsInv'
    BY <1>1, <1>2, <1>4, ReplyForms DEF Respond
  <1>5. ASSUME RespondRefusal(t) PROVE FormsInv'
    <2>1. PICK token \in Fresh(Tokens, UsedTokens) :
              tab' = [tab EXCEPT ![t] = Reply(t, Keep, token,
                  [kind |-> "login", form |-> token, under |-> None], TRUE)]
      BY <1>5 DEF RespondRefusal
    <2>2. token \in Tokens /\ [kind |-> "login", form |-> token, under |-> None] \in Page
      BY FreshIsUnused DEF Page
    <2>3. QED
      BY <1>2, <2>1, <2>2, ReplyForms
  <1>6. CASE OpenLogin(t)
    <2>1. PICK token \in PageToken(t) :
              Respond(t, Keep, token, [kind |-> "login", form |-> token, under |-> None])
      BY <1>6 DEF OpenLogin
    <2>2. token \in Tokens /\ [kind |-> "login", form |-> token, under |-> None] \in Page
      BY PageTokenType DEF Page
    <2>3. QED
      BY <1>2, <2>1, <2>2, PageTokenBound, ReplyForms DEF Respond
  <1>7. CASE OpenPage(t) /\ Valid(SessionCookie(t))
    <2>1. PICK token \in PageToken(t) :
              Respond(t, Keep, token,
                      [kind |-> "admin", form |-> token, under |-> SessionCookie(t)])
      BY <1>7 DEF OpenPage
    <2>2. /\ token \in Tokens
          /\ [kind |-> "admin", form |-> token, under |-> SessionCookie(t)] \in Page
      BY <1>1, PageTokenType DEF Page
    <2>3. QED
      BY <1>2, <2>1, <2>2, PageTokenBound, ReplyForms DEF Respond
  <1>8. CASE Logout(t)
    BY <1>3, <1>4, <1>8 DEF Logout
  <1>9. CASE Change(t) \/ (OpenPage(t) /\ ~Valid(SessionCookie(t)))
    BY <1>3, <1>4, <1>9 DEF Change, OpenPage
  <1>10. QED
    BY <1>3, <1>5, <1>6, <1>7, <1>8, <1>9
       DEF LoginOutdated, LoginUnconfigured, LoginLimited, LoginFails

\* Within the login, and when its request is given up, the tab holds nothing.
LEMMA LoginForms ==
    ASSUME TypeOK, FormsInv, NEW t \in Tabs,
           \/ LoginSucceeds(t) \/ Disconnect(t)
           \/ \E password \in Accounts : LoginAdmitted(t, password)
    PROVE  FormsInv'
  <1>1. PICK x \in TabStates :
            /\ tab' = [tab EXCEPT ![t] = x] /\ x.stage # "answered"
            /\ x.stage = "shows" => x.page = None
    BY TabConstructed, Stages DEF LoginSucceeds, LoginAdmitted, Disconnect
  <1>2. UNCHANGED <<jar, muddled, sessions>>
    BY DEF LoginSucceeds, LoginAdmitted, Disconnect
  <1>3. QED
    BY <1>1, <1>2, FormsMove

\* The browser drops its cookies, and with them what its pages could be sent for.
LEMMA DropForms ==
    ASSUME TypeOK, FormsInv, NEW b \in Browsers, DropCookies(b)
    PROVE  FormsInv'
  <1>1. /\ UNCHANGED <<sessions, tab, muddled>>
        /\ \A c \in Browsers \ {b} : jar'[c] = jar[c]
        /\ jar'[b].session = None /\ jar'[b].csrf = None
        /\ tab \in [Tabs -> TabStates] /\ BrowserOf \in [Tabs -> Browsers]
    BY AuthTabs DEF DropCookies, TypeOK, EmptyJar
  <1>2. ASSUME NEW id, NEW c \in Browsers, NEW token, Bound(id, c, token)
        PROVE  Bound(id, c, token)'
    BY <1>1, <1>2 DEF Bound
  <1>3. JarInv'
    BY <1>1 DEF FormsInv, JarInv, Bound
  <1>4. ASSUME NEW t \in Tabs PROVE TabInv(t)'
    <2>1. CASE tab[t].stage = "shows" /\ tab[t].page # None
      BY <1>1, <1>2, <2>1 DEF FormsInv, TabInv, Bound
    <2>2. CASE tab[t].stage = "answered"
      <3> PICK a : a = tab[t].answer
        OBVIOUS
      <3>1. AnswerInv(t, a)
        BY <2>2 DEF FormsInv, TabInv
      <3>2. a.session = Keep /\ a.csrf # Keep /\ ~a.refusal => Bound(a.sent, BrowserOf[t], a.csrf)'
        BY <1>1, <1>2, <3>1 DEF AnswerInv
      <3>3. ASSUME a.session \in SessionIds PROVE Unheld(t, a.session)'
        BY <1>1, <3>1, <3>3, AuthNone DEF AnswerInv, Unheld, Under, Granting
      <3>4. AnswerInv(t, a)'
        BY <1>1, <3>1, <3>2, <3>3 DEF AnswerInv
      <3>5. QED
        BY <1>1, <2>2, <3>4 DEF TabInv
    <2>3. QED
      BY <1>1, <2>1, <2>2 DEF TabInv
  <1>5. QED
    BY <1>3, <1>4 DEF FormsInv

\* A form rendered in a session is accepted for as long as the session lives and
\* its browser's CSRF cookie was not replaced behind its back, in whatever order
\* the answers to several tabs arrive (login, render_page and is_csrf_valid).
THEOREM FormsRemainAccepted == Spec => []FormsAccepted
  <1>1. ASSUME Init PROVE FormsInv
    <2>1. \A t \in Tabs : tab[t].stage = "shows" /\ tab[t].page = None
      BY <1>1, Stages DEF Init
    <2>2. QED
      BY <1>1, <2>1 DEF Init, FormsInv, JarInv, TabInv, Bound, EmptyJar
  <1>2. ASSUME TypeOK, FormsInv, [Next]_vars PROVE FormsInv'
    <2>1. CASE Tick \/ (\E configured \in Accounts \cup {None} : Start(configured)) \/ UNCHANGED vars
      BY <1>2, <2>1, FormsStay DEF Tick, Start, vars
    <2>2. QED
      BY <1>2, <2>1, StopForms, DropForms, HandlerForms, LoginForms, CreateForms, DeliverForms
         DEF Next
  <1>3. ASSUME TypeOK, FormsInv PROVE FormsAccepted
    <2> SUFFICES ASSUME NEW t \in Tabs, SendsFrom(t, "admin"),
                        tab[t].page.under = SessionCookie(t), Valid(SessionCookie(t)),
                        ~muddled[BrowserOf[t]]
                 PROVE  Accepts(SessionCookie(t), Form(t))
      BY DEF FormsAccepted
    <2>1. Bound(tab[t].page.under, BrowserOf[t], Form(t))
      BY <1>3 DEF FormsInv, TabInv, SendsFrom, Sends, Form
    <2>2. SessionCookie(t) # None /\ SessionCookie(t) \in SessionIds
      BY <1>3, AuthTabs DEF Valid, SessionCookie, TypeOK, Jar
    <2>3. sessions[SessionCookie(t)] # None
      BY <2>2 DEF Valid, LiveSessions
    <2>4. QED
      BY <2>1, <2>2, <2>3 DEF Accepts, Bound, SessionCookie
  <1>4. QED
    BY <1>1, <1>2, <1>3, TypeCorrect, PTL DEF Spec
=============================================================================
