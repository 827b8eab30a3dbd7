-------------------------- MODULE UserSessionsProofs --------------------------
(***************************************************************************)
(* The invariants of UserSessions for any number of users, browsers, tokens *)
(* and requests served at once.                                             *)
(***************************************************************************)
EXTENDS UserSessions, TLAPS

Issued(t) == owner[t] # None

\* What the steps of a request leave in its record.
RequestShape ==
  \A r \in Request :
    /\ req[r].step = "idle" => req[r] = NoRequest
    /\ req[r].step # "idle" => req[r].by \in Browser
    /\ req[r].step # "answered" => req[r].out = Keep
    /\ req[r].op \in {"none", "login"} => req[r].token = None
    /\ req[r].op \in {"refresh", "logout"} => req[r].token \in Token
    /\ req[r].op = "login" /\ req[r].step = "found" => req[r].user \in User
    /\ req[r].op # "logout" => req[r].out # None
    /\ req[r].op = "logout" => req[r].out \notin Token
    /\ req[r].step = "late" => req[r].token \in expired

\* Only inserted tokens occur, and each belongs to a session and a browser.
KnownTokens ==
  /\ \A t \in rows \cup expired \cup stale : Issued(t)
  /\ \A t \in Token : Issued(t) =>
       session[t] \in Token /\ Issued(session[t]) /\ holder[t] \in Browser
  /\ \A s \in overlapped \cup loggedOut : s \in Token /\ Issued(s)

\* A token is known to the one browser it was sent to, once it arrived.
OneHolder ==
  /\ \A b \in Browser :
       cookie[b] # None => Issued(cookie[b]) /\ holder[cookie[b]] = b
  /\ \A r \in Request :
       req[r].token # None => Issued(req[r].token) /\ holder[req[r].token] = req[r].by
  /\ \A r \in Request :
       req[r].out \in Token =>
         /\ Issued(req[r].out)
         /\ holder[req[r].out] = req[r].by
         /\ req[r].out \in rows \cup expired

\* A token on its way is nobody's cookie, in no request and in one answer.
Undelivered ==
  \A r \in Request : req[r].out \in Token =>
    /\ \A b \in Browser : cookie[b] # req[r].out
    /\ \A q \in Request : req[q].token # req[r].out
    /\ \A q \in Request : req[q].out = req[r].out => q = r

Identity == RequestShape /\ KnownTokens /\ OneHolder /\ Undelivered

\* A row that a request has read stays, unless another request carries the same token.
RowsStay ==
  /\ \A r, q \in Request :
       req[r].token = req[q].token /\ req[r].token # None /\ r # q =>
         session[req[r].token] \in overlapped
  /\ \A r \in Request :
       /\ req[r].token # None
       /\ req[r].step \in {"found", "late"}
       /\ session[req[r].token] \notin overlapped
       => req[r].token \in rows

\* A session whose requests did not overlap and that lost no answer.
Sound(s) == s \notin overlapped /\ \A u \in stale : session[u] # s

\* In a sound session the token that a browser or a request holds is the last
\* one, and there is one request at most.
LastToken ==
  /\ \A b \in Browser, t \in rows :
       cookie[b] # None /\ session[t] = session[cookie[b]] /\ Sound(session[t]) =>
         t = cookie[b] \/ \E r \in Request : req[r].token = cookie[b] /\ req[r].out = t
  /\ \A r \in Request, t \in rows :
       req[r].token # None /\ session[t] = session[req[r].token] /\ Sound(session[t]) =>
         t = req[r].token \/ t = req[r].out
  /\ \A r \in Request, t \in rows :
       req[r].out \in Token /\ session[t] = session[req[r].out] /\ Sound(session[t]) =>
         t = req[r].out

OneRequest ==
  /\ \A r, q \in Request :
       /\ req[r].token # None /\ req[q].token # None
       /\ session[req[r].token] = session[req[q].token]
       /\ Sound(session[req[r].token])
       => r = q
  /\ \A r, q \in Request :
       /\ req[r].token # None /\ req[q].out \in Token
       /\ session[req[r].token] = session[req[q].out]
       /\ Sound(session[req[r].token])
       => r = q
  /\ \A r, q \in Request :
       /\ req[r].out \in Token /\ req[q].out \in Token
       /\ session[req[r].out] = session[req[q].out]
       /\ Sound(session[req[r].out])
       => r = q

OneCookie ==
  /\ \A b, d \in Browser :
       /\ cookie[b] # None /\ cookie[d] # None
       /\ session[cookie[b]] = session[cookie[d]]
       /\ Sound(session[cookie[b]])
       => b = d
  /\ \A b \in Browser, r \in Request :
       /\ cookie[b] # None /\ req[r].token # None
       /\ session[cookie[b]] = session[req[r].token]
       /\ Sound(session[cookie[b]])
       => req[r].token = cookie[b]
  /\ \A b \in Browser, r \in Request :
       /\ cookie[b] # None /\ req[r].out \in Token
       /\ session[cookie[b]] = session[req[r].out]
       /\ Sound(session[cookie[b]])
       => req[r].token = cookie[b]

\* Nobody can carry on a sound session that was logged out.
Ended ==
  /\ \A r \in Request :
       /\ req[r].token # None /\ req[r].step # "answered"
       /\ session[req[r].token] \in loggedOut
       => ~Sound(session[req[r].token])
  /\ \A r \in Request :
       req[r].out \in Token /\ session[req[r].out] \in loggedOut =>
         ~Sound(session[req[r].out])
  /\ \A b \in Browser :
       /\ cookie[b] # None /\ session[cookie[b]] \in loggedOut
       /\ Sound(session[cookie[b]])
       => \E r \in Request : req[r].token = cookie[b] /\ req[r].out = None

SoundSessions == LastToken /\ OneRequest /\ OneCookie /\ Ended

IInv ==
  /\ TypeOK /\ Identity
  /\ CookieWorks
  /\ RowsStay /\ OneLiveToken
  /\ SoundSessions /\ LogoutEnds
-----------------------------------------------------------------------------
USE NoneAssumption, KeepAssumption, EmailAssumption

\* The initial state: no row, no cookie, no request.
LEMMA InitIInv == Init => IInv
BY DEF Init, IInv, TypeOK, Identity, RequestShape, KnownTokens, OneHolder,
       Undelivered, CookieWorks, RowsStay, OneLiveToken, SoundSessions, LastToken,
       OneRequest, OneCookie, Ended, LogoutEnds, NoRequest, Requests, Issued

\* A request that writes nothing and sends no cookie: it starts without one, or
\* it goes on.
LEMMA QuietStep ==
  ASSUME IInv, NEW r \in Request,
         req' \in [Request -> Requests],
         \A q \in Request \ {r} : req'[q] = req[q],
         req[r].out = Keep, req'[r].out = Keep,
         req[r].token = None \/ req[r].step # "answered",
         req'[r].token = req[r].token,
         req'[r].token # None => req'[r].by = req[r].by,
         req'[r].step \in {"found", "late"} /\ req'[r].token # None =>
           req'[r].token \in rows,
         RequestShape',
         UNCHANGED <<tables, cookie, history>>
  PROVE  IInv'
<1>. USE DEF IInv, Identity, SoundSessions, tables, history
<1>0. /\ \A q \in Request : req'[q].token = req[q].token /\ req'[q].out = req[q].out
      /\ \A q \in Request : req[q].token # None => req'[q].by = req[q].by
      /\ \A q \in Request : req[q].out \in Token => req'[q].by = req[q].by
  OBVIOUS
<1>1. TypeOK'
  BY DEF TypeOK
<1>2. KnownTokens' /\ OneHolder' /\ Undelivered'
  BY <1>0 DEF KnownTokens, OneHolder, Undelivered, Issued
<1>3. CookieWorks'
  BY <1>0 DEF CookieWorks, Replaces
<1>4. RowsStay' /\ OneLiveToken'
  BY <1>0 DEF RowsStay, OneLiveToken
<1>5. LastToken'
  BY <1>0 DEF LastToken, Sound
<1>6. OneRequest' /\ OneCookie'
  BY <1>0 DEF OneRequest, OneCookie, Sound
<1>7. Ended' /\ LogoutEnds'
  BY <1>0 DEF Ended, LogoutEnds, Sound
<1>. QED BY <1>1, <1>2, <1>3, <1>4, <1>5, <1>6, <1>7

\* What a new record in place r, and an answer, change.
LEMMA PlaceFacts ==
  ASSUME NEW r \in Request, req \in [Request -> Requests],
         NEW rec \in Requests, req' = [req EXCEPT ![r] = rec]
  PROVE  /\ req' \in [Request -> Requests]
         /\ \A q \in Request \ {r} : req'[q] = req[q]
         /\ req'[r] = rec
OBVIOUS

LEMMA AnswersFacts ==
  ASSUME NEW r \in Request, req \in [Request -> Requests],
         NEW out \in Token \cup {None, Keep}, Answers(r, out)
  PROVE  /\ req' \in [Request -> Requests]
         /\ \A q \in Request \ {r} : req'[q] = req[q]
         /\ req'[r].op = req[r].op /\ req'[r].by = req[r].by
         /\ req'[r].token = req[r].token /\ req'[r].user = req[r].user
         /\ req'[r].step = "answered" /\ req'[r].out = out
<1>. DEFINE rec == [req[r] EXCEPT !.step = "answered", !.out = out]
<1>1. rec \in Requests
  BY DEF Requests
<1>2. req' = [req EXCEPT ![r] = rec]
  BY DEF Answers, Requests
<1>3. /\ rec.op = req[r].op /\ rec.by = req[r].by /\ rec.token = req[r].token
      /\ rec.user = req[r].user /\ rec.step = "answered" /\ rec.out = out
  BY DEF Requests
<1>4. req' \in [Request -> Requests] /\ req'[r] = rec /\ \A q \in Request \ {r} : req'[q] = req[q]
  BY <1>1, <1>2
<1>. QED BY <1>3, <1>4

LEMMA StartLoginStep ==
  ASSUME IInv, NEW r \in Request, NEW b \in Browser, NEW e \in Email,
         NEW right \in BOOLEAN, StartLogin(r, b, e, right)
  PROVE  IInv'
<1>1. /\ req' \in [Request -> Requests]
      /\ \A q \in Request \ {r} : req'[q] = req[q]
      /\ req'[r].out = Keep /\ req'[r].token = None /\ req'[r].by = b
      /\ req'[r].op = "login" /\ req'[r].step \in {"found", "answered"}
      /\ req'[r].step = "found" => req'[r].user \in User
      /\ req[r].out = Keep /\ req[r].token = None
  <2>1. req[r] = NoRequest /\ req \in [Request -> Requests]
    BY DEF IInv, TypeOK, StartLogin
  <2>2. CASE MayLogIn(e, right)
    <3>1. PICK u \in User :
            req' = [req EXCEPT ![r] =
                      [NoRequest EXCEPT !.op = "login", !.by = b, !.user = u,
                                        !.step = "found"]]
      BY <2>2 DEF StartLogin, GetUserByEmail
    <3>. DEFINE rec == [NoRequest EXCEPT !.op = "login", !.by = b, !.user = u, !.step = "found"]
    <3>2. /\ rec \in Requests /\ rec.out = Keep /\ rec.token = None /\ rec.by = b
          /\ rec.op = "login" /\ rec.step = "found" /\ rec.user = u
      BY DEF NoRequest, Requests
    <3>. QED BY <2>1, <3>1, <3>2, PlaceFacts DEF NoRequest
  <2>3. CASE ~MayLogIn(e, right)
    <3>1. req' = [req EXCEPT ![r] =
                    [NoRequest EXCEPT !.op = "login", !.by = b, !.step = "answered"]]
      BY <2>3 DEF StartLogin
    <3>. DEFINE rec == [NoRequest EXCEPT !.op = "login", !.by = b, !.step = "answered"]
    <3>2. /\ rec \in Requests /\ rec.out = Keep /\ rec.token = None /\ rec.by = b
          /\ rec.op = "login" /\ rec.step = "answered"
      BY DEF NoRequest, Requests
    <3>. QED BY <2>1, <3>1, <3>2, PlaceFacts DEF NoRequest
  <2>. QED BY <2>2, <2>3
<1>2. RequestShape'
  BY <1>1 DEF IInv, Identity, RequestShape, StartLogin, tables, TypeOK, Requests
<1>. QED BY <1>1, <1>2, QuietStep DEF StartLogin

LEMMA FindForRefreshStep ==
  ASSUME IInv, NEW r \in Request, FindForRefresh(r)
  PROVE  IInv'
<1>1. /\ req' \in [Request -> Requests]
      /\ \A q \in Request \ {r} : req'[q] = req[q]
      /\ req'[r].token = req[r].token /\ req'[r].by = req[r].by
      /\ req'[r].out = Keep /\ req[r].out = Keep
      /\ req'[r].op = "refresh" /\ req[r].step = "sent"
      /\ \/ req'[r].step = "answered"
         \/ req'[r].step = "found" /\ req[r].token \in rows
         \/ req'[r].step = "late" /\ req[r].token \in rows /\ req[r].token \in expired
  BY DEF IInv, Identity, RequestShape, TypeOK, FindForRefresh, At, Answers, Goes,
         Requests, GetRefreshTokenByHash
<1>2. RequestShape'
  BY <1>1 DEF IInv, Identity, RequestShape, FindForRefresh, At, tables
<1>. QED BY <1>1, <1>2, QuietStep DEF FindForRefresh

LEMMA FailStep ==
  ASSUME IInv, NEW r \in Request, Fail(r)
  PROVE  IInv'
<1>1. /\ req' \in [Request -> Requests]
      /\ \A q \in Request \ {r} : req'[q] = req[q]
      /\ req'[r].token = req[r].token /\ req'[r].by = req[r].by /\ req'[r].op = req[r].op
      /\ req'[r].out = Keep /\ req[r].out = Keep
      /\ req'[r].step = "answered" /\ req[r].step \in {"sent", "found", "late"}
  <2>1. req[r].out = Keep /\ req \in [Request -> Requests]
    BY DEF IInv, Identity, RequestShape, TypeOK, Fail
  <2>. QED BY <2>1, AnswersFacts DEF Fail
<1>2. RequestShape'
  BY <1>1 DEF IInv, Identity, RequestShape, Fail, tables
<1>. QED BY <1>1, <1>2, QuietStep DEF Fail

LEMMA FindForLogoutStep ==
  ASSUME IInv, NEW r \in Request, FindForLogout(r)
  PROVE  IInv'
<1>. USE DEF IInv, Identity, SoundSessions, tables, history
<1>1. /\ At(r, "logout", "sent")
      /\ req[r].out = Keep /\ req[r].token \in Token /\ req[r].by \in Browser
  BY DEF FindForLogout, RequestShape, At
<1>2. CASE GetRefreshTokenByHash(req[r].token) # {}
  <2>1. /\ req' \in [Request -> Requests]
        /\ \A q \in Request \ {r} : req'[q] = req[q]
        /\ req'[r].token = req[r].token /\ req'[r].by = req[r].by
        /\ req'[r].op = "logout" /\ req'[r].out = Keep
        /\ req'[r].step = "found" /\ req[r].token \in rows
    BY <1>1, <1>2 DEF FindForLogout, At, Goes, TypeOK, Requests, GetRefreshTokenByHash
  <2>2. RequestShape'
    BY <1>1, <2>1 DEF RequestShape, FindForLogout
  <2>. QED BY <1>1, <1>2, <2>1, <2>2, QuietStep DEF FindForLogout, At
<1>3. CASE GetRefreshTokenByHash(req[r].token) = {}
  <2>1. /\ req' \in [Request -> Requests]
        /\ \A q \in Request \ {r} : req'[q] = req[q]
        /\ req'[r].token = req[r].token /\ req'[r].by = req[r].by
        /\ req'[r].op = "logout" /\ req'[r].out = None
        /\ req'[r].step = "answered" /\ req[r].token \notin rows
    BY <1>1, <1>3 DEF FindForLogout, At, Answers, TypeOK, Requests, GetRefreshTokenByHash
  <2>2. /\ loggedOut' = loggedOut \cup {session[req[r].token]}
        /\ UNCHANGED <<tables, cookie, session, holder, overlapped, stale>>
    BY <1>3 DEF FindForLogout, LoggedOut
  <2>3. /\ \A q \in Request : req'[q].token = req[q].token /\ req'[q].by = req[q].by
        /\ \A q \in Request : req'[q].out \in Token <=> req[q].out \in Token
        /\ \A q \in Request : req'[q].out \in Token => req'[q].out = req[q].out
    BY <1>1, <2>1
  <2>4. TypeOK'
    BY <1>1, <2>1, <2>2 DEF TypeOK
  <2>5. RequestShape'
    BY <1>1, <2>1, <2>2 DEF RequestShape
  <2>6. KnownTokens' /\ OneHolder' /\ Undelivered'
    BY <1>1, <2>2, <2>3 DEF KnownTokens, OneHolder, Undelivered, Issued
  <2>7. CookieWorks'
    BY <1>1, <2>1, <2>2 DEF CookieWorks, Replaces
  <2>8. RowsStay' /\ OneLiveToken'
    BY <1>1, <2>1, <2>2, <2>3 DEF RowsStay, OneLiveToken
  <2>9. LastToken'
    BY <1>1, <2>1, <2>2, <2>3 DEF LastToken, Sound, TypeOK
  <2>10. OneRequest' /\ OneCookie'
    BY <1>1, <2>2, <2>3 DEF OneRequest, OneCookie, Sound
  <2>11. Ended'
    BY <1>1, <2>1, <2>2, <2>3 DEF Ended, OneRequest, OneCookie, Sound, TypeOK
  <2>12. LogoutEnds'
    BY <1>1, <2>1, <2>2 DEF LogoutEnds, LastToken, Sound, TypeOK
  <2>. QED BY <2>4, <2>5, <2>6, <2>7, <2>8, <2>9, <2>10, <2>11, <2>12
<1>. QED BY <1>2, <1>3

\* A row read by r and removed by it; the answer carries no token.
LEMMA DeleteStep ==
  ASSUME IInv, NEW r \in Request, req[r].token \in Token,
         req[r].step \in {"found", "late"},
         req' \in [Request -> Requests],
         \A q \in Request \ {r} : req'[q] = req[q],
         req'[r].token = req[r].token, req'[r].by = req[r].by,
         req'[r].op = req[r].op, req'[r].step = "answered",
         \/ /\ req[r].op = "logout" /\ req'[r].out = None
            /\ loggedOut' = loggedOut \cup {session[req[r].token]}
         \/ /\ req[r].step = "late" /\ req'[r].out = Keep
            /\ UNCHANGED loggedOut,
         rows' = rows \ {req[r].token},
         UNCHANGED <<emailOf, owner, expired, cookie, session, holder, overlapped, stale>>
  PROVE  IInv'
<1>. USE DEF IInv, Identity, SoundSessions
<1>1. /\ \A q \in Request : req'[q].token = req[q].token /\ req'[q].by = req[q].by
      /\ \A q \in Request : req'[q].out \in Token <=> req[q].out \in Token
      /\ \A q \in Request : req'[q].out \in Token => req'[q].out = req[q].out
      /\ req[r].out = Keep
  BY DEF RequestShape
<1>2. TypeOK'
  BY DEF TypeOK
<1>3. RequestShape'
  BY <1>1 DEF RequestShape
<1>4. KnownTokens' /\ OneHolder' /\ Undelivered'
  BY <1>1 DEF KnownTokens, OneHolder, Undelivered, Issued
<1>5. CookieWorks'
  BY <1>1 DEF CookieWorks, Replaces, OneHolder, RequestShape, Issued
<1>6. RowsStay' /\ OneLiveToken'
  BY <1>1 DEF RowsStay, OneLiveToken
<1>7. LastToken'
  BY <1>1 DEF LastToken, Sound, TypeOK
<1>8. OneRequest' /\ OneCookie'
  BY <1>1 DEF OneRequest, OneCookie, Sound
<1>9. Ended'
  BY <1>1 DEF Ended, OneRequest, OneCookie, Sound, TypeOK
<1>10. LogoutEnds'
  BY <1>1 DEF LogoutEnds, LastToken, Sound, TypeOK
<1>. QED BY <1>2, <1>3, <1>4, <1>5, <1>6, <1>7, <1>8, <1>9, <1>10

LEMMA DeleteExpiredStep ==
  ASSUME IInv, NEW r \in Request, DeleteExpired(r)
  PROVE  IInv'
<1>1. req[r].token \in Token /\ req[r].step = "late" /\ req \in [Request -> Requests]
  BY DEF DeleteExpired, At, IInv, Identity, RequestShape, TypeOK
<1>2. Answers(r, Keep)
  BY DEF DeleteExpired
<1>3. /\ req' \in [Request -> Requests]
      /\ \A q \in Request \ {r} : req'[q] = req[q]
      /\ req'[r].token = req[r].token /\ req'[r].by = req[r].by
      /\ req'[r].op = req[r].op /\ req'[r].step = "answered" /\ req'[r].out = Keep
  BY <1>1, <1>2, AnswersFacts
<1>. QED BY <1>1, <1>3, DeleteStep DEF DeleteExpired, DeleteRefreshToken

LEMMA FinishLogoutStep ==
  ASSUME IInv, NEW r \in Request, FinishLogout(r)
  PROVE  IInv'
<1>1. /\ req[r].token \in Token /\ req[r].step = "found" /\ req[r].op = "logout"
      /\ req \in [Request -> Requests]
  BY DEF FinishLogout, At, IInv, Identity, RequestShape, TypeOK
<1>2. Answers(r, None)
  BY DEF FinishLogout
<1>3. /\ req' \in [Request -> Requests]
      /\ \A q \in Request \ {r} : req'[q] = req[q]
      /\ req'[r].token = req[r].token /\ req'[r].by = req[r].by
      /\ req'[r].op = req[r].op /\ req'[r].step = "answered" /\ req'[r].out = None
  BY <1>1, <1>2, AnswersFacts
<1>. QED BY <1>1, <1>3, DeleteStep DEF FinishLogout, DeleteRefreshToken, LoggedOut

\* A browser sends its cookie: if another request carries it the session overlaps.
LEMMA SendCookieStep ==
  ASSUME IInv, NEW r \in Request, NEW b \in Browser,
         NEW op \in {"refresh", "logout"}, SendCookie(r, b, op)
  PROVE  IInv'
<1>. USE DEF IInv, Identity, SoundSessions, tables, history
<1>1. req[r] = NoRequest /\ cookie[b] \in Token /\ req \in [Request -> Requests]
  BY DEF SendCookie, TypeOK
<1>2. /\ req' \in [Request -> Requests]
      /\ \A q \in Request \ {r} : req'[q] = req[q]
      /\ req'[r].token = cookie[b] /\ req'[r].by = b /\ req'[r].op = op
      /\ req'[r].step = "sent" /\ req'[r].out = Keep
      /\ req[r].token = None /\ req[r].out = Keep
  <2>. DEFINE rec == [NoRequest EXCEPT !.op = op, !.by = b, !.token = cookie[b], !.step = "sent"]
  <2>1. /\ rec \in Requests /\ rec.token = cookie[b] /\ rec.by = b /\ rec.op = op
        /\ rec.step = "sent" /\ rec.out = Keep
    BY <1>1 DEF NoRequest, Requests
  <2>2. req' = [req EXCEPT ![r] = rec]
    BY DEF SendCookie
  <2>. QED BY <1>1, <2>1, <2>2, PlaceFacts DEF NoRequest
<1>3. /\ UNCHANGED <<tables, cookie, session, holder, stale, loggedOut>>
      /\ overlapped' = overlapped \cup
           {session[cookie[b]] : q \in {q \in Request : req[q].token = cookie[b]}}
  BY DEF SendCookie
<1>4. /\ overlapped \subseteq overlapped'
      /\ \A s : Sound(s)' => Sound(s)
      /\ \A q \in Request : req[q].token = cookie[b] => ~Sound(session[cookie[b]])'
      /\ \A q \in Request : req[q].token = cookie[b] => session[cookie[b]] \in overlapped'
      /\ \A s \in overlapped' : s \in overlapped \/ s = session[cookie[b]]
  BY <1>3 DEF Sound
<1>5. TypeOK'
  BY <1>1, <1>2, <1>3 DEF TypeOK
<1>6. RequestShape'
  BY <1>1, <1>2, <1>3 DEF RequestShape
<1>7. KnownTokens' /\ OneHolder' /\ Undelivered'
  BY <1>1, <1>2, <1>3, <1>4 DEF KnownTokens, OneHolder, Undelivered, Issued
<1>8. CookieWorks'
  BY <1>1, <1>2, <1>3 DEF CookieWorks, Replaces, NoRequest
<1>9. RowsStay' /\ OneLiveToken'
  BY <1>1, <1>2, <1>3, <1>4 DEF RowsStay, OneLiveToken
<1>10. LastToken'
  BY <1>1, <1>2, <1>3, <1>4 DEF LastToken, TypeOK
<1>11. OneRequest' /\ OneCookie'
  BY <1>1, <1>2, <1>3, <1>4 DEF OneRequest, OneCookie
<1>12. Ended'
  BY <1>1, <1>2, <1>3, <1>4 DEF Ended
<1>13. LogoutEnds'
  BY <1>3, <1>4 DEF LogoutEnds
<1>. QED BY <1>5, <1>6, <1>7, <1>8, <1>9, <1>10, <1>11, <1>12, <1>13

\* A new session: its token is in no other place yet.
LEMMA FinishLoginStep ==
  ASSUME IInv, NEW r \in Request, NEW t \in Token, FinishLogin(r, t)
  PROVE  IInv'
<1>. USE DEF IInv, Identity, SoundSessions
<1>1. /\ req[r].token = None /\ req[r].out = Keep /\ req[r].by \in Browser
      /\ req[r].user \in User /\ req[r].op = "login" /\ req[r].step = "found"
      /\ req \in [Request -> Requests]
      /\ owner[t] = None
  BY DEF FinishLogin, At, RequestShape, TypeOK, Fresh
<1>2. /\ req' \in [Request -> Requests]
      /\ \A q \in Request \ {r} : req'[q] = req[q]
      /\ req'[r].token = None /\ req'[r].by = req[r].by /\ req'[r].op = "login"
      /\ req'[r].step = "answered" /\ req'[r].out = t
  BY <1>1, AnswersFacts DEF FinishLogin
<1>3. /\ rows' = rows \cup {t}
      /\ owner' = [owner EXCEPT ![t] = req[r].user]
      /\ session' = [session EXCEPT ![t] = t]
      /\ holder' = [holder EXCEPT ![t] = req[r].by]
      /\ UNCHANGED <<emailOf, expired, cookie, overlapped, stale, loggedOut>>
  BY DEF FinishLogin, CreateRefreshToken, InsertToken
<1>4. TypeOK'
  BY <1>1, <1>2, <1>3 DEF TypeOK
<1>5. /\ \A s \in Token : owner[s] # None =>
           s # t /\ owner'[s] = owner[s] /\ session'[s] = session[s]
           /\ session[s] # t /\ holder'[s] = holder[s]
      /\ owner'[t] \in User /\ session'[t] = t /\ holder'[t] = req[r].by
      /\ \A s \in Token \ {t} :
           owner'[s] = owner[s] /\ session'[s] = session[s] /\ holder'[s] = holder[s]
  BY <1>1, <1>3 DEF TypeOK, KnownTokens, Issued
<1>6. /\ \A s \in rows \cup expired \cup stale : s \in Token /\ owner[s] # None
      /\ \A b \in Browser : cookie[b] # None => cookie[b] \in Token /\ owner[cookie[b]] # None
      /\ \A q \in Request : req[q].token # None =>
           req[q].token \in Token /\ owner[req[q].token] # None
      /\ \A q \in Request : req[q].out \in Token => owner[req[q].out] # None
      /\ t \notin overlapped \cup loggedOut
  BY <1>1 DEF KnownTokens, OneHolder, Issued, TypeOK, Requests
<1>7. /\ \A s \in Token : owner[s] # None =>
           (Sound(session[s])' <=> Sound(session[s])) /\ session'[s] # t
      /\ \A q \in Request : req'[q].token = req[q].token /\ req'[q].by = req[q].by
  BY <1>1, <1>2, <1>3, <1>5, <1>6 DEF Sound
<1>8. RequestShape'
  BY <1>1, <1>2, <1>3 DEF RequestShape
<1>9. KnownTokens'
  BY <1>1, <1>3, <1>5, <1>6 DEF KnownTokens, Issued, TypeOK
<1>10. OneHolder'
  BY <1>1, <1>2, <1>3, <1>5, <1>6, <1>7 DEF OneHolder, Issued
<1>11. Undelivered'
  BY <1>1, <1>2, <1>3, <1>6, <1>7 DEF Undelivered
<1>12. CookieWorks'
  BY <1>1, <1>2, <1>3 DEF CookieWorks, Replaces
<1>13. RowsStay' /\ OneLiveToken'
  BY <1>1, <1>2, <1>3, <1>5, <1>6, <1>7 DEF RowsStay, OneLiveToken
<1>14. LastToken'
  BY <1>1, <1>2, <1>3, <1>5, <1>6, <1>7 DEF LastToken
<1>15. OneRequest' /\ OneCookie'
  BY <1>1, <1>2, <1>3, <1>5, <1>6, <1>7 DEF OneRequest, OneCookie
<1>16. Ended' /\ LogoutEnds'
  BY <1>1, <1>2, <1>3, <1>5, <1>6, <1>7 DEF Ended, LogoutEnds, Sound
<1>. QED BY <1>4, <1>8, <1>9, <1>10, <1>11, <1>12, <1>13, <1>14, <1>15, <1>16

\* The token that was read gives way to a new one, which is on its way to the
\* browser; in a sound session nobody else holds a token of it.
LEMMA FinishRefreshStep ==
  ASSUME IInv, NEW r \in Request, NEW t \in Token, FinishRefresh(r, t)
  PROVE  IInv'
<1>. USE DEF IInv, Identity, SoundSessions
<1>. DEFINE old == req[r].token
<1>1. /\ old \in Token /\ req[r].out = Keep /\ req[r].by \in Browser
      /\ req[r].op = "refresh" /\ req[r].step = "found"
      /\ req \in [Request -> Requests]
      /\ owner[t] = None /\ owner[old] \in User /\ holder[old] = req[r].by
      /\ session[old] \in Token /\ owner[session[old]] # None
  BY DEF FinishRefresh, At, RequestShape, TypeOK, Fresh, OneHolder, KnownTokens, Issued
<1>2. /\ req' \in [Request -> Requests]
      /\ \A q \in Request \ {r} : req'[q] = req[q]
      /\ req'[r].token = old /\ req'[r].by = req[r].by /\ req'[r].op = "refresh"
      /\ req'[r].step = "answered" /\ req'[r].out = t
  BY <1>1, AnswersFacts DEF FinishRefresh
<1>3. /\ rows' = (rows \ {old}) \cup {t}
      /\ owner' = [owner EXCEPT ![t] = owner[old]]
      /\ session' = [session EXCEPT ![t] = session[old]]
      /\ holder' = [holder EXCEPT ![t] = req[r].by]
      /\ UNCHANGED <<emailOf, expired, cookie, overlapped, stale, loggedOut>>
  BY DEF FinishRefresh, RotateRefreshToken, InsertToken
<1>4. TypeOK'
  BY <1>1, <1>2, <1>3 DEF TypeOK
<1>5. /\ \A s \in Token : owner[s] # None =>
           s # t /\ owner'[s] = owner[s] /\ session'[s] = session[s]
           /\ session[s] # t /\ holder'[s] = holder[s]
      /\ owner'[t] \in User /\ session'[t] = session[old] /\ holder'[t] = req[r].by
      /\ \A s \in Token \ {t} :
           owner'[s] = owner[s] /\ session'[s] = session[s] /\ holder'[s] = holder[s]
  BY <1>1, <1>3 DEF TypeOK, KnownTokens, Issued
<1>6. /\ \A s \in rows \cup expired \cup stale : s \in Token /\ owner[s] # None
      /\ \A b \in Browser : cookie[b] # None => cookie[b] \in Token /\ owner[cookie[b]] # None
      /\ \A q \in Request : req[q].token # None =>
           req[q].token \in Token /\ owner[req[q].token] # None
      /\ \A q \in Request : req[q].out \in Token => owner[req[q].out] # None
  BY <1>1 DEF KnownTokens, OneHolder, Issued, TypeOK, Requests
<1>7. /\ \A s : Sound(s)' <=> Sound(s)
      /\ \A q \in Request : req'[q].token = req[q].token /\ req'[q].by = req[q].by
  BY <1>1, <1>2, <1>3, <1>5, <1>6 DEF Sound
<1>8. RequestShape'
  BY <1>1, <1>2, <1>3 DEF RequestShape
<1>9. KnownTokens'
  BY <1>1, <1>3, <1>5, <1>6 DEF KnownTokens, Issued, TypeOK
<1>10. OneHolder'
  BY <1>1, <1>2, <1>3, <1>5, <1>6, <1>7 DEF OneHolder, Issued, Undelivered
<1>11. Undelivered'
  BY <1>1, <1>2, <1>3, <1>6, <1>7 DEF Undelivered
<1>12. CookieWorks'
  BY <1>1, <1>2, <1>3, <1>6 DEF CookieWorks, Replaces, OneHolder
<1>13. RowsStay' /\ OneLiveToken'
  BY <1>1, <1>2, <1>3, <1>5, <1>6, <1>7 DEF RowsStay, OneLiveToken
<1>14. LastToken'
  <2>. USE <1>1, <1>2, <1>3, <1>5, <1>6, <1>7
  <2>1. ASSUME NEW b \in Browser, NEW s \in rows', cookie[b] # None,
               session'[s] = session'[cookie[b]], Sound(session'[s])
        PROVE  s = cookie[b] \/ \E q \in Request : req'[q].token = cookie[b] /\ req'[q].out = s
    <3>1. CASE s = t
      BY <2>1, <3>1 DEF OneCookie
    <3>2. CASE s # t
      BY <2>1, <3>2 DEF LastToken
    <3>. QED BY <3>1, <3>2
  <2>2. ASSUME NEW q \in Request, NEW s \in rows', req[q].token # None,
               session'[s] = session'[req[q].token], Sound(session'[s])
        PROVE  s = req[q].token \/ s = req'[q].out
    <3>1. CASE s = t
      BY <2>2, <3>1 DEF OneRequest
    <3>2. CASE s # t
      BY <2>2, <3>2 DEF LastToken
    <3>. QED BY <3>1, <3>2
  <2>3. ASSUME NEW q \in Request, NEW s \in rows', req'[q].out \in Token,
               session'[s] = session'[req'[q].out], Sound(session'[s])
        PROVE  s = req'[q].out
    <3>1. CASE q = r
      BY <2>3, <3>1 DEF LastToken
    <3>2. CASE q # r /\ s = t
      BY <2>3, <3>2 DEF OneRequest
    <3>3. CASE q # r /\ s # t
      BY <2>3, <3>3 DEF LastToken
    <3>. QED BY <3>1, <3>2, <3>3
  <2>. QED BY <2>1, <2>2, <2>3 DEF LastToken
<1>15. OneRequest'
  BY <1>1, <1>2, <1>3, <1>5, <1>6, <1>7 DEF OneRequest
<1>16. OneCookie'
  BY <1>1, <1>2, <1>3, <1>5, <1>6, <1>7 DEF OneCookie
<1>17. Ended'
  BY <1>1, <1>2, <1>3, <1>5, <1>6, <1>7 DEF Ended
<1>18. LogoutEnds'
  BY <1>1, <1>2, <1>3, <1>5, <1>6, <1>7 DEF LogoutEnds, Ended, Sound
<1>. QED BY <1>4, <1>8, <1>9, <1>10, <1>11, <1>12, <1>13, <1>14, <1>15, <1>16, <1>17, <1>18

\* The place of r is free again and no cookie but its own changes.
LEMMA DeliverStep ==
  ASSUME IInv, NEW r \in Request, Deliver(r)
  PROVE  IInv'
<1>. USE DEF IInv, Identity, SoundSessions, tables, history
<1>. DEFINE b == req[r].by
            o == req[r].out
<1>1. /\ req[r].step = "answered" /\ req \in [Request -> Requests] /\ b \in Browser
      /\ o \in Token \cup {None, Keep}
      /\ NoRequest \in Requests
      /\ UNCHANGED <<tables, history>>
  BY DEF Deliver, RequestShape, TypeOK, Requests, NoRequest
<1>2. /\ req' \in [Request -> Requests]
      /\ \A q \in Request \ {r} : req'[q] = req[q]
      /\ req'[r] = NoRequest /\ req'[r].token = None /\ req'[r].out = Keep
  BY <1>1, PlaceFacts DEF Deliver, NoRequest
<1>3. /\ cookie' \in [Browser -> Token \cup {None}]
      /\ \A d \in Browser \ {b} : cookie'[d] = cookie[d]
      /\ o = Keep => cookie'[b] = cookie[b]
      /\ o # Keep => cookie'[b] = o
  BY <1>1 DEF Deliver, TypeOK
<1>4. \A s : Sound(s)' <=> Sound(s)
  BY <1>1 DEF Sound
<1>5. TypeOK' /\ RequestShape'
  BY <1>1, <1>2, <1>3 DEF TypeOK, RequestShape, NoRequest
<1>6. KnownTokens' /\ OneHolder' /\ Undelivered'
  BY <1>1, <1>2, <1>3 DEF KnownTokens, OneHolder, Undelivered, Issued
<1>7. CookieWorks'
  BY <1>1, <1>2, <1>3 DEF CookieWorks, Replaces, OneHolder
<1>8. RowsStay' /\ OneLiveToken'
  BY <1>1, <1>2, <1>3 DEF RowsStay, OneLiveToken, NoRequest
<1>9. LastToken'
  <2>1. ASSUME NEW d \in Browser, NEW t \in rows, cookie'[d] # None,
               session[t] = session[cookie'[d]], Sound(session[t])
        PROVE  t = cookie'[d] \/ \E q \in Request : req'[q].token = cookie'[d] /\ req'[q].out = t
    <3>1. CASE d = b /\ o # Keep
      BY <1>1, <1>3, <2>1, <3>1 DEF LastToken
    <3>2. CASE ~(d = b /\ o # Keep)
      <4>1. cookie'[d] = cookie[d]
        BY <1>1, <1>3, <3>2
      <4>2. t = cookie[d] \/ \E q \in Request : req[q].token = cookie[d] /\ req[q].out = t
        BY <2>1, <4>1 DEF LastToken
      <4>3. ~(req[r].token = cookie[d] /\ req[r].out = t)
        BY <1>1, <2>1, <3>2, <4>1 DEF OneHolder, TypeOK
      <4>. QED BY <1>2, <4>1, <4>2, <4>3
    <3>. QED BY <3>1, <3>2
  <2>2. ASSUME NEW q \in Request, NEW t \in rows, req'[q].token # None,
               session[t] = session[req'[q].token], Sound(session[t])
        PROVE  t = req'[q].token \/ t = req'[q].out
    BY <1>2, <2>2 DEF LastToken
  <2>3. ASSUME NEW q \in Request, NEW t \in rows, req'[q].out \in Token,
               session[t] = session[req'[q].out], Sound(session[t])
        PROVE  t = req'[q].out
    BY <1>2, <2>3 DEF LastToken
  <2>. QED BY <1>1, <1>4, <2>1, <2>2, <2>3 DEF LastToken
<1>10. OneRequest' /\ OneCookie'
  BY <1>1, <1>2, <1>3, <1>4 DEF OneRequest, OneCookie, OneHolder
<1>11. Ended'
  BY <1>1, <1>2, <1>3, <1>4 DEF Ended, OneHolder
<1>12. LogoutEnds'
  BY <1>1 DEF LogoutEnds
<1>. QED BY <1>5, <1>6, <1>7, <1>8, <1>9, <1>10, <1>11, <1>12

\* A lost answer leaves its session to the exceptions of the properties.
LEMMA LoseStep ==
  ASSUME IInv, NEW r \in Request, Lose(r)
  PROVE  IInv'
<1>. USE DEF IInv, Identity, SoundSessions, tables
<1>1. /\ req[r].step = "answered" /\ req \in [Request -> Requests] /\ req[r].out # Keep
      /\ req[r].token \in Token \cup {None}
      /\ NoRequest \in Requests
      /\ UNCHANGED <<tables, cookie, session, holder, overlapped, loggedOut>>
      /\ stale' = stale \cup ({req[r].token} \ {None})
  BY DEF Lose, TypeOK, Requests, NoRequest
<1>2. /\ req' \in [Request -> Requests]
      /\ \A q \in Request \ {r} : req'[q] = req[q]
      /\ req'[r] = NoRequest /\ req'[r].token = None /\ req'[r].out = Keep
  BY <1>1, PlaceFacts DEF Lose, NoRequest
<1>3. /\ \A s : Sound(s)' => Sound(s)
      /\ \A u \in Token : u = req[r].token => ~Sound(session[u])'
      /\ stale \subseteq stale'
      /\ req[r].token # None => req[r].token \in stale'
  <2>1. stale \subseteq stale' /\ (req[r].token # None => req[r].token \in stale')
    BY <1>1
  <2>2. \A s : Sound(s)' => Sound(s)
    BY <1>1, <2>1 DEF Sound
  <2>3. \A u \in Token : u = req[r].token => ~Sound(session[u])'
    BY <1>1, <2>1 DEF Sound
  <2>. QED BY <2>1, <2>2, <2>3
<1>4. TypeOK' /\ RequestShape'
  BY <1>1, <1>2 DEF TypeOK, RequestShape, NoRequest
<1>5. KnownTokens' /\ OneHolder' /\ Undelivered'
  BY <1>1, <1>2 DEF KnownTokens, OneHolder, Undelivered, Issued
<1>6. CookieWorks'
  BY <1>1, <1>2, <1>3 DEF CookieWorks, Replaces
<1>7. RowsStay' /\ OneLiveToken'
  BY <1>1, <1>2 DEF RowsStay, OneLiveToken, NoRequest
<1>8. LastToken'
  BY <1>1, <1>2, <1>3 DEF LastToken
<1>9. OneRequest' /\ OneCookie'
  BY <1>1, <1>2, <1>3 DEF OneRequest, OneCookie
<1>10. Ended' /\ LogoutEnds'
  BY <1>1, <1>2, <1>3 DEF Ended, LogoutEnds
<1>. QED BY <1>4, <1>5, <1>6, <1>7, <1>8, <1>9, <1>10

\* Registration and time: no row, request or session changes.
LEMMA QuietTables ==
  ASSUME IInv, TypeOK',
         expired \subseteq expired', \A t \in expired' : Issued(t),
         \A b \in Browser : cookie'[b] \in {cookie[b], None},
         UNCHANGED <<rows, owner, req, history>>
  PROVE  IInv'
<1>. USE DEF IInv, Identity, SoundSessions, history
<1>1. RequestShape' /\ KnownTokens' /\ OneHolder' /\ Undelivered'
  BY DEF RequestShape, KnownTokens, OneHolder, Undelivered, Issued
<1>2. CookieWorks' /\ RowsStay' /\ OneLiveToken'
  BY DEF CookieWorks, Replaces, RowsStay, OneLiveToken
<1>3. LastToken'
  BY DEF LastToken, Sound
<1>4. OneRequest' /\ OneCookie'
  BY DEF OneRequest, OneCookie, Sound
<1>5. Ended' /\ LogoutEnds'
  BY DEF Ended, LogoutEnds, Sound
<1>. QED BY <1>1, <1>2, <1>3, <1>4, <1>5

\* IInv is inductive: one step per action.
LEMMA NextIInv == IInv /\ [Next]_vars => IInv'
<1>. SUFFICES ASSUME IInv, [Next]_vars PROVE IInv'
  OBVIOUS
<1>1. ASSUME NEW u \in User, NEW e \in Email, RegisterUser(u, e) PROVE IInv'
  <2>1. TypeOK'
    BY <1>1 DEF IInv, TypeOK, RegisterUser, InsertUser, history
  <2>. QED
    BY <1>1, <2>1, QuietTables DEF RegisterUser, IInv, Identity, KnownTokens, TypeOK
<1>2. ASSUME NEW r \in Request, Handle(r) PROVE IInv'
  <2>1. CASE \E t \in Token : FinishLogin(r, t) \/ FinishRefresh(r, t)
    BY <2>1, FinishLoginStep, FinishRefreshStep
  <2>. QED
    BY <1>2, <2>1, FindForRefreshStep, DeleteExpiredStep, FindForLogoutStep,
       FinishLogoutStep DEF Handle
<1>3. ASSUME NEW r \in Request, Fail(r) \/ Deliver(r) \/ Lose(r) PROVE IInv'
  BY <1>3, FailStep, DeliverStep, LoseStep
<1>4. ASSUME NEW r \in Request, NEW b \in Browser, NEW e \in Email,
             NEW right \in BOOLEAN, StartLogin(r, b, e, right)
      PROVE  IInv'
  BY <1>4, StartLoginStep
<1>5. ASSUME NEW r \in Request, NEW b \in Browser,
             NEW op \in {"refresh", "logout"}, SendCookie(r, b, op)
      PROVE  IInv'
  BY <1>5, SendCookieStep
<1>6. ASSUME NEW t \in Token, TokenExpires(t) PROVE IInv'
  <2>1. TypeOK'
    BY <1>6 DEF IInv, TypeOK, TokenExpires, history
  <2>2. \A s \in expired' : Issued(s)
    BY <1>6 DEF TokenExpires, IInv, Identity, KnownTokens, Fresh, Issued
  <2>. QED
    BY <1>6, <2>1, <2>2, QuietTables DEF TokenExpires
<1>7. ASSUME NEW b \in Browser, CookieExpires(b) PROVE IInv'
  <2>1. TypeOK' /\ \A d \in Browser : cookie'[d] \in {cookie[d], None}
    BY <1>7 DEF IInv, TypeOK, CookieExpires, tables, history
  <2>. QED
    BY <1>7, <2>1, QuietTables DEF CookieExpires, tables, IInv, Identity, KnownTokens
<1>8. CASE UNCHANGED vars
  <2>1. TypeOK'
    BY <1>8 DEF IInv, TypeOK, vars, tables, history
  <2>. QED
    BY <1>8, <2>1, QuietTables DEF vars, tables, IInv, Identity, KnownTokens, TypeOK
<1>. QED BY <1>1, <1>2, <1>3, <1>4, <1>5, <1>6, <1>7, <1>8 DEF Next

LEMMA Inductive == Spec => []IInv
BY InitIInv, NextIInv, PTL DEF Spec

-----------------------------------------------------------------------------
(* Theorems *)

\* The variables of the model keep their types.
THEOREM SessionsTypeCorrect == Spec => []TypeOK
<1>. IInv => TypeOK BY DEF IInv
<1>. QED BY Inductive, PTL

\* No order of requests, failures and lost answers locks a browser out without
\* one of the three reasons that CookieWorks names.
THEOREM CookiesWork == Spec => []CookieWorks
<1>. IInv => CookieWorks BY DEF IInv
<1>. QED BY Inductive, PTL

\* A login whose requests did not overlap has at most one usable refresh token.
THEOREM OneTokenPerLogin == Spec => []OneLiveToken
<1>. IInv => OneLiveToken BY DEF IInv
<1>. QED BY Inductive, PTL

\* A logout ends its login, unless requests overlapped or an answer was lost.
THEOREM LogoutsEnd == Spec => []LogoutEnds
<1>. IInv => LogoutEnds BY DEF IInv
<1>. QED BY Inductive, PTL
\* The usable tokens of a login.
LiveTokens(s) == {t \in rows : session[t] = s}

\* A login that has no usable token left, whether by logout or by expiry, never
\* has one again, though a refresh reads the row in one statement and replaces
\* it in another: it takes two requests with one token to revive the login.
EndedStaysEnded ==
  [][\A s \in Token :
       Issued(s) /\ s \notin overlapped /\ LiveTokens(s) = {} => LiveTokens(s)' = {}]_vars

\* rotate_refresh_token inserts a row of the login whose row was read before;
\* RowsStay is what says that this row is still there.
THEOREM EndedLoginsStayEnded == Spec => EndedStaysEnded
<1>1. ASSUME IInv, Next,
             NEW s \in Token, Issued(s), s \notin overlapped, LiveTokens(s) = {},
             NEW t \in rows', session'[t] = s
      PROVE  FALSE
  <2>. USE DEF LiveTokens, Issued
  <2>1. CASE t \in rows /\ UNCHANGED session
    BY <1>1, <2>1
  <2>2. ASSUME NEW r \in Request, NEW u \in Token, FinishLogin(r, u)
        PROVE  FALSE
    <3>1. u \in Token /\ owner[u] = None /\ u # s
      BY <1>1, <2>2 DEF FinishLogin, Fresh
    <3>2. rows' = rows \cup {u} /\ session' = [session EXCEPT ![u] = u]
      BY <2>2 DEF FinishLogin, CreateRefreshToken, InsertToken
    <3>3. session \in [Token -> Token \cup {None}]
      BY <1>1 DEF IInv, TypeOK
    <3>. QED
      BY <1>1, <3>1, <3>2, <3>3
  <2>3. ASSUME NEW r \in Request, NEW u \in Token, FinishRefresh(r, u)
        PROVE  FALSE
    <3>1. /\ rows' \subseteq rows \cup {u}
          /\ session' = [session EXCEPT ![u] = session[req[r].token]]
          /\ req[r].op = "refresh" /\ req[r].step = "found"
      BY <2>3 DEF FinishRefresh, RotateRefreshToken, InsertToken, At
    <3>2. session \in [Token -> Token \cup {None}]
      BY <1>1 DEF IInv, TypeOK
    <3>3. t = u /\ session[req[r].token] = s
      BY <1>1, <3>1, <3>2
    <3>4. req[r].token \in Token
      BY <1>1, <3>1 DEF IInv, Identity, RequestShape
    <3>5. req[r].token \in rows
      BY <1>1, <3>1, <3>3, <3>4, NoneAssumption DEF IInv, RowsStay
    <3>. QED
      BY <1>1, <3>3, <3>5
  <2>4. CASE \E r \in Request :
               FindForRefresh(r) \/ DeleteExpired(r) \/ FindForLogout(r) \/ FinishLogout(r)
    BY <2>1, <2>4, <1>1
    DEF FindForRefresh, DeleteExpired, FindForLogout, FinishLogout, DeleteRefreshToken,
        tables, history
  <2>5. CASE \/ \E u \in User, e \in Email : RegisterUser(u, e)
             \/ \E r \in Request :
                  \/ Fail(r) \/ Deliver(r) \/ Lose(r)
                  \/ \E b \in Browser, e \in Email, right \in BOOLEAN :
                       StartLogin(r, b, e, right)
                  \/ \E b \in Browser, op \in {"refresh", "logout"} : SendCookie(r, b, op)
             \/ \E u \in Token : TokenExpires(u)
             \/ \E b \in Browser : CookieExpires(b)
    BY <2>1, <2>5, <1>1
    DEF RegisterUser, Fail, Deliver, Lose, StartLogin, SendCookie, TokenExpires,
        CookieExpires, tables, history
  <2>. QED
    BY <1>1, <2>2, <2>3, <2>4, <2>5 DEF Next, Handle
<1>2. ASSUME IInv, [Next]_vars,
             NEW s \in Token, Issued(s), s \notin overlapped, LiveTokens(s) = {}
      PROVE  LiveTokens(s)' = {} \/ UNCHANGED vars
  BY <1>1, <1>2 DEF LiveTokens
<1>3. IInv /\ [Next]_vars =>
        [\A s \in Token :
           Issued(s) /\ s \notin overlapped /\ LiveTokens(s) = {} => LiveTokens(s)' = {}]_vars
  BY <1>2
<1>. QED
  BY <1>3, Inductive, PTL DEF Spec, EndedStaysEnded
=============================================================================
