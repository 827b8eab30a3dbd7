----------------------------- MODULE UserSessions -----------------------------
(***************************************************************************)
(* UserServiceHandler and UserService over the users and refresh_tokens     *)
(* tables: registration, login, rotation of the refresh token on every      *)
(* refresh, logout, and the cookie in which a browser keeps its token.      *)
(* The requests of all browsers are served concurrently, each in several    *)
(* database steps; an answer may be lost, a step may fail, a token expires. *)
(***************************************************************************)
CONSTANTS
  User,         \* user ids
  Email,        \* e-mail addresses that registration accepts
  LoginEmail,   \* those among them that is_valid_email accepts
  Token,        \* refresh tokens; a row is known by the token it stores the hash of
  Browser,      \* the clients, each with its own cookie jar
  Request,      \* places for requests being served
  None,         \* no row, no cookie
  Keep          \* an answer that carries no cookie

ASSUME EmailAssumption == LoginEmail \subseteq Email /\ None \notin Email
ASSUME NoneAssumption == None \notin Token \cup User \cup Browser
ASSUME KeepAssumption == Keep \notin Token /\ Keep # None

VARIABLES
  emailOf,   \* the users table: the address of each registered user
  rows,      \* the refresh_tokens table
  owner,     \* user_id of every row ever inserted
  expired,   \* tokens whose expires_at has passed
  cookie,    \* the refresh token in each browser
  req,       \* the requests being served
  (* history *)
  session,   \* the login that a token descends from, named by its first token
  holder,    \* the browser whose request a token answered
  overlapped,\* sessions of which two requests were served at once
  stale,     \* tokens whose replacement or removal the browser was not told of
  loggedOut  \* sessions whose logout was answered with success

tables  == <<emailOf, rows, owner, expired>>
history == <<session, holder, overlapped, stale, loggedOut>>
vars    == <<tables, cookie, req, history>>

NoRequest ==
  [op |-> "none", by |-> None, token |-> None, user |-> None,
   step |-> "idle", out |-> Keep]

Requests ==
  [op : {"none", "login", "refresh", "logout"}, by : Browser \cup {None},
   token : Token \cup {None}, user : User \cup {None},
   step : {"idle", "sent", "found", "late", "answered"},
   out : Token \cup {None, Keep}]

Init ==
  /\ emailOf = [u \in User |-> None]
  /\ rows = {}
  /\ owner = [t \in Token |-> None]
  /\ expired = {}
  /\ cookie = [b \in Browser |-> None]
  /\ req = [r \in Request |-> NoRequest]
  /\ session = [t \in Token |-> None]
  /\ holder = [t \in Token |-> None]
  /\ overlapped = {}
  /\ stale = {}
  /\ loggedOut = {}

Fresh == {t \in Token : owner[t] = None}
At(r, op, step) == req[r].op = op /\ req[r].step = step

\* The request goes on to a step, or is answered with a cookie to set.
Goes(r, step) == req' = [req EXCEPT ![r].step = step]
Answers(r, out) == req' = [req EXCEPT ![r].step = "answered", ![r].out = out]

-----------------------------------------------------------------------------
(* The repositories *)

\* INSERT INTO users: the unique index on email refuses a second account.
EmailTaken(e) == \E u \in User : emailOf[u] = e
InsertUser(u, e) ==
  /\ ~EmailTaken(e)
  /\ emailOf' = [emailOf EXCEPT ![u] = e]

GetUserByEmail(e) == {u \in User : emailOf[u] = e}

\* INSERT INTO refresh_tokens, by the request r, as part of a session.
InsertToken(r, t, user, root) ==
  /\ owner' = [owner EXCEPT ![t] = user]
  /\ session' = [session EXCEPT ![t] = root]
  /\ holder' = [holder EXCEPT ![t] = req[r].by]

CreateRefreshToken(r, t, user) ==
  /\ rows' = rows \cup {t}
  /\ InsertToken(r, t, user, t)

GetRefreshTokenByHash(t) == rows \cap {t}

\* Mutant: every row of the user goes, as delete_refresh_tokens_by_user does.
DeleteByUser(t) ==
  /\ rows' = {s \in rows : owner[s] # owner[t]}
  /\ UNCHANGED <<owner, session, holder>>
\* DELETE ... WHERE id: the row may be gone already.
DeleteRefreshToken(t) ==
  /\ rows' = rows \ {t}
  /\ UNCHANGED <<owner, session, holder>>

\* Mutant: the old row stays.
RotateWithoutDelete(r, t) ==
  /\ rows' = rows \cup {t}
  /\ InsertToken(r, t, owner[req[r].token], session[req[r].token])
\* DELETE of the old row and INSERT of the new one in one transaction; how
\* many rows the DELETE removed is not looked at.
RotateRefreshToken(r, t) ==
  /\ rows' = (rows \ {req[r].token}) \cup {t}
  /\ InsertToken(r, t, owner[req[r].token], session[req[r].token])

-----------------------------------------------------------------------------
(* The service and its handlers *)

\* RegisterUser: no cookie is set, so nothing of the request remains.
RegisterUser(u, e) ==
  /\ emailOf[u] = None
  /\ InsertUser(u, e)
  /\ UNCHANGED <<rows, owner, expired, cookie, req, history>>

\* Login: the address is parsed and looked up, the password is verified.
MayLogIn(e, right) == e \in LoginEmail /\ right /\ GetUserByEmail(e) # {}
StartLogin(r, b, e, right) ==
  /\ req[r] = NoRequest
  /\ \/ /\ MayLogIn(e, right)
        /\ \E u \in GetUserByEmail(e) :
             req' = [req EXCEPT ![r] =
                       [NoRequest EXCEPT !.op = "login", !.by = b, !.user = u,
                                         !.step = "found"]]
     \/ /\ ~MayLogIn(e, right)
        /\ req' = [req EXCEPT ![r] =
                     [NoRequest EXCEPT !.op = "login", !.by = b, !.step = "answered"]]
  /\ UNCHANGED <<tables, cookie, history>>

\* The new session's token is stored and sent as a cookie.
FinishLogin(r, t) ==
  /\ At(r, "login", "found")
  /\ t \in Fresh
  /\ CreateRefreshToken(r, t, req[r].user)
  /\ Answers(r, t)
  /\ UNCHANGED <<emailOf, expired, cookie, overlapped, stale, loggedOut>>

\* A browser sends the cookie it has at that moment; without one, Refresh is
\* refused and Logout has nothing to do.
SendCookie(r, b, op) ==
  /\ req[r] = NoRequest
  /\ cookie[b] # None
  /\ req' = [req EXCEPT ![r] =
               [NoRequest EXCEPT !.op = op, !.by = b, !.token = cookie[b],
                                 !.step = "sent"]]
  /\ overlapped' = overlapped \cup
       {session[cookie[b]] : q \in {q \in Request : req[q].token = cookie[b]}}
  /\ UNCHANGED <<tables, cookie, session, holder, stale, loggedOut>>

\* The row is read; refresh_token compares its expires_at with the clock.
FindForRefresh(r) ==
  LET t == req[r].token IN
  /\ At(r, "refresh", "sent")
  /\ \/ GetRefreshTokenByHash(t) = {} /\ Answers(r, Keep)
     \/ GetRefreshTokenByHash(t) # {} /\ t \in expired /\ Goes(r, "late")
     \/ GetRefreshTokenByHash(t) # {} /\ t \notin expired /\ Goes(r, "found")
  /\ UNCHANGED <<tables, cookie, history>>

\* The expired row is deleted by its id and the refresh refused; the browser
\* keeps the cookie.
DeleteExpired(r) ==
  /\ At(r, "refresh", "late")
  /\ DeleteRefreshToken(req[r].token)
  /\ Answers(r, Keep)
  /\ UNCHANGED <<emailOf, expired, cookie, overlapped, stale, loggedOut>>

\* The token read before is replaced, though it may be spent by now.
FinishRefresh(r, t) ==
  /\ At(r, "refresh", "found")
  /\ t \in Fresh
  /\ RotateRefreshToken(r, t)
  /\ Answers(r, t)
  /\ UNCHANGED <<emailOf, expired, cookie, overlapped, stale, loggedOut>>

\* Logout answers with success and an emptied cookie.
LoggedOut(r) == loggedOut' = loggedOut \cup {session[req[r].token]}

\* Logout of a token that is in no row has nothing to delete.
FindForLogout(r) ==
  /\ At(r, "logout", "sent")
  /\ \/ /\ GetRefreshTokenByHash(req[r].token) = {}
        /\ Answers(r, None)
        /\ LoggedOut(r)
     \/ /\ GetRefreshTokenByHash(req[r].token) # {}
        /\ Goes(r, "found")
        /\ UNCHANGED loggedOut
  /\ UNCHANGED <<tables, cookie, session, holder, overlapped, stale>>

\* Mutant: the row stays and only the cookie is emptied.
ForgetCookieOnly(r) ==
  /\ At(r, "logout", "found")
  /\ Answers(r, None)
  /\ LoggedOut(r)
  /\ UNCHANGED <<tables, cookie, session, holder, overlapped, stale>>
FinishLogout(r) ==
  /\ At(r, "logout", "found")
  /\ DeleteRefreshToken(req[r].token)
  /\ Answers(r, None)
  /\ LoggedOut(r)
  /\ UNCHANGED <<emailOf, expired, cookie, overlapped, stale>>

-----------------------------------------------------------------------------
(* Failures, answers and time *)

\* A database step fails before it wrote: an error answer, without a cookie.
Fail(r) ==
  /\ req[r].step \in {"sent", "found", "late"}
  /\ Answers(r, Keep)
  /\ UNCHANGED <<tables, cookie, history>>

\* The answer reaches the browser, which keeps or replaces its cookie.
Deliver(r) ==
  /\ req[r].step = "answered"
  /\ cookie' = [cookie EXCEPT ![req[r].by] = IF req[r].out = Keep THEN @ ELSE req[r].out]
  /\ req' = [req EXCEPT ![r] = NoRequest]
  /\ UNCHANGED <<tables, history>>

\* The browser has gone away, the handler's future was dropped after its last
\* statement, or the acknowledgement of the COMMIT was lost.
Lose(r) ==
  /\ req[r].step = "answered"
  /\ req[r].out # Keep
  /\ stale' = stale \cup ({req[r].token} \ {None})
  /\ req' = [req EXCEPT ![r] = NoRequest]
  /\ UNCHANGED <<tables, cookie, session, holder, overlapped, loggedOut>>

TokenExpires(t) ==
  /\ t \notin Fresh \cup expired
  /\ expired' = expired \cup {t}
  /\ UNCHANGED <<emailOf, rows, owner, cookie, req, history>>

\* Max-Age is the lifetime of the row, so a browser drops an expired cookie.
CookieExpires(b) ==
  /\ cookie[b] \in expired
  /\ cookie' = [cookie EXCEPT ![b] = None]
  /\ UNCHANGED <<tables, req, history>>

Handle(r) ==
  \/ FindForRefresh(r) \/ DeleteExpired(r) \/ FindForLogout(r) \/ FinishLogout(r)
  \/ \E t \in Token : FinishLogin(r, t) \/ FinishRefresh(r, t)

Next ==
  \/ \E u \in User, e \in Email : RegisterUser(u, e)
  \/ \E r \in Request :
       \/ Handle(r) \/ Fail(r) \/ Deliver(r) \/ Lose(r)
       \/ \E b \in Browser, e \in Email, right \in BOOLEAN : StartLogin(r, b, e, right)
       \/ \E b \in Browser, op \in {"refresh", "logout"} : SendCookie(r, b, op)
  \/ \E t \in Token : TokenExpires(t)
  \/ \E b \in Browser : CookieExpires(b)

Spec == Init /\ [][Next]_vars

-----------------------------------------------------------------------------
TypeOK ==
  /\ emailOf \in [User -> Email \cup {None}]
  /\ rows \subseteq Token
  /\ owner \in [Token -> User \cup {None}]
  /\ expired \subseteq Token
  /\ cookie \in [Browser -> Token \cup {None}]
  /\ req \in [Request -> Requests]
  /\ session \in [Token -> Token \cup {None}]
  /\ holder \in [Token -> Browser \cup {None}]
  /\ overlapped \subseteq Token \cup {None}
  /\ stale \subseteq Token
  /\ loggedOut \subseteq Token \cup {None}

\* An answer on its way that will replace or empty the cookie t of b.
Replaces(r, b, t) ==
  /\ req[r].step = "answered"
  /\ req[r].by = b
  /\ req[r].token = t
  /\ req[r].out # Keep

\* A browser is never locked out by its own requests: however its refreshes,
\* logins and logouts overlap, and whatever other browsers of the same user do,
\* the cookie it keeps names a row, unless it expired, the answer that replaced
\* it was lost, or that answer is on its way.
CookieWorks ==
  \A b \in Browser :
    cookie[b] # None =>
      \/ cookie[b] \in rows \cup expired \cup stale
      \/ \E r \in Request : Replaces(r, b, cookie[b])

\* A login never has two usable refresh tokens, through any number of
\* rotations, failures and lost answers, unless two requests with the same
\* token were served at once: the row is read in one statement and replaced in
\* another, and the count of deleted rows is not looked at.
OneLiveToken ==
  \A s, t \in rows : session[s] = session[t] /\ session[s] \notin overlapped => s = t

\* After a logout that was answered with success the login it ended has no
\* usable token left, unless its requests overlapped or an answer was lost: a
\* logout with a token that was already rotated succeeds and deletes nothing.
LogoutEnds ==
  \A t \in rows :
    session[t] \in loggedOut =>
      session[t] \in overlapped \/ \E s \in stale : session[s] = session[t]
=============================================================================
