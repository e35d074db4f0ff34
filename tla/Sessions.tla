------------------------------ MODULE Sessions ------------------------------
(***************************************************************************)
(* Sign-in and the sessions of one Telegram user (apps/api/src/main.ts).   *)
(* A session is named by a refresh token that every refresh replaces; the  *)
(* browser keeps the token of the last answer it got, and its tabs share   *)
(* that cookie.  Routes read a session and later update it by id.          *)
(***************************************************************************)
EXTENDS Naturals, FiniteSets

CONSTANTS
    SessionIds,     \* sessions that may be created
    MaxToken,       \* bound: refresh tokens of one session
    AuthRequests    \* requests that may be in flight together

VARIABLES
    users,          \* users with this telegramId
    session,        \* AuthSession by id; token is the refreshTokenHash
    cookie,         \* the refresh token the browser holds
    authTx,         \* what each request has read, then what its answer sets
    authAlone,      \* assumption: no two requests overlap and no answer is lost
    loggedOut       \* history: sessions that were revoked once

sessionVars == <<users, session, cookie, authTx, authAlone, loggedOut>>

NoSession == [status |-> "NONE", expired |-> FALSE, token |-> 0]
NoCookie == [id |-> "NONE", token |-> 0]
NoAuthTx == [op |-> "idle", id |-> "NONE", token |-> 0]

SessionsInit ==
    /\ users = 0
    /\ session = [s \in SessionIds |-> NoSession]
    /\ cookie = NoCookie
    /\ authTx = [r \in AuthRequests |-> NoAuthTx]
    /\ authAlone \in BOOLEAN
    /\ loggedOut = {}

Live(s) == session[s].status = "ACTIVE" /\ ~session[s].expired

BeginAuth(r, op, id, token) ==
    /\ authTx[r].op = "idle"
    /\ authAlone => \A q \in AuthRequests : authTx[q].op = "idle"
    /\ authTx' = [authTx EXCEPT ![r] = [op |-> op, id |-> id, token |-> token]]
    /\ UNCHANGED <<users, session, cookie, authAlone, loggedOut>>

Answer(r, op, id, token) ==
    authTx' = [authTx EXCEPT ![r] = [op |-> op, id |-> id, token |-> token]]

-----------------------------------------------------------------------------
\* What an app may be launched with: Telegram's data of this user or of none, as
\* it was signed or changed since, of today, of before or of a clock ahead.
LaunchData == [user : {"KNOWN", "NONE"}, hash : {"SIGNED", "OTHER"},
               authDate : {"FRESH", "EXPIRED", "FUTURE"}]

\* Nothing records that the data was used: it may be sent again while it is fresh.
validateTelegramInitData(data) ==
    data.authDate = "FRESH" /\ data.hash = "SIGNED" /\ data.user = "KNOWN"

\* POST /auth/telegram: upsertAuthenticatedUser looks for the identity...
LoginBegin(r, s) == \E initData \in LaunchData :
    /\ validateTelegramInitData(initData) /\ session[s].status = "NONE"
    /\ BeginAuth(r, IF users = 0 THEN "register" ELSE "login", s, 0)

\* ... and creates the user, unless it was there; User.telegramId is unique.
TelegramIdUnused == users = 0

\* createSession
Login(r) ==
    LET t == authTx[r]
    IN  /\ t.op \in {"register", "login"} /\ session[t.id].status = "NONE"
        /\ t.op = "register" => TelegramIdUnused
        /\ users' = IF t.op = "register" THEN users + 1 ELSE users
        /\ session' = [session EXCEPT ![t.id] = [NoSession EXCEPT !.status = "ACTIVE", !.token = 1]]
        /\ Answer(r, "answer", t.id, 1)
        /\ UNCHANGED <<cookie, authAlone, loggedOut>>

\* POST /auth/refresh finds the session by its token.
RefreshBegin(r) == \E s \in SessionIds :
    /\ cookie = [id |-> s, token |-> session[s].token] /\ Live(s)
    /\ BeginAuth(r, "refresh", s, 0)

\* (mutant) the row is written back as it was read
RefreshedRow(row) == [row EXCEPT !.status = "ACTIVE", !.token = @ + 1]
Refreshed(row) == [row EXCEPT !.token = @ + 1]

Refresh(r) ==
    LET t == authTx[r]
    IN  /\ t.op = "refresh" /\ session[t.id].token < MaxToken
        /\ session' = [session EXCEPT ![t.id] = Refreshed(@)]
        /\ Answer(r, "answer", t.id, session[t.id].token + 1)
        /\ UNCHANGED <<users, cookie, authAlone, loggedOut>>

\* A token that belongs to no usable session; one that was replaced belongs to
\* none, so nothing is revoked for it.
RefreshRejected ==
    /\ \E s \in SessionIds : cookie = [id |-> s, token |-> session[s].token] /\ ~Live(s)
    /\ session' = [session EXCEPT ![cookie.id].status = "REVOKED"]
    /\ loggedOut' = loggedOut \cup {cookie.id}
    /\ UNCHANGED <<users, cookie, authTx, authAlone>>

SetCookie(t) == [id |-> t.id, token |-> t.token]

\* setRefreshCookie: answers may overtake each other, or be lost.
AnswerArrives(r) ==
    /\ authTx[r].op = "answer"
    /\ cookie' = SetCookie(authTx[r])
    /\ authTx' = [authTx EXCEPT ![r] = NoAuthTx]
    /\ UNCHANGED <<users, session, authAlone, loggedOut>>

AnswerLost(r) ==
    /\ authTx[r].op = "answer" /\ ~authAlone
    /\ authTx' = [authTx EXCEPT ![r] = NoAuthTx]
    /\ UNCHANGED <<users, session, cookie, authAlone, loggedOut>>

-----------------------------------------------------------------------------
\* POST /auth/logout of the session that asks; the answer clears the cookie.
LogoutBegin(r, s) == Live(s) /\ BeginAuth(r, "logout", s, 0)

\* DELETE /me/sessions/:sessionId, from any session that is usable: what it
\* revokes may have expired, and the browser keeps its cookie.
RevokeBegin(r, s) ==
    /\ session[s].status = "ACTIVE" /\ \E q \in SessionIds : Live(q)
    /\ BeginAuth(r, "revoke", s, 0)

Revoked(r, ops) ==
    LET t == authTx[r]
    IN  /\ t.op \in ops
        /\ session' = [session EXCEPT ![t.id].status = "REVOKED"]
        /\ loggedOut' = loggedOut \cup {t.id}
        /\ authTx' = [authTx EXCEPT ![r] = NoAuthTx]
        /\ UNCHANGED <<users, authAlone>>

Logout(r) == Revoked(r, {"logout"}) /\ cookie' = NoCookie
RevokeSession(r) == Revoked(r, {"revoke"}) /\ UNCHANGED cookie

LogoutAll(r) ==
    /\ authTx[r].op = "idle" /\ \E s \in SessionIds : Live(s)
    /\ authAlone => \A q \in AuthRequests : authTx[q].op = "idle"
    /\ session' = [s \in SessionIds |->
           IF session[s].status = "ACTIVE" THEN [session[s] EXCEPT !.status = "REVOKED"]
           ELSE session[s]]
    /\ loggedOut' = loggedOut \cup {s \in SessionIds : session[s].status = "ACTIVE"}
    /\ cookie' = NoCookie
    /\ UNCHANGED <<users, authTx, authAlone>>

SessionExpires(s) ==
    /\ session[s].status # "NONE" /\ ~session[s].expired
    /\ session' = [session EXCEPT ![s].expired = TRUE]
    /\ UNCHANGED <<users, cookie, authTx, authAlone, loggedOut>>

AuthFails(r) ==
    /\ authTx[r].op \in {"register", "login", "refresh", "logout", "revoke"}
    /\ authTx' = [authTx EXCEPT ![r] = NoAuthTx]
    /\ UNCHANGED <<users, session, cookie, authAlone, loggedOut>>

SessionsNext ==
    \/ \E r \in AuthRequests :
           \/ Login(r) \/ RefreshBegin(r) \/ Refresh(r) \/ AnswerArrives(r) \/ AnswerLost(r)
           \/ Logout(r) \/ RevokeSession(r) \/ LogoutAll(r) \/ AuthFails(r)
           \/ \E s \in SessionIds : LoginBegin(r, s) \/ LogoutBegin(r, s) \/ RevokeBegin(r, s)
    \/ \E s \in SessionIds : SessionExpires(s)
    \/ RefreshRejected

SessionsSpec == SessionsInit /\ [][SessionsNext]_sessionVars

-----------------------------------------------------------------------------
(* A Telegram user has one account, although the first sign-ins may come   *)
(* from several apps at once.                                              *)
OneAccount == users <= 1

(* A session that was logged out, alone or with all others, is never used  *)
(* again, although a refresh that had read it before may commit later.     *)
LoggedOutForGood == \A s \in loggedOut : session[s].status = "REVOKED"

(* While requests do not overlap and answers arrive, the browser is never  *)
(* signed out by a refresh: its cookie is the token of its session.        *)
CookieIsCurrent ==
    authAlone /\ (\A r \in AuthRequests : authTx[r].op # "answer") =>
        \/ cookie = NoCookie
        \/ cookie.token = session[cookie.id].token

(* Who signs in is the one user there is, stays signed in while            *)
(* refreshing, and does not come back after signing out.                   *)
SignedInAsKnown == OneAccount /\ LoggedOutForGood /\ CookieIsCurrent
=============================================================================
