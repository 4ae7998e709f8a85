---------------------------- MODULE LoginSessions ----------------------------
(***************************************************************************)
(* Login sessions: rows of tblt_user_sessions with a current and a         *)
(* previous token, logins that reuse the row of the same device, token     *)
(* rotation by requests that run in parallel, logout, and the token an     *)
(* administrator gets back after an impersonation.                         *)
(*                                                                         *)
(* A token is a signed JWT of a user and the second it was issued in, so   *)
(* two tokens of one user issued in one second are the same token.  The    *)
(* clock counts those seconds; Life, Window and Grace are                  *)
(* jwt_access_token_minutes, TOKEN_REFRESH_WINDOW_SECONDS and              *)
(* token_rotation_grace_seconds on its scale.                              *)
(***************************************************************************)
EXTENDS Naturals, FiniteSets

CONSTANTS
    Users,      \* user accounts
    Clients,    \* what the browsers send: records of their headers and address
    Sessions,   \* primary keys of session rows
    Threads,    \* requests in flight, in any API process
    Life,       \* seconds from iat to exp
    Window,     \* a token with fewer seconds left than this is rotated
    Grace,      \* seconds a rotated token stays valid
    MaxNow,     \* bound on the clock
    None        \* SQL NULL

ASSUME LifetimesAssumption ==
    /\ Life \in Nat /\ Window \in Nat /\ Grace \in Nat /\ MaxNow \in Nat
    /\ 0 < Grace /\ Window <= Grace /\ 2 * Window <= Life
ASSUME NoneAssumption == None \notin Sessions

VARIABLES
    now,        \* the clock, in seconds
    row,        \* tblt_user_sessions: a row or None, for each key
    thread,     \* what each request in flight has read so far
    inactive,   \* users with is_active = false
    chain,      \* history: unexpired tokens issued to a session since its last login
    dropped     \* history: those of them that the end of an impersonation replaced

sessionVars == <<now, row, thread, inactive, chain, dropped>>

Token == [user: Users, iat: 0..MaxNow]
Expires(t) == t.iat + Life
NewToken(u) == [user |-> u, iat |-> now]

\* decode_token accepts signed tokens until exp.
Decodes(t) == now < Expires(t)

-----------------------------------------------------------------------------
(* Headers of the login request, and what is stored about the device *)

FirstKnown(x, y) == IF x # "" THEN x ELSE IF y # "" THEN y ELSE "Unknown"

\* Sec-Ch-Ua decides before User-Agent.
Browser(c) == FirstKnown(c.brand, c.agentBrowser)

\* The version comes from the header the browser's name comes from.
BrowserVersion(c) == IF c.brand # "" THEN c.brandVersion ELSE FirstKnown(c.agentVersion, "")

OperatingSystem(c) == FirstKnown(c.platform, c.agentSystem)

\* The hints are "?0" and "?1": neither names a mobile or a tablet.
DeviceType(c) == IF c.mobile = "" THEN "Unknown" ELSE "Desktop"

Fingerprint(c) ==
    [ip |-> c.ip, browser |-> Browser(c), version |-> BrowserVersion(c),
     os |-> OperatingSystem(c), type |-> DeviceType(c)]

Row == [user: Users, device: {Fingerprint(c) : c \in Clients}, at: 0..MaxNow, out: BOOLEAN,
        token: Token, prev: Token \cup {None}, prevExp: 0..MaxNow + Grace]

ASSUME RowAssumption == None \notin Row /\ None \notin Token

-----------------------------------------------------------------------------
(* Queries *)

Exists(s) == row[s] # None
Active(s) == Exists(s) /\ ~row[s].out

\* filter(status == ACTIVE).order_by(login_datetime.desc()).first()
LatestActive(u) ==
    LET mine == {s \in Sessions : Active(s) /\ row[s].user = u}
    IN  {s \in mine : \A q \in mine : row[q].at <= row[s].at}

\* Mutant: the grace period is forgotten.
MatchesCurrent(s, t) == row[s].token = t

\* get_session_by_token
Matches(s, t) ==
    \/ row[s].token = t
    \/ row[s].prev = t /\ now < row[s].prevExp

\* A token authenticates session s for its user.
Authenticates(s, t) ==
    /\ Decodes(t)
    /\ t.user \notin inactive
    /\ Exists(s) /\ Matches(s, t) /\ ~row[s].out

\* The unique constraint on session_token.
Unique(s, t) == \A q \in Sessions \ {s} : Exists(q) => row[q].token # t

-----------------------------------------------------------------------------
Idle == [pc |-> "idle", session |-> None, token |-> None, device |-> None]

SessionInit ==
    /\ now = 0
    /\ row = [s \in Sessions |-> None]
    /\ thread = [r \in Threads |-> Idle]
    /\ inactive = {}
    /\ chain = [s \in Sessions |-> {}]
    /\ dropped = [s \in Sessions |-> {}]

Finish(r) == thread' = [thread EXCEPT ![r] = Idle]

\* login_and_record_session up to the comparison with the latest active session
LoginRead(r, u, c) ==
    LET same(s) == row[s].device = Fingerprint(c) IN
    /\ thread[r].pc = "idle"
    /\ \E s \in LatestActive(u) \cup {None} :
          /\ s = None <=> (LatestActive(u) = {})
          /\ thread' = [thread EXCEPT ![r] =
                 [pc |-> "login", token |-> NewToken(u), device |-> Fingerprint(c),
                  session |-> IF s # None /\ same(s) THEN s ELSE None]]
    /\ UNCHANGED <<now, row, inactive, chain, dropped>>

\* A login starts the history of its session.
NewChain(s, t) ==
    /\ chain' = [chain EXCEPT ![s] = {t}]
    /\ dropped' = [dropped EXCEPT ![s] = {}]

\* update_user_session: the previous token and its expiry are left as they are.
LoginUpdates(r) ==
    LET s == thread[r].session
        t == thread[r].token
    IN  /\ thread[r].pc = "login" /\ s # None
        /\ Unique(s, t)
        /\ row' = [row EXCEPT ![s] = [@ EXCEPT !.token = t, !.at = t.iat, !.out = FALSE]]
        /\ NewChain(s, t)
        /\ Finish(r)
        /\ UNCHANGED <<now, inactive>>

\* create_user_session
LoginCreates(r) ==
    LET t == thread[r].token IN
    /\ thread[r].pc = "login" /\ thread[r].session = None
    /\ \E s \in Sessions :
          /\ ~Exists(s) /\ Unique(s, t)
          /\ row' = [row EXCEPT ![s] =
                 [user |-> t.user, device |-> thread[r].device, at |-> t.iat, out |-> FALSE,
                  token |-> t, prev |-> None, prevExp |-> 0]]
          /\ NewChain(s, t)
    /\ Finish(r)
    /\ UNCHANGED <<now, inactive>>

\* Another row already holds the token of this second: IntegrityError.
LoginCollides(r) ==
    /\ thread[r].pc = "login"
    /\ ~Unique(thread[r].session, thread[r].token)
    /\ Finish(r)
    /\ UNCHANGED <<now, row, inactive, chain, dropped>>

\* JWTAuthMiddleware lets a request in.
Authenticate(r, s, t) ==
    /\ thread[r].pc = "idle"
    /\ Authenticates(s, t)
    /\ thread' = [thread EXCEPT ![r] =
           [pc |-> "serving", session |-> s, token |-> t, device |-> None]]
    /\ UNCHANGED <<now, row, inactive, chain, dropped>>

ExpiringSoon(t) == Expires(t) < now + Window

\* Rotation is a compare-and-set on the row's current token.
Rotates(s, t) == ExpiringSoon(t) /\ row[s].token = t

\* _refresh_token_if_expiring_soon, after the response was produced
Rotate(r) ==
    LET s == thread[r].session
        t == thread[r].token
        new == NewToken(t.user)
    IN  /\ thread[r].pc = "serving"
        /\ Rotates(s, t) /\ Unique(s, new)
        /\ row' = [row EXCEPT ![s] =
               [@ EXCEPT !.token = new, !.prev = t, !.prevExp = now + Grace]]
        /\ chain' = [chain EXCEPT ![s] = @ \cup {new}]
        /\ Finish(r)
        /\ UNCHANGED <<now, inactive, dropped>>

\* Two sessions of a user rotate in the same second: the later one fails.
RotateCollides(r) ==
    LET s == thread[r].session
        t == thread[r].token
    IN  /\ thread[r].pc = "serving"
        /\ Rotates(s, t) /\ ~Unique(s, NewToken(t.user))
        /\ Finish(r)
        /\ UNCHANGED <<now, row, inactive, chain, dropped>>

\* The token has time left, or another request has rotated it.
Respond(r) ==
    /\ thread[r].pc = "serving"
    /\ ~Rotates(thread[r].session, thread[r].token)
    /\ Finish(r)
    /\ UNCHANGED <<now, row, inactive, chain, dropped>>

\* logout finds the user's latest active session, whichever token was sent.
LogoutRead(r, u) ==
    /\ thread[r].pc = "idle"
    /\ \E s \in Sessions : Exists(s) /\ row[s].user = u /\ Decodes(row[s].token)
    /\ \E s \in LatestActive(u) :
          thread' = [thread EXCEPT ![r] =
              [pc |-> "logout", session |-> s, token |-> None, device |-> None]]
    /\ UNCHANGED <<now, row, inactive, chain, dropped>>

LogoutWrite(r) ==
    LET s == thread[r].session IN
    /\ thread[r].pc = "logout"
    /\ row' = [row EXCEPT ![s] = [@ EXCEPT !.out = TRUE]]
    /\ thread' = [thread EXCEPT ![r].pc = "publish"]
    /\ UNCHANGED <<now, inactive, chain, dropped>>

\* invalidate_session was handed to the event loop and runs after the commit.
Published(r) ==
    /\ thread[r].pc = "publish"
    /\ Finish(r)
    /\ UNCHANGED <<now, row, inactive, chain, dropped>>

\* reissue_admin_token at the end of an impersonation: set_session_token replaces the
\* current token and the previous one, and leaves neither a grace period.
Reissue(s) ==
    LET new == NewToken(row[s].user) IN
    /\ Exists(s) /\ row[s].user \notin inactive
    /\ Unique(s, new)
    /\ row' = [row EXCEPT ![s] = [@ EXCEPT !.token = new, !.prev = None, !.prevExp = 0]]
    /\ chain' = [chain EXCEPT ![s] = @ \cup {new}]
    /\ dropped' = [dropped EXCEPT ![s] = (@ \cup chain[s]) \ {new}]
    /\ UNCHANGED <<now, thread, inactive>>

\* is_active is switched by an administrator.
Deactivate(u) ==
    /\ u \notin inactive
    /\ inactive' = inactive \cup {u}
    /\ UNCHANGED <<now, row, thread, chain, dropped>>

Tick ==
    /\ now < MaxNow
    /\ now' = now + 1
    /\ chain' = [s \in Sessions |-> {t \in chain[s] : now' < Expires(t)}]
    /\ dropped' = [s \in Sessions |-> {t \in dropped[s] : now' < Expires(t)}]
    /\ UNCHANGED <<row, thread, inactive>>

SessionNext ==
    \/ \E r \in Threads :
          \/ \E u \in Users : LogoutRead(r, u) \/ \E c \in Clients : LoginRead(r, u, c)
          \/ \E s \in Sessions, t \in Token : Authenticate(r, s, t)
          \/ LoginUpdates(r) \/ LoginCreates(r) \/ LoginCollides(r)
          \/ Rotate(r) \/ RotateCollides(r) \/ Respond(r) \/ LogoutWrite(r)
    \/ \E s \in Sessions : Reissue(s)
    \/ \E u \in Users : Deactivate(u)
    \/ Tick

SessionSpec ==
    SessionInit /\ [][SessionNext \/ \E r \in Threads : Published(r)]_sessionVars

-----------------------------------------------------------------------------
ThreadState ==
    {Idle}
        \cup [pc: {"login"}, session: Sessions \cup {None}, token: Token,
              device: {Fingerprint(c) : c \in Clients}]
        \cup [pc: {"serving"}, session: Sessions, token: Token, device: {None}]
        \cup [pc: {"logout", "publish"}, session: Sessions, token: {None}, device: {None}]

\* Every variable has its type, and a request only holds rows that exist.
SessionTypeOK ==
    /\ now \in 0..MaxNow
    /\ row \in [Sessions -> Row \cup {None}]
    /\ thread \in [Threads -> ThreadState]
    /\ inactive \subseteq Users
    /\ chain \in [Sessions -> SUBSET Token]
    /\ dropped \in [Sessions -> SUBSET Token]
    /\ \A r \in Threads : thread[r].session # None => Exists(thread[r].session)

\* Whatever requests rotate in whatever order, every unexpired token that a
\* session was given since its last login, by the login or by a rotation, still
\* finds that session: no browser is signed out because a parallel request won
\* the rotation.  The one exception is the end of an impersonation: the tokens it
\* replaced (set_session_token, which keeps no previous token) find the session no
\* more, in whatever order requests that still hold them go on.
RotationKeepsTokens ==
    \A s \in Sessions : \A t \in chain[s] :
        Exists(s) /\ (Matches(s, t) <=> t \notin dropped[s])

=============================================================================
