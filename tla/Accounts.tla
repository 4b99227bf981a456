------------------------------ MODULE Accounts ------------------------------
(***************************************************************************)
(* The users and sessions tables and everything that reads or writes them: *)
(* the database half of login, the session middleware in front of every    *)
(* API handler, the admin's user handlers, logout, the pwreset command and *)
(* bootstrapAdmin.  One SQL statement is one step (one connection); a      *)
(* handler is several, with other handlers in between.                     *)
(*                                                                         *)
(* users.id is an INTEGER PRIMARY KEY without AUTOINCREMENT, so the id of  *)
(* a deleted user can come back.  The field acct numbers the accounts in   *)
(* the order of their creation; it tells apart two accounts with one id    *)
(* and is history, as the code has no such column.                         *)
(***************************************************************************)
EXTENDS Integers, FiniteSetsExt

CONSTANTS
    Names,          \* usernames
    Passwords,
    Tokens,         \* the session tokens NewToken may return
    NoToken,
    Logins,         \* goroutines serving a login
    Requests,       \* goroutines serving a request with a session cookie
    SessionTTL,     \* in clock ticks
    MaxId,          \* bound on users.id
    MaxAccounts     \* bound on the accounts ever created

ASSUME AccountSetsAssumption == Names # {} /\ Passwords # {} /\ NoToken \notin Tokens
ASSUME AccountBoundsAssumption ==
    SessionTTL \in Nat \ {0} /\ MaxId \in Nat \ {0} /\ MaxAccounts \in Nat \ {0}

VARIABLES
    users,      \* users[u]: the row with id u; acct = 0 is no row
    sessions,   \* sessions[t]: the row of token t; uid = 0 is no row
    minted,     \* history: the tokens drawn so far
    created,    \* history: the number of accounts created so far
    login,      \* login[a]: the database half of a login
    request,    \* request[q]: a request in the middleware or its handler
    cli         \* the id pwreset is about to write, 0 when it is not running

accountVars == <<users, sessions, minted, created, login, request, cli>>

Ids == 1 .. MaxId
Accts == 0 .. MaxAccounts

User == [acct : Accts, name : Names, pw : Passwords, admin : BOOLEAN, enabled : BOOLEAN]

\* left: time until expires_at (-1: past).  acct: the account that held the id
\* at the INSERT; proved: the account whose password was verified; since: the
\* value of created when it was (all three history).
Session == [uid : 0 .. MaxId, left : -1 .. SessionTTL, acct : Accts, proved : Accts,
            since : Accts]

LoginState == [pc : {"idle", "verified", "inserted"}, uid : 0 .. MaxId, acct : Accts,
               since : Accts]

\* owner: the account the session row was inserted for; acct, admin: the user the
\* middleware put into the context; since: created when the session was read.
RequestState == [pc : {"idle", "user", "expired", "handler"}, uid : 0 .. MaxId,
                 tok : Tokens \cup {NoToken}, owner : Accts, acct : Accts, admin : BOOLEAN, since : Accts]

AccountsTypeOK ==
    /\ users \in [Ids -> User]
    /\ sessions \in [Tokens -> Session]
    /\ minted \in SUBSET Tokens
    /\ created \in Accts
    /\ login \in [Logins -> LoginState]
    /\ request \in [Requests -> RequestState]
    /\ cli \in 0 .. MaxId

AnyName == CHOOSE n \in Names : TRUE
AnyPassword == CHOOSE p \in Passwords : TRUE

NoUser == [acct |-> 0, name |-> AnyName, pw |-> AnyPassword, admin |-> FALSE,
           enabled |-> FALSE]
NoSession == [uid |-> 0, left |-> -1, acct |-> 0, proved |-> 0, since |-> 0]
IdleLogin == [pc |-> "idle", uid |-> 0, acct |-> 0, since |-> 0]
IdleRequest == [pc |-> "idle", uid |-> 0, tok |-> NoToken, owner |-> 0, acct |-> 0,
                admin |-> FALSE, since |-> 0]

Exists(u) == users[u].acct > 0

\* bootstrapAdmin on an empty table: the admin account gets the first id.
Admin(n, p, acct) ==
    [u \in Ids |-> IF u = 1 THEN [acct |-> acct, name |-> n, pw |-> p, admin |-> TRUE,
                                  enabled |-> TRUE]
                   ELSE NoUser]

AccountsInit ==
    /\ users = Admin(AnyName, AnyPassword, 1)
    /\ sessions = [t \in Tokens |-> NoSession]
    /\ minted = {}
    /\ created = 1
    /\ login = [a \in Logins |-> IdleLogin]
    /\ request = [q \in Requests |-> IdleRequest]
    /\ cli = 0

-----------------------------------------------------------------------------
(* login: the statements it runs after Decrypt. *)

\* GetByUsername finds an enabled user and VerifyPassword agrees.
Verify(a, n, p) ==
    /\ login[a].pc = "idle"
    /\ \E u \in Ids :
        /\ Exists(u) /\ users[u].name = n
        /\ users[u].enabled
        /\ users[u].pw = p
        /\ login' = [login EXCEPT ![a] = [pc |-> "verified", uid |-> u,
                                          acct |-> users[u].acct, since |-> created]]
    /\ UNCHANGED <<users, sessions, minted, created, request, cli>>

\* Sessions.Create; the foreign key wants the user's row to be there.
CreateSession(a, t) ==
    LET u == login[a].uid
    IN  /\ login[a].pc = "verified"
        /\ t \notin minted
        /\ Exists(u)
        /\ minted' = minted \cup {t}
        /\ sessions' = [sessions EXCEPT ![t] =
                          [uid |-> u, left |-> SessionTTL, acct |-> users[u].acct,
                           proved |-> login[a].acct, since |-> login[a].since]]
        /\ login' = [login EXCEPT ![a] = [IdleLogin EXCEPT !.pc = "inserted"]]
        /\ UNCHANGED <<users, created, request, cli>>

\* The INSERT fails, for the foreign key or for any database error: a 500.
CreateSessionFails(a) ==
    /\ login[a].pc = "verified"
    /\ login' = [login EXCEPT ![a] = IdleLogin]
    /\ UNCHANGED <<users, sessions, minted, created, request, cli>>

\* PurgeExpired, whose error is ignored, and the answer with the cookie.
Purge(a) ==
    /\ login[a].pc = "inserted"
    /\ sessions' \in {sessions, [t \in Tokens |-> IF sessions[t].left < 0 THEN NoSession
                                                                     ELSE sessions[t]]}
    /\ login' = [login EXCEPT ![a] = IdleLogin]
    /\ UNCHANGED <<users, minted, created, request, cli>>

-----------------------------------------------------------------------------
(* auth.Middleware.  A cookie without a row leaves the request anonymous. *)

Usable(t) == sessions[t].uid > 0 /\ sessions[t].left > 0

\* sessions.Get and the expiry test; the token is kept for Delete only.
ReadSession(q, t) ==
    /\ request[q].pc = "idle"
    /\ sessions[t].uid > 0
    /\ request' = [request EXCEPT ![q] =
            IF Usable(t)
            THEN [IdleRequest EXCEPT !.pc = "user", !.uid = sessions[t].uid,
                                     !.owner = sessions[t].acct, !.since = created]
            ELSE [IdleRequest EXCEPT !.pc = "expired", !.tok = t]]
    /\ UNCHANGED <<users, sessions, minted, created, login, cli>>

\* The row of an expired session goes, an error is ignored; the request stays
\* anonymous.
DropExpired(q) ==
    /\ request[q].pc = "expired"
    /\ sessions' \in {sessions, [sessions EXCEPT ![request[q].tok] = NoSession]}
    /\ request' = [request EXCEPT ![q] = IdleRequest]
    /\ UNCHANGED <<users, minted, created, login, cli>>

\* GetByID: the context user is a copy of the row as it is now.
ReadUser(q) ==
    LET u == request[q].uid
    IN  /\ request[q].pc = "user"
        /\ Exists(u) /\ users[u].enabled
        /\ request' = [request EXCEPT ![q].pc = "handler", ![q].acct = users[u].acct,
                                      ![q].admin = users[u].admin]
        /\ UNCHANGED <<users, sessions, minted, created, login, cli>>

\* No such user, a disabled one, or a database error: the request is anonymous.
StayAnonymous(q) ==
    /\ request[q].pc = "user"
    /\ request' = [request EXCEPT ![q] = IdleRequest]
    /\ UNCHANGED <<users, sessions, minted, created, login, cli>>

-----------------------------------------------------------------------------
(* The handlers, past the middleware. *)

\* A request whose context user is an admin, ready to run a statement.
ByAdmin(q) == request[q].pc = "handler" /\ request[q].admin

Done(q) == request' = [request EXCEPT ![q] = IdleRequest]

\* SQLite picks the largest id in the table plus one.
NextId == Max({0} \cup {u \in Ids : Exists(u)}) + 1

\* createUser; the INSERT of a username that is taken is refused (409).
CreateUser(q, n, p, admin) ==
    /\ ByAdmin(q)
    /\ \A u \in Ids : Exists(u) => users[u].name # n
    /\ NextId <= MaxId /\ created < MaxAccounts
    /\ created' = created + 1
    /\ users' = [users EXCEPT ![NextId] =
                   [acct |-> created + 1, name |-> n, pw |-> p, admin |-> admin,
                    enabled |-> TRUE]]
    /\ Done(q)
    /\ UNCHANGED <<sessions, minted, login, cli>>

DeleteUserKeepingSessions(q, u) ==
    /\ ByAdmin(q)
    /\ u # request[q].uid
    /\ users' = [users EXCEPT ![u] = NoUser]
    /\ Done(q)
    /\ UNCHANGED <<sessions, minted, created, login, cli>>

DeleteAnyUser(q, u) ==
    /\ ByAdmin(q)
    /\ users' = [users EXCEPT ![u] = NoUser]
    /\ sessions' = [t \in Tokens |-> IF sessions[t].uid = u THEN NoSession ELSE sessions[t]]
    /\ Done(q)
    /\ UNCHANGED <<minted, created, login, cli>>

\* deleteUser, not of the admin's own id; ON DELETE CASCADE takes the sessions.
DeleteUser(q, u) ==
    /\ ByAdmin(q)
    /\ u # request[q].uid
    /\ users' = [users EXCEPT ![u] = NoUser]
    /\ sessions' = [t \in Tokens |-> IF sessions[t].uid = u THEN NoSession ELSE sessions[t]]
    /\ Done(q)
    /\ UNCHANGED <<minted, created, login, cli>>

\* disableUser and enableUser, not of the admin's own id; the sessions stay.
SetEnabled(q, u, enabled) ==
    /\ ByAdmin(q)
    /\ u # request[q].uid
    /\ users' = IF Exists(u) THEN [users EXCEPT ![u].enabled = enabled] ELSE users
    /\ Done(q)
    /\ UNCHANGED <<sessions, minted, created, login, cli>>

SetPassword(u, p) == users' = IF Exists(u) THEN [users EXCEPT ![u].pw = p] ELSE users

\* resetUserPassword: of any id, the admin's own included; the sessions stay.
ResetPassword(q, u, p) ==
    /\ ByAdmin(q)
    /\ SetPassword(u, p)
    /\ Done(q)
    /\ UNCHANGED <<sessions, minted, created, login, cli>>

\* Every handler that leaves users and sessions alone, and every refusal.
Respond(q) ==
    /\ request[q].pc = "handler"
    /\ Done(q)
    /\ UNCHANGED <<users, sessions, minted, created, login, cli>>

\* logout, which needs no more than the cookie.
Logout(t) ==
    /\ sessions[t].uid > 0
    /\ sessions' = [sessions EXCEPT ![t] = NoSession]
    /\ UNCHANGED <<users, minted, created, login, request, cli>>

-----------------------------------------------------------------------------
(* pwreset, another process on the same database: two statements. *)

CliFind(n) ==
    /\ cli = 0
    /\ \E u \in Ids : Exists(u) /\ users[u].name = n /\ cli' = u
    /\ UNCHANGED <<users, sessions, minted, created, login, request>>

CliSet(p) ==
    /\ cli > 0
    /\ SetPassword(cli, p)
    /\ cli' = 0
    /\ UNCHANGED <<sessions, minted, created, login, request>>

-----------------------------------------------------------------------------
AccountsTick ==
    /\ sessions' = [t \in Tokens |->
            [sessions[t] EXCEPT !.left = IF @ >= 0 THEN @ - 1 ELSE @]]
    /\ UNCHANGED <<users, minted, created, login, request, cli>>

\* The server restarts; main runs bootstrapAdmin before it serves.
AccountsRestart ==
    /\ login' = [a \in Logins |-> IdleLogin]
    /\ request' = [q \in Requests |-> IdleRequest]
    /\ IF (\E u \in Ids : Exists(u)) \/ created = MaxAccounts
       THEN UNCHANGED <<users, created>>
       ELSE /\ created' = created + 1
            /\ users' = Admin(AnyName, AnyPassword, created + 1)
    /\ UNCHANGED <<sessions, minted, cli>>

LoginStep(a) ==
    \/ \E n \in Names, p \in Passwords : Verify(a, n, p)
    \/ \E t \in Tokens : CreateSession(a, t)
    \/ CreateSessionFails(a)
    \/ Purge(a)

RequestStep(q) ==
    \/ \E t \in Tokens : ReadSession(q, t)
    \/ DropExpired(q)
    \/ ReadUser(q)
    \/ StayAnonymous(q)
    \/ \E n \in Names, p \in Passwords, admin \in BOOLEAN : CreateUser(q, n, p, admin)
    \/ \E u \in Ids :
        \/ DeleteUser(q, u)
        \/ \E enabled \in BOOLEAN : SetEnabled(q, u, enabled)
        \/ \E p \in Passwords : ResetPassword(q, u, p)
    \/ Respond(q)

AccountsNext ==
    \/ \E a \in Logins : LoginStep(a)
    \/ \E q \in Requests : RequestStep(q)
    \/ \E t \in Tokens : Logout(t)
    \/ \E n \in Names : CliFind(n)
    \/ \E p \in Passwords : CliSet(p)
    \/ AccountsTick
    \/ AccountsRestart

AccountsSpec == AccountsInit /\ [][AccountsNext]_accountVars

-----------------------------------------------------------------------------
(* Correctness. *)

\* A cookie acts for the account that logged in with it.  The exceptions are
\* the two windows in which an id is carried over a statement: a login between
\* GetByUsername and its INSERT, a request between Sessions.Get and GetByID.  The
\* account taken for the other one was then created inside that window.
CookieActsForItsAccount ==
    /\ \A t \in Tokens :
        sessions[t].uid > 0 /\ sessions[t].acct # sessions[t].proved
            => sessions[t].acct > sessions[t].since
    /\ \A q \in Requests :
        request[q].pc = "handler" /\ request[q].acct # request[q].owner
            => request[q].acct > request[q].since

\* ON DELETE CASCADE: a session row names the account it was inserted for as
\* long as it is there, although the id of a deleted user may be given again.
SessionsDieWithTheirUser ==
    \A t \in Tokens :
        sessions[t].uid > 0 => users[sessions[t].uid].acct = sessions[t].acct

\* Account numbers only grow: what a table holds was created by then, and a
\* session or a window holds accounts no younger than its own `since`.
AccountsAreNumbered ==
    /\ \A u \in Ids : users[u].acct <= created
    /\ \A t \in Tokens : sessions[t].uid > 0 =>
          /\ t \in minted
          /\ sessions[t].acct > 0 /\ sessions[t].since <= created
          /\ sessions[t].acct # sessions[t].proved => sessions[t].acct > sessions[t].since

\* The row of id u is gone, still holds acct, or was inserted after since.
HeldSince(u, acct, since) ==
    /\ u \in Ids /\ acct > 0 /\ since <= created
    /\ users[u].acct > 0 /\ users[u].acct # acct => users[u].acct > since

\* The two windows: from GetByUsername to the INSERT of the session, and from
\* Sessions.Get to GetByID, after which the request holds its user.
WindowsAreTracked ==
    /\ \A a \in Logins : login[a].pc = "verified" =>
          HeldSince(login[a].uid, login[a].acct, login[a].since)
    /\ \A q \in Requests : request[q].pc = "user" =>
          HeldSince(request[q].uid, request[q].owner, request[q].since)
    /\ \A q \in Requests : request[q].pc = "handler" =>
          /\ request[q].uid \in Ids /\ request[q].acct > 0
          /\ request[q].acct # request[q].owner => request[q].acct > request[q].since

\* The inductive invariant of the two tables.
AccountsInv ==
    /\ AccountsTypeOK
    /\ SessionsDieWithTheirUser
    /\ AccountsAreNumbered
    /\ WindowsAreTracked

ActiveAdmin(u) == Exists(u) /\ users[u].admin /\ users[u].enabled

\* "cannot delete / disable your own account" keeps an enabled admin: the last
\* one goes only by a request whose own admin was disabled or deleted meanwhile.
LastAdminOutlivesItsRequests ==
    [][(\E u \in Ids : ActiveAdmin(u)) /\ ~ (\E u \in Ids : ActiveAdmin(u)') =>
          \E q \in Requests :
              /\ request[q].pc = "handler" /\ request'[q].pc = "idle"
              /\ users[request[q].uid].acct # request[q].acct
                   \/ ~ ActiveAdmin(request[q].uid)]_accountVars
=============================================================================
