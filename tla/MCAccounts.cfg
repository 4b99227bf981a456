\* Two ids for three accounts, so that the id of a deleted user comes back; two
\* requests and a login in progress at once, two sessions.
CONSTANTS
    Names = {n1, n2}
    Passwords = {p1}
    Tokens = {t1, t2}
    NoToken = NoToken
    Logins = {a1}
    Requests = {q1, q2}
    SessionTTL = 1
    MaxId = 2
    MaxAccounts = 3
SPECIFICATION AccountsSpec
INVARIANTS AccountsInv CookieActsForItsAccount
PROPERTIES LastAdminOutlivesItsRequests
SYMMETRY AccountSymmetry
