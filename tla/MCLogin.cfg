CONSTANTS
    Nonces = {c1, c2, c3}
    NoNonce = NoNonce
    ChallengeTTL = 1
    maxChallenges = 2
    Attempts = {a1, a2}
    Logins = {a1, a2}
    IPs = {ip1}
    NoIP = NoIP
    maxFails = 2
    lockWindow = 2
    Names = {n1}
    Passwords = {p1}
    Tokens = {t1, t2}
    NoToken = NoToken
    Requests = {}
    SessionTTL = 1
    MaxId = 1
    MaxAccounts = 1
SPECIFICATION Spec
INVARIANTS OneLoginPerPayload FailuresCostChallenges ChallengeInv
PROPERTIES RecentChallengesSurvive ImplementsOneTimeTokens
SYMMETRY LoginSymmetry
